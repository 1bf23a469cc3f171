# A verification project for fastkit

fastkit is a multi-tenant site, admin and API kit on FastAPI and SQLAlchemy. Several identical nodes
share one database, which is also the queue, the cache and the lock: nothing is coordinated in memory,
and a pass of a job may overlap the next one, a request, and an operator running the same pass by hand.
This project models the parts where that matters, and the algorithms a wrong answer of which nobody would
notice, model-checks them with TLC, and proves 36 theorems about them with TLAPS.

## How the code is read

The modules share one reading of a database session (`helpers/db.py`):

- sessions run at READ COMMITTED, without autoflush and without expiry on commit, so an object a session
  loaded stays as it was read until it is refreshed (the *identity map*);
- the universal way to take a row is one conditional `UPDATE` and its `rowcount`; the universal way to
  write a row once is `insert_or_read`, a look, an insert in a savepoint, and a read after the unique key
  refused it;
- a **step** of a module is what a session does up to a commit, or up to a read whose answer it keeps and
  acts on after others may have written. Rows locked by a session (`hold_subscription`, an uncommitted
  conditional update) make everything up to its commit one step;
- a **crash** loses what a session kept and nothing it committed. An exception that ends a job, a deploy and
  the job's timeout are the same thing to the database.

Time is a clock of ticks where dates matter (Delivery), a calendar where months do (Calendar), a stamp where
only the order of two words does (Reconciliation) and a `stale` flag where only "older than ABANDONED_AFTER" does. A `stale` flag is raised by an action of its own (`Abandon`), which by default is
disabled while a live session works the row: the windows are 30 minutes against jobs that are cut off after
290 s (subscription) or 110 s (mail), and 5 minutes against a checkout call cut off after 15 s. Delivery's
constant `SlowNodes` removes that assumption.

## Inventory

| Component | State | Operations | Hard behaviour | What makes it correct |
|---|---|---|---|---|
| Delivery engine (`services/delivery_service.py`) | subscription, benefits, entitlements, grants, ledger, products | activate, release_cycle, expire_subscriptions, process_due, retry_failed_grants, deliver_* | passes overlap activations and each other; two commits per delivery; stalled sessions; stale batches | nothing paid twice, nothing stranded, a recorded delivery is a real one, access never outlives its reason |
| Reconciliation (`services/reconciliation_service.py`) | stated_at, holder, receipt and product of a subscription | reconcile_account, refresh, reconcile_stale, settle, adopt, open, hand_over, repoint, align, close | words out of order, two notices open one purchase, a receipt changes hands | an older word never moves a newer one; one cycle per move; in the end the rows say what the gateway holds |
| Commerce (`services/commerce_service.py`) | purchase, user_product, ledger | open_purchase, settle_purchase, grant | notices cross, replay and come late | paid means owned, owned means paid for, credited once, money is never unsettled |
| Checkout (`services/checkout_service.py`) | purchase | for_product, for_plan | gateway does not answer | a row nobody will pay is closed |
| Webhook inbox (`services/webhook_service.py`) | integration_webhook_event | ingest, claim, run, retry_failed, close_exhausted | redelivery against the retry pass; purchase commits before its notice | one reader, every notice closes |
| Gateways (`stripe_provider.py`, `revenue_cat_provider.py`) | none | authenticate, read, payment_of | vocabulary of another system | the word stored is the one the gateway meant |
| Ledger (`credit_transaction_service.py`, `user_balance_service.py`) | entries, balance | move, held | two moves of one balance, a repeated key | every entry carries the balance it left, the last one is the balance, the bounds hold, a repeat is answered |
| Idempotent calls (`helpers/idempotency.py`) | client_request | once, take_over, give_back, settle | calls that look together, die, come back | one worker, one answer |
| Mail queue (`services/email_service.py`) | outbound_email, suppressed addresses | queue, reclaim_abandoned, process_pending | dialled and not written down; two passes | one sender, ends once, always ends |
| App events (`services/app_event_service.py`) | app_event | ingest, process_pending, close_exhausted, forget | replayed batches, overlapping passes, rows that go | each event counted and logged once, always ends |
| Accounts (`auth_service`, `user_service`, `email_login_service`, `login_ticket_service`, `social_login_service`) | users, letters, challenges, tickets, identities, session epoch | sign-in, register, confirm, reset, redeem, connect, erase | a hash or a provider in the middle of everything; links used twice; guesses counted together | one use per proof; a new password closes every session; an erased account stays erased and empty |
| Stored files (`upload_service`, `sweep_service`) | stored files, their mentions, the bucket | store, mention, release, discard, sweep | release against a new mention; the sweep against a save | no named file is deleted, no dropped one stays |
| CRUD (`services/crud_service.py`) | rows of the catalogue and their brands | create, update, delete, reorder, delete a brand, list, look up | long sequences of legal writes | no row points across brands, no operator writes outside its own |
| Public pages (`localized_service`, `tagged_service`, `helpers/cache.py`) | cached pages | every route of the site and of the public API | a cache every brand and language shares | a card opens itself; nobody is answered another brand |
| Visitors, banners, newsletter | consent, visitor name, impressions, subscriptions | settle_cookies, count, trim, subscribe | answers that land late, counts that race | a cookie kept is one allowed; a total is the sum of its impressions; one letter an hour |
| Account pages and API (`routes/site/account.py`, `routes/account.py`, ...) | cookies, forms, addresses | thirty pages and forms; fourteen calls | what happens elsewhere between two requests | redirects end where the person wanted; nobody is shown what is another's |
| Retention, rotation, rate limits, schema | windows, secrets, tables | trim, rewrite, count, compare, create | interrupted half way, bounds, order of statements | only settled rows go; every secret opens; copies do not collide |
| Web applications, commands, seed, templates, settings | | | none between actors | |

They meet as follows. A route calls checkout inside an idempotent call; the gateway's webhook lands in the
inbox, which moves purchases (Commerce) or states subscriptions (Reconciliation); reconciliation activates,
renews and closes subscriptions in the delivery engine; delivery writes the ledger and hands over products
through Commerce's `grant`. Jobs run the passes of delivery, inbox, mail, events, retention and files. The
panel writes the catalogue through one CRUD path, whose save also names and drops files; the public pages read
what it wrote through the cache.

## Modules

| Module | Models | Notes |
|---|---|---|
| `Delivery` | delivery engine, and what reconciliation asks of it | `node[n]` is a session: the call it is in, the step it is at, its batch, the grant it works and what it read before |
| `Reconciliation` | gateways of both kinds, notices, refreshes, the sweep, and every way a row is written | `work[s]` is a session; the gateway and the order its words arrive in are external |
| `NewestWord` | | the abstract specification `Reconciliation` implements |
| `Commerce` | purchase, inbox and checkout of one product; the gateway is external | `session[n].cache` is the identity map, which the retry pass carries from notice to notice |
| `Idempotency` | one key of one account and the calls that carry it | the work is a checkout, which leaves a payment open |
| `EmailQueue` | the mail queue, its job and the suppression list | the dial is outside every transaction, so `received` is not undone by a crash |
| `AppEvents` | ingest, the job, the trim of retention and the forgetting of an account | a row gets its id when it is inserted and is seen by others when its batch commits; one that went and came back under its uuid is another |
| `Ledger` | `move` and `held`, statement by statement | the row lock is a guard of every statement that needs the balance |
| `Accounts` | every way to a session and every way an account changes | a request keeps the copy of the row it read; `user_service.hold` makes read and write one step |
| `Files` | uploads, mentions, release, discard, sweep | a transaction's writes are seen at its commit, its rows are locked up to there |
| `Catalogue` | the write path of the panel over eight models and the brands | two steps a request: what it reads and refuses, and the commit |
| `Listing` | filters, search, ordering, pages, lookup | each page is a query; rows the ordering ties come in any order |
| `Site` | what a public page or call answers of five tables, and the cache | rankings are operators; readers, edits and expiry are actions |
| `Visitors`, `Newsletter` | consent, preferences, banner counts and their trim; the newsletter | |
| `Browser` | one browser on the account pages: cookies, forms, letters, redirects | a page is an operator from the request to an answer; what else happens is an action |
| `Api` | the calls of an application for a signed-in account | addresses and erasure are in steps, reads are one |
| `RateLimit`, `Rotation`, `Startup`, `SchemaDiff`, `Calendar` | one helper or service each | the counting library, the answers of MySQL and the locks of the two databases are external |
| `Rationed` | Newsletter and RateLimit beside each other | what the site rations by a window of time |
| `DeliveryProofs`, `CommerceProofs`, `ReconciliationProofs` | | theorems about the module each is named after |
| `QueuesProofs` | | theorems about EmailQueue and AppEvents |
| `RecordsProofs` | | theorems about Files, Catalogue and Site |
| `ServicesProofs` | | theorems about Idempotency, Ledger, Startup, Rotation, Visitors, Newsletter, RateLimit, Rationed, Api, Browser, Listing and Calendar |
| `AccountsProofs`, `SessionsProofs` | | theorems about Accounts; the second extends the first and rests on its invariant |
| `MC*` | instances for TLC | model values, maps, initial states, the sums below, and symmetry |

Operators named `X_Something` before an operator `X` are variants a plausible mistake in the code would
give; PROJECT.json names the property each one breaks. They are used by nothing else. Names of variables differ
from the code where two modules that are checked side by side would share one (`commerceVars`, `mailer`, `panel`).

### Delivery

State: `sub` (status, holder, plan), `benefit` (status, next_grant_at, last_grant_at, cycle), `access` (the
entitlement a benefit hangs from), `grants` (a function on the keys written so far), `delivered` (ledger
entries and ownership, which outlive everything), and one session per node. `SubStatus` folds the states the
engine treats alike: TRIALING stands for trial and grace period, PAUSED for pending and suspended, CLOSED for
expired and revoked.

| Action | Code |
|---|---|
| `Activate`, `ActivateNext` | align and activate: one commit for entitlements and benefits, then one run_cycle per benefit owed on activation |
| `OpenNewCycle`, `HandOver`, `HandOverRelease`, `RenewActivate` | release_cycle and hand_over, with the commit between them |
| `Close` | expire_subscriptions, or a gateway closing the row |
| `StartDue`, `DueNext`, `DueSkip` | process_due: the batch, the second read of each benefit, resolve_due_slot |
| `CycleMet`, `CycleRead`, `InsertWon`, `InsertLost`, `InsertSkipped` | run_cycle and settled |
| `DeliverDropped`, `deliver_access`, `deliver_credit`, `deliver_product`, `DeliverFinish`, `DeliverFailed` | deliver, its re-read under the lock, the two commits of a paid delivery, and the exception handler |
| `StartRetry`, `RetryUnowed`, `RetryDrop`, `claim`, `close_exhausted`, `AdvanceGivenUp` | retry_failed_grants |
| `Abandon`, `Crash`, `Tick` | time and failure |

### Reconciliation and NewestWord

A gateway of the kind `stated` puts the state into its notice, with a stamp; one of the kind `queried` is asked,
and the moment of asking is the stamp. `work[s]` walks one answer purchase by purchase: `settle` (repoint,
adopt, align and carry under the lock `hold` took), `open` with its insert that may lose, `hand_over` with the
commit before `HandOverRelease`, and `Leftover`, which closes what the answer no longer names. `HoldAgain` and
`HoldAndCarry` are the second look at the stamp after a cycle was committed in the middle of a settle.
A purchase goes through the states its gateway has words for (`Turns`): a Stripe subscription is waiting, on trial,
active, past due, paused or over and says so; one of RevenueCat is on trial, active, in grace, paused with a date to
resume on, expired or refunded, and `status_of` reads the state off those dates in the order of the code: a pause
before a grace period before a trial.

`NewestWord` says what `models/subscription.py` promises of `stated_at` with no session, notice or gateway in
it: a row says the same until a word not older than its own arrives, but for three things that carry no date.
The mapping reads `said` off the rows; `KeepsNewestWord == Promise!Spec` is checked as a property.

### Commerce, Idempotency, EmailQueue, AppEvents, Ledger

A payment's life at the gateway (`Follows`, `Raise`) is external and deliberately free in order of delivery:
every notice raised may be delivered at any time, again, and to any node. The purchase moves by
compare-and-set; the move, the ownership and the credits are one commit; the notice is COMPLETED in a later
one. A charge or dispute finds its purchase only once a session notice stored the payment id. The other four are
translations of one service each; the header of each module says what a step is.

### Accounts, Files, Catalogue

Accounts has one request table: `requests[q].at` is the place between two commits, and what a request holds
there is a copy that may be old. A sign-in is several commits: the claim on the account (`settle_sign_in`, `signed_in`)
lets go of the row, which is then read back and asked again before anything is made from it (`PasswordSession`,
`read_back`); the callback of the panel inserts its ticket at one more commit (`create_ticket`), and a social attempt is
inserted after the provider was asked where to send the browser (`start_social`, `create_attempt`). Letters, attempts, tickets and codes carry numbers, and `opened` counts the
sessions each opened. Files keeps a file's row, its object, its mentions and the rows that name it apart,
because the hazards lie between them. Catalogue declares the models' references (`referenced`), what a deletion
takes along (`dependents`), and what is restricted; `touched` and `refused` are histories for properties.

### Site, Browser, Listing, Api

Site translates each route to the rows it lists or opens, and `named` to the parts of its cache key.
Browser has an operator for each page and form of the account pages; each gives an answer (`render`,
`redirect`, a cookie, an error), and `Asking` follows redirects. Listing and Api are described in their headers.

## Runs

Passing runs:

| Run | Instance | Shows |
|---|---|---|
| `delivery_overlap` | 2 nodes, one recurring credit, 3 attempts, 2 crashes | PaidOnce, NoGrantStranded, CompletedIsBacked, OneWorkerPerGrant under every interleaving of activations, due and retry passes |
| `delivery_plans` | product and access under two plans, trial narrowing, skip policy, a new cycle, a receipt that changes hands | AccessFollowsSubscription (PaidOnce and CompletedIsBacked hold here by the theorems below) |
| `once` | a sum: two subscriptions of one account and one once-per-user credit (one node, 2 crashes); one purchase with all seven kinds of notice, 3 deliveries, one failure, 2 nodes; two messages, 2 mail nodes, 2 attempts, 2 faults, fair passes | OncePerUserPaysOnce; CommerceInv (OneReader, PaidIsOwned, OwnedIsPaidFor), AgreesWithGateway, SettledStays; MailInv (OneSender, ReceivedOnce, WaitingIsRead), EveryMessageEndsOnce (EveryMessageEnds, EndedStays) |
| `progress` | a sum, with fair passes: one node and a latest-only benefit, a crash, pauses; two purchases of one product by one account, 2 failures; a batch and its replay, 2 passes, a death, an erasure | EveryGrantSettles, ScheduleMoves; EveryNoticeCloses, CreditedOnce; EveryEventEnds, EventsInv (AcceptedOnce, OnePassPerEvent, LoggedOnce, TrimsOnlySpent) |
| `reconcile` | 2 sessions, 2 accounts, 2 products, either kind of gateway, 4 stated or 2 queried changes, twice somebody asks, a fault; from nothing bought, or from an account of which one product ended and another runs or is paused, of either gateway (1.2 million states) | KeepsNewestWord (refinement), RowsFollowGateway, ReconciliationInv (CyclePerMove) |
| `accounts` | 2 requests at a time and 4 in all, an operator and a customer, 2 mailboxes, 2 passwords, an identity, with and without confirm_sign_up (1.6 million states) | ProofsReachOwner (LettersReachOwner, AddressIsProved), SessionsAreEarned (OldSessionsEnd, OpensOnce), AccountsInv (HasWayIn), ErasedForGood (ErasedIsEmpty, ErasedStays, ErasedOpensNothing), GuessingBlocks |
| `records` | a sum: 3 catalogue rows and 2 brands under any sequence of requests; 2 requests over 2 files, 2 records and an account, 2 edits, a stop | CatalogueInv (PointsInside, WritesStayInside, BrandCanGo); FilesInv (NamedFileStays, NamesAreWritten, DroppedIsReleased) |
| `services` | a sum of thirteen parts, each from every initial state of its instance | IdempotencyInv (OneHolder, SameAnswer, OpenedOnce, AnswerOfItsRoute); LedgerKeeps (LedgerAddsUp, RepeatIsAnswered); SchemaInv (StopsOnlyAtTwo, ProposalIsWhole, OneKeyPerColumn); SiteInv (ServedInside, CardOpensItself, NamedOpens); VisitorsInv (CarriedIsAllowed, TotalIsExplained); WindowsHold (OneLetterAnHour of the newsletter, LimitsHold of the limiter); RotationInv (NewestSecretStays, EverySecretOpens); StartupInv over MySQL (NobodyCollides, ServesWhole); BrowserInv (RedirectsEnd, LandsWhereWanted, NoticeDrawnOnce, DrawnIsOwn); ListingInv (EveryRowOnce, NarrowedAsAsked); CalendarKeeps (MonthsAreWhole, MovesOn); ApiInv (NoAddressCollides, ErasedHasNoAddress, SoldInsideItsBrand, AnsweredAreOwn) |

A run checks the properties outside the parentheses; each is the conjunction of the parts named inside them, with
the type invariant of its module where the name ends in `Inv`. The parts are stated, and commented, one by one in the modules.

A **sum** puts parts that share no row side by side: a variable says which part a behaviour is of, the others
stay in an initial state, and the next-state relation is a disjunction. Its behaviours are those of the parts,
so nothing is added and nothing hidden; it only keeps one run per question. A part with several initial states
rests in one fixed one.

Runs that find the code apart from what a document or comment says of it (PROJECT.json quotes the sentences):

| Run | Property | In short |
|---|---|---|
| `delivery_interrupted` | PaidOncePerInterval | a death between ledger and grant, a lapse and a return: the slot is worked out from a date that was never written, and the interval is paid again under another key |
| `delivery_stale_drop` | OncePerUserPaysOnce | the retry pass drops a grant on an old read and frees the reservation of a delivery in flight |
| `commerce_refund_first` | RefundRecorded | a refund that overtakes its payment is closed for good |
| `startup_postgresql` | NobodyCollides | the advisory lock is given back before the transaction that creates the tables commits, so the next copy sees none and dies on them; on MySQL, which commits each table, it holds |

Where a property appears both in a passing and in a violating run, the passing instance leaves out exactly the
ingredient the violation needs: a second overlapping pass for OncePerUserPaysOnce, the dialect for NobodyCollides.

### Behaviour the models contain, or narrow, and no run refutes

These traces were met while modelling, and some of them narrow a property or an instance. The modules take
the steps as the code does.

Delivery and commerce:

- *A benefit stuck on an old grant.* With a second cycle (`MaxCycle = 1`) ScheduleMoves is violated: a benefit
  that resumes on a date of an earlier cycle meets that grant, `advance` refuses it because its cycle is
  another, and every pass meets it again, against the comment at `delivery_service.py:305`. `progress` has one
  cycle.
- *Paid ahead of time.* `process_due` lists a benefit as due, an activation delivers that slot and advances the
  schedule, and the pass reads the benefit again and pays `next_grant_at`, which is now in the future
  (`DueNext`). Each interval is still paid once.
- *A completed grant undone.* The unconditioned drop of `delivery_stale_drop` also turns COMPLETED into SKIPPED
  when the overlapping pass has finished (`RetryUnowed`, `RetryDrop`).
- *A hand-over cut in two.* `hand_over` commits the new holder before `release_cycle`. After a crash in between
  the old cycle stands, a grant reserved for the old holder is retried under the new one, and with a second
  subscription the new holder is paid a once-per-user benefit twice (`HandOver`, `Crash`, `claim`). One node
  is enough: the account was paid under its own subscription, the receipt of another's arrives with a delivery
  left unfinished, the process dies before `reconciliation_service.py:361`, a later activation resumes the benefits in
  the old cycle, and the retry delivers the grant reserved for who held the receipt before. The theorem
  OnceForAnAccount is therefore stated for hand-overs made whole (`HandsOverWhole`), and the instance of `once` has one account.
- *A chargeback paid.* A `paid` notice interrupted after its purchase committed is applied again after the
  dispute was lost, and CHARGED_BACK becomes PAID (`Record`, `Crash`, `retry_failed`). AgreesWithGateway is
  therefore stated for payments that were never lost to a dispute.
- *An upgrade that takes only half.* Where `repoint` opened a cycle, its commits let go of the row, and a newer
  word that landed meanwhile ends the settle (`reconciliation_service.py:249-251`): the plan of the older
  one is taken and its period is not. The next word repairs it, which is why RowsFollowGateway is about moments
  at which everybody was heard. Accounts a receipt left or reached are outside it, because a hand-over takes
  no stamp.
- *Words that cross rows.* `stated_at` dates the words of a row, and an upgrade inside one Stripe purchase to a product
  the account had before is about two rows. (a) The purchase is cancelled right after the upgrade and that word is heard
  first: `settle` matches it to the old row by its product and stamps it, the word of the upgrade is then older than
  the stamp and refused, and the row the purchase was on stays ACTIVE until its period runs out. (b) The upgrade is heard first: the old
  row adopts the receipt and the other is closed without a stamp; a renewal that was said earlier then finds that row by its
  product, is held, and takes the receipt back, so a running purchase shows EXPIRED until its next word, against
  the docstring at `reconciliation_service.py:262`, "an older one never lands after a newer one". The rows each keep their newest word, which is what
  KeepsNewestWord says; RowsFollowGateway leaves such accounts out by name (`crossed`).
- *Suspended and unheard.* A pause of a queried purchase makes its row SUSPENDED, which is not one of
  `ELIGIBLE_SUBSCRIPTION_STATUSES`. `reconcile_stale` lists rows of those past their period and rows that just
  expired (`reconciliation_service.py:116-119`), `expire_subscriptions` and the leftovers of an answer close only rows of
  those. So where the notice of a renewal is lost while the row is SUSPENDED (three steps: the purchase is paused and heard
  of, it is renewed, the notice is lost; `GatewayMoves`, `LoseNotice`), nobody asks the gateway, and the row says SUSPENDED
  under a purchase that is paid until the account refreshes or another notice of it arrives; where the notice of its end is
  lost, the row stays SUSPENDED, which gives no access. `docs/gateways.md:36` calls the result "immune to a lost,
  duplicated or out-of-order event". The notices that are lost are those of a renewal and of an end.
  RowsFollowGateway leaves out, by name, a product whose row is SUSPENDED of an account that lost one (`Asleep`), and
  still says of that account that no row gives access the gateway does not hold.

Queues and services:

- *A suppressed address written to.* The suppression list is read in `queue` and never again, so a message
  already waiting when its address is refused is dialled all the same.
- *A counter crowded out.* The counter of the whole process is a key like the others, and goes when `Capacity`
  other keys were counted since its last hit; LimitsHold excepts exactly that.
- *A schema proposal that stops.* A column of another shape is proposed as `ADD COLUMN`, which MySQL refuses, and
  `DROP INDEX` of an index a foreign key needs is refused too (1553). StopsOnlyAtTwo says these are the only two.
- *Months shorten.* A schedule of the 31st walks to the 28th in February and stays there: each slot is worked out
  from the one before. MonthsAreWhole counts months, not days.

Accounts, files and records:

- *A brand pointed into by two requests at once.* Catalogue's run has one request at a time; of two, one moves a
  row into a brand after `ensure_referrers_still_reach` (`crud_service.py:277`) found nothing pointing at it, while
  the other creates what does, against `docs/configuration.md:231-233`.
- *A ticket after the erasure.* The callback of the panel claims the account at one commit and inserts its ticket at
  the next, holding and reading nothing in between (`login_ticket_service.py:18-22`; `read_back`, `create_ticket`). An
  erasure that falls between has deleted the tickets of the account already, so one of an erased account stays until
  retention collects it, where `docs/accounts.md:164` has the tickets removed. It opens nothing, because redeeming it
  asks the account again: ErasedForGood says so of every proof but the letter of a sign-up, and nothing of tickets themselves.
- *Two editors of one record.* With `OneEditor = FALSE`, an update that read its row before another's commit
  writes back, under the ORM's per-column update, a name whose mention the other one dropped
  (`crud_service.py:358`, against the docstring at `upload_service.py:94`), and the file leaves the bucket. The
  run takes a record to be edited by one request at a time.
- *A mention of nobody.* A deletion that races an edit of the same record can leave a mention whose row is
  gone, which keeps its file for ever; a stop between a commit and its release leaves a claimed file the sweep
  does not look at. DroppedIsReleased is therefore about runs that were not cut.
- *Answered 500.* An address that goes between the look and the write makes the update fail on a row count, and
  of two calls that create the same address the second is refused instead of replacing (`Api`).

Pages:

- *A card of a shared product.* A search of products keeps a shared row where the brand's own row of that slug
  does not match the search (`product_service.py:60`), and the card opens the brand's own. Site leaves the search
  out.
- *Own version first.* `find_by_tag`'s docstring says the brand's own version comes first; the ranking puts the
  language first. CardOpensItself holds because the listing ranks the same way.
- *Paid, it says.* The page a gateway returns to draws its "paid" form when the session ended meanwhile, since it
  finds no purchase of the reader to say otherwise.
- *A destination forgotten.* A form drawn again after a refusal, and then expired, sends the person to the
  account page instead of where they were going. So does a letter that was used before: a spent confirmation or recovery
  link redirects to the sign-in page without `next` (`routes/site/account.py:181`), and so do the pages after a recovery
  letter (`:248`) and after a second confirmation letter (`:225`). LandsWhereWanted lets the destination go after exactly
  these answers, by name (`Forgets`), and after the one that sends a sign-up letter, which carries it from there on.

### Bounds

Two nodes, sessions or requests are enough for a race between any two steps; a third adds only another loser
of the same conditional write (three where a part is small). Two benefits, subscriptions, messages,
purchases, files or brands are enough for one to interfere with another, and three catalogue rows for a chain
of references. MAX_ATTEMPTS is 2 or 3 instead of 5, so that the last attempt is reached within the bound on
failures. Every other bound is a constant named `Max...` and commented where it is declared: clocks, outside
calls, crashes, deliveries, edits. Each is large enough that an operation is interrupted, repeated and
interrupted again, except where that cost too much: in `once` a failure of commerce happens once (twice in
`progress`, with notices of one kind), and in `reconcile` a fault uses up one of the times somebody asks.
Because those bounds stop the environment, the runs do not check deadlock.

Pure parts (SchemaDiff, Site, Listing, Calendar) are checked from every initial state of a table of inputs:
every older schema over two tables, pairs of rows that a page must choose between, every listing of four rows with
and without ties, and anchors on the first and the last days of months before leap years and the end of a
century, walked fourteen intervals; that an interval itself stays within the dates there are is what
`validate_interval` refuses, which no property repeats. Browser takes seven clicks, which reach every page, every form and one
thing happening elsewhere in between; Visitors takes three visits.

Batches are read whole; EmailQueue keeps the limit, but its run has as many messages as a batch holds, and it is
the deadline that makes messages wait for another pass.

### Fairness

Weak fairness of a session's own steps: a session that is running goes on unless it crashes. Strong fairness
of starting a pass (Delivery, Commerce) stands for the cron, which starts the job again every five minutes
however often the node was busy; weak fairness of `Abandon`, `NoticeAbandoned`, `MailAbandoned` and
`EventAgesOut` is time passing. Crashes, failures and outside calls are never fair and are finite in number;
deliveries that fail are ended by MAX_ATTEMPTS, not by an assumption. In EmailQueue a pass that ran out of time
(`Deadline`) has worked at least one message, because the job has 110 s and one send is cut off after 30 s. In
a sum the fairness of each part is that of its module while it is the part that runs. No run that checks
liveness uses symmetry.

### What the environment is taken to do

`Files` takes a record of the panel to be written by one request at a time (`OneEditor`), and `Catalogue`'s run
has one request at a time; both traces above say what happens otherwise. In `Reconciliation` a buyer of a stated gateway
starts the next purchase only once the notices of the last one were read (`Heard`). In `Api` the payments of a
subscription are of the account that holds it (`PaymentsFollow`): `subscription_service.py:34` lists them by the
subscription alone, so after a receipt changed hands the new holder reads the payments of the old one. A claim of five minutes outlives a checkout of fifteen seconds (Idempotency), and
the windows of the queues outlive their jobs, but for `SlowNodes`. Signed cookies and tokens are not forged.

## Proofs

Thirty-six theorems hold for every value of the constants that the named assumption of each module allows:
any sets of nodes, sessions, rows and requests, any attempts and any bound on what the environment does. Each
states what a run also checks, a property of it or (EndedForGood, WrittenToOnce, InUseIsNotDropped) a part of one. The way
to each is the same: a property is seldom inductive as it
stands, so it is strengthened until it is; TLC checked the strengthening as an invariant of the run before it
was proved; then come the initial state, one lemma for each action (or for the actions that write the same rows),
and a last step that combines them with PTL. What a proof needed is what the code relies on, and is told below.
Some theorems have a hypothesis beyond the assumptions on constants; it is named in the statement, it holds in an
instance a run checks, and the traces above say what happens without it.

### Delivery

- **TypeCorrect** `Spec => []TypeOK`. A session at a step that dereferences its grant must really have one, of
  the benefit it works, with a row in `grants`: `TypeInv == TypeOK /\ \A n \in Node : SessionOK(n)`.
- **NothingPaidTwice** `Spec => []PaidOnce`. Follows from what a step may add to `delivered`
  (`DeliveredStep`): an entry for a key with no entry, or a product for an account without one. No timing
  assumption is used, so it covers sessions that outlive the retry window (`SlowNodes`), which no run does.
- **DeliveriesAreBacked** `Spec => []CompletedIsBacked`. Strengthened with what a session between its two commits
  knows: at `finish` its grant has its evidence (`BackedInv`). Evidence is never removed (`EvidenceStays`).
- **AccessIsEarned** `Spec => []AccessFollowsSubscription`. The work is in the actions that change the
  status of a subscription or of a benefit, which must take access with them, and in `deliver_access`,
  which must have read both again under the lock.
- **OneWorkerEach** `~SlowNodes => (Spec => []OneWorkerPerGrant)` and **NobodyStranded**
  `~SlowNodes => (Spec => []NoGrantStranded)`. One invariant for both, `WorkInv`: a grant a session works is
  neither FAILED nor stale, so the conditional updates of `claim` and `close_exhausted` match no row another
  session is in the middle of, and the first try of a grant has attempts left to fail with. The hypothesis is
  the code's own timing, not a convenience: a pass is cut off after five minutes and a grant counts as abandoned
  after thirty (`ABANDONED_AFTER`). Without it two sessions may work one grant; NothingPaidTwice says that even
  then nothing is paid twice.
- **OnceForAnAccount** `OneAtWork => (Spec /\ [][HandsOverWhole]_vars => []OncePerUserPaysOnce)`, over any number of
  subscriptions, holders, plans and cycles. `OnceIInv`: two grants never hold one reservation (`OneReservation`), the account an unfinished grant is reserved for was
  paid under no other grant, and while its cycle runs that account is who holds the subscription, but between the two
  commits of a hand-over (`Reserved`). Both hypotheses are needed:
  with two sessions the retry pass frees a reservation in flight (`delivery_stale_drop`), and a hand-over cut in two
  is the trace above. A crash anywhere else is allowed.

### Commerce

`CommerceIInv == SessionsCore /\ OpensAlone /\ MoneyCore /\ Agreement`. OpensAlone: a checkout
has its purchase for itself until the gateway knows of it. MoneyCore ties paid, owned and
credited to each other (`PaidFirst`, `PaidIsOwned`, `OwnedIsPaidFor`, `OneCredit`). Agreement is about order: a payment
goes one way at the gateway (`OneWay`), what a purchase says somebody said of it (`Backed`), what a session keeps in its
identity map is where the purchase is or was (`ReadBefore`), and what a completed notice says moves the purchase
no more (`AllAbsorbed`).

- **OneHandover** `CommerceSpec => []CommerceInv`, **OneCreditEach** `[]CreditedOnce`, **OrderDoesNotMatter**
  `[]AgreesWithGateway`, and **ForwardOnly** `SettledStays`, the action property that no late notice undoes a
  payment or a refund.

### Reconciliation

`ReconciliationIInv` says what rows and sessions may rely on of each other at every step; `CyclesOwed` counts, for a
receipt, the cycles opened and those that hand-overs still in the middle of their two commits will open.

- **OneCyclePerMove** `Spec => []ReconciliationInv`.
- **NewestWordKept** `Spec => KeepsNewestWord`: the detailed specification implements NewestWord. The initial
  rows map to initial rows, and each action maps to a step of the abstract specification (hear a word not older,
  one of the three things that carry no date) or to a stutter; the sessions that hold a row between a read and a
  write are where the invariant is needed.

### Queues: EmailQueue and AppEvents (`QueuesProofs`)

- **OneSend** `MailSpec => []MailInv`. A pass at the dial holds a row that is SENDING and not stale
  (`PassesHold`); what a reader received is counted against what was written down and what never was (`SentCounted`).
- **EndedForGood** `MailSpec => EndedStays`, from the same invariant.
- **OnceForEachRow** `EventsSpec => []EventsInv`. The argument is about ids: given at insert, seen by others only
  when the batch commits, never given again. What a pass holds or a page of the retention read can therefore
  not name a row that appears later (`IdsName`, `IdsGiven`), what a pass holds it holds alone and in the state its
  claim left (`HeldWorks`), and a row nobody read has made no entry (`UnreadUnlogged`).

### Records: Files, Catalogue and Site (`RecordsProofs`)

- **FilesStayNamed** `OneEditor => (Spec => []FilesInv)`. `FilesIInv` relates a request to the rows at each of its
  statements (`RequestFits`): what a writer read is still what the record says, and what a release is about to
  take is unnamed unless its stamp moved; no two uploads carry one file and no two requests write one row (`Apart`). A claimed file nothing
  names has somebody at work who releases it (`SomebodyReleases`), until a crash. The hypothesis is the one the run
  makes; two editors of one record are the trace above.
- **BrandsStayApart** `(\A p, q \in PanelRequest : p = q) => (CatalogueSpec => []CatalogueInv)`: the rows form a structure in which every
  reference is to a row of its model within reach (`RowsStand`), and what a request read and refused on is still so when it
  commits (`StillTrue`), which is where one request at a time is needed.
- **AnsweredInside** `SiteInit /\ [][SiteNext]_siteVars => []SiteInv`, for contents and questions of the shape the tables and
  routes give them. A kept page was true of the table at some moment for exactly the question its name gives (`CacheWasTrue`), and
  what a page answers depends on nothing the name leaves out (`BuildStays` and the lemmas on each ranking).

### Services (`ServicesProofs`)

- **OneWrite** `Spec => []IdempotencyInv`: the holder of a key holds the row that is there, unanswered and not
  stale; every payment opened beyond the first stands for a death (`OpenedCount`).
- **LedgerExplains** `LedgerSpec => LedgerKeeps`: every statement that needs the balance is made under its lock
  (`SettlesUnderLock`), and the chain of entries follows. The action part, that a repeated key is answered, is
  in the same theorem.
- **OneBuilder** `Dialect = "mysql" => (StartupSpec => []StartupInv)`. On PostgreSQL it is false, and
  `startup_postgresql` shows it.
- **NoSecretIsLost** `RotationSpec => []RotationInv`: every row behind the last id of the rewrite is in its page or out of
  danger, and nothing is left when it commits (`Sweeps`); what it wrote and did not commit is still the secret of the
  row (`WritesNewest`), and a column it read empty is empty or was saved under the new key (`EmptyOrSaved`).
- **CountedOnceADay** `VisitorsSpec => []VisitorsInv`: a form in flight carries an answer together with what
  that answer allows (`FormAllowed`), and a trim drops only days no view in flight is counted under (`CountedRows`).
- **WrittenToOnce**, **InUseIsNotDropped** and, of both beside each other, **WindowsAreKept** `RationedSpec => []WindowsHold`. Of the
  submits that read one row only the first to claim an hour may write the letter (`ClaimedInOrder`,
  `FirstOfItsHour`). A window still counted is among the last used of the mapping: behind it are only keys counted since,
  so it is dropped only when as many of them came as the mapping holds (`ServedIsCounted`, by an argument about positions).
- **CallsStayOwn** `[]ApiInv`: an address is written under the row of the account, which is looked at again under the lock
  (`HoldsAlone`, `StandsWhileHeld`). The hypothesis `PaymentsFollow` is told above.
- **PeopleArrive** `[]BrowserInv`: a page that sends the browser on has a bounded number of hops left, which each redirect
  uses up (`HopsLeft`), for each page, each form and each state of the person; and where the person was going is in
  the address, in the form's field or in the letter, whichever they hold (`GoalCarried`).
- **PagesHoldAll** `[]ListingInv`: the key of a row breaks every tie, so a listing has one order (`Orders` is a singleton) and the
  pages read so far are its first rows (`ReadSoFar`), also where the number of the page is past `LAST_PAGE`.
- **SlotsMoveOn** `CalendarInit /\ [][CalendarNext]_calendarVars => CalendarKeeps`: the ordinal of a day grows with the year, the month and the day
  over leap years and centuries, a number of days later exists and is unique (`PlusDaysCounts`), and the day of a monthly schedule is that
  of its anchor or of the shortest month it passed (`ShortestSoFar`).

### Accounts

`AccountsIInv` relates rows, the copies that requests read before a hash or a provider, and the letters in mailboxes
(`Rows`, `Requests`, `Letters`, `OwnTokens`), and says that every account not erased keeps a way in, blocked or not (`WaysIn`).
`SessionsIInv` adds that a count of wrong passwords is the history of them, that an account over the limit and not
blocked has a request about to judge it, that the epoch moves with the password (`Evenly`), and that what can
open a session is one thing at a time and nothing once it did (`SpentOnce`).

- **AlwaysAWayIn** `Spec => []AccountsInv`, **LettersFindTheirOwner** `[]ProofsReachOwner`, **ErasureIsFinal**
  `ErasedForGood` (an action property), in `AccountsProofs`. ErasureIsFinal says that an erased account keeps no
  address, password or identity, is never opened again, and has no session opened for it by any request that was under
  way, wherever between its commits the erasure fell; only the letter of a sign-up mints from the row it reads back
  without asking its status. A ticket may be inserted after the erasure, as told above, so nothing is said of
  tickets but that none of them opens a session.
- **GuessingIsBlocked** `Spec => []GuessingBlocks` and **EverySessionIsEarned** `[]SessionsAreEarned`, in
  `SessionsProofs`.

### Assumptions on constants

They are the `ASSUME`s of the modules, which the runs evaluate. Most give a constant its kind. Those that say
more: sets of rows that stand for a table are finite where something is counted (`IsFiniteSet(Report)`,
accounts, subscription rows, files, catalogue ids, the tables of a listing), ids are numbers above zero where the code orders by them,
and the value that stands for "nothing" is none of the values it stands beside. The mapping of the limiter holds
at least one window, and the key of the process is no client's. The listings of the site have no filters, as their routes pass none.
The days a schedule is anchored on are days there are.

### Only model-checked

- Liveness (EveryGrantSettles, ScheduleMoves, EveryNoticeCloses, EveryEventEnds and the like): fairness and ENABLED
  are outside the prover.
- RowsFollowGateway of Reconciliation. It is about moments at which everybody was heard, so an inductive invariant has to say, for
  every set of notices and answers still under way, what the rows will be once they land in any order; with the upgrades that move
  a purchase between rows that is a proof larger than all of Reconciliation's others together, and was not attempted.
- SchemaInv of SchemaDiff, an algorithm over data that folds sequences into sequences: what it proposes is defined by
  recursion over the columns of a schema, which the prover cannot do induction on. The run checks it on every pair
  of schemas of a table.
- Parts of OncePerUserPaysOnce, RowsFollowGateway, FilesInv and CatalogueInv without the hypotheses named above are not
  properties the code keeps.

No module uses RECURSIVE; the walk over a recurring grid is a closed form (`Walk`), justified by `add_interval`
being addition on Delivery's clock.

## Not modelled

- The web applications of the panel and of the site, templates, translation, settings, the middleware and the
  shape of requests and answers (`schemas`) keep no state the database does not; a request that is refused for
  its shape is a badly filled form in Browser.
- `services/seed_service.py` and the other commands write rows one after another into a database nobody serves.
- Signatures and payload parsing of gateways and social providers are read as their result; captcha and
  postal-code providers are one answer each.
- The scheduler's own claim of an occurrence is inside a library; the models let passes overlap freely instead.
- The contact form, the account an operator creates, the trims of retention that go by age alone, the panel's
  per-resource routes, and audit log rows written in the same commit as what they describe.
- The calendar is abstracted to whole intervals in Delivery; Calendar walks the real one on its own.

## Plan

1. **Done**: the modules above, and the proofs of all but two of the invariants the runs check.
2. Proofs still worth having: RowsFollowGateway, beginning with an account of one product.
3. Larger: two operators at once in Catalogue with the race above as a run of its own; the words of an upgrade that cross
   rows as a run of their own; and the composition of Reconciliation with Delivery, of which each module now has the other's calls only.
