---------------------------- MODULE Reconciliation ----------------------------
(***************************************************************************)
(* services/reconciliation_service.py: what a gateway says an account      *)
(* holds becomes rows of the subscription table.  A gateway of the kind    *)
(* "stated" (Stripe) puts the state in its notice, which is late or out of *)
(* order; one of the kind "queried" (RevenueCat) is asked, when a notice   *)
(* names an account, when the app refreshes, and by the sweep, and its     *)
(* answer is late or out of order too.                                     *)
(*                                                                         *)
(* A step is what a session does up to a commit.  `hold` locks the row, so *)
(* what follows it up to the commit is one step with it; `close` writes a  *)
(* log entry and release_cycle a cycle, and both commit.                   *)
(***************************************************************************)
EXTENDS Integers, FiniteSets, Sequences

CONSTANTS
  GatewayKinds,        \* the kinds of gateway of this instance
  Session,      \* requests and jobs at work
  User, Product,
  NewCycle,     \* products whose plan opens a cycle for who moves to it
  Row,          \* primary keys of the subscription table
  None,
  MaxChanges,   \* [Kinds -> bound on what the gateway does]
  MaxAsks,      \* bound on the times somebody begins to ask it, with what went wrong counted among them
  MaxFaults     \* bound on lost notices, unanswered questions and crashes

\* What each kind of gateway calls the states of a purchase.  "past_due" stands for "unpaid" as well, and "canceled" for "incomplete_expired".
Stated == {"incomplete", "trialing", "active", "past_due", "paused", "canceled"}
Queried == {"trial", "active", "grace", "paused", "expired", "refunded"}

SubscriptionStatus == {"PENDING", "TRIALING", "ACTIVE", "GRACE_PERIOD", "SUSPENDED", "EXPIRED", "REVOKED"}

\* `closed` is the stamp of the closing nobody was asked about since.  The last two are history: cycles opened, and moves to another product or account.
SubscriptionRow == [user : User, product : Product, ext : Nat \cup {None}, status : SubscriptionStatus, period : Nat, stated : Nat \cup {None},
                    closed : Nat \cup {None}, cycle : Nat, moves : Nat]

\* What a row says of a receipt, and to whom.
Saying == [user : User, receipt : Nat \cup {None}, product : Product, period : Nat, status : SubscriptionStatus, at : Nat \cup {None}]

ASSUME ReconciliationAssumption ==
  /\ GatewayKinds \subseteq {"stated", "queried"}
  /\ NewCycle \subseteq Product
  /\ Row \subseteq Nat /\ IsFiniteSet(Row) /\ None \notin Row \cup User \cup Product \cup Nat \cup SubscriptionRow \cup Saying
  /\ MaxChanges \in [GatewayKinds -> Nat] /\ MaxAsks \in Nat /\ MaxFaults \in Nat

VARIABLES
  kind,      \* how this integration's gateway answers
  clock,     \* the stamps handed out
  gatewayHolds,   \* external: [User -> [Product -> what the gateway holds]]
  notices,   \* external: notices raised and not answered for
  rows,      \* [Row -> a subscription row, None before it is inserted]
  window,    \* accounts inside the cooldown of their last refresh
  work,   \* [Session -> what it keeps between two steps]
  unheard,   \* history: purchases whose end met no row
  crossed,   \* history: accounts of a stated gateway that upgraded to a product they had bought before
  lost,      \* history: accounts a notice of which never arrived
  changes, asks, faults

vars == <<kind, clock, gatewayHolds, notices, rows, window, work, unheard, crossed, lost, changes, asks, faults>>
bounds == <<unheard, crossed, lost, changes, asks, faults>>

-----------------------------------------------------------------------------
(* What a gateway says.                                                    *)

Ended == {"canceled", "expired", "refunded"}

\* Nothing is held there any more.
Gone(line) == IF line = None THEN TRUE ELSE line.raw \in Ended

Line == [ext : Nat, raw : Stated \cup Queried, period : Nat]

ELIGIBLE_SUBSCRIPTION_STATUSES == {"TRIALING", "ACTIVE", "GRACE_PERIOD"}
CLOSED_SUBSCRIPTION_STATUSES == {"EXPIRED", "REVOKED"}

\* StripeProvider names the state itself.
STATUSES == [raw \in Stated |->
  CASE raw = "incomplete" -> "PENDING" [] raw = "trialing" -> "TRIALING" [] raw = "active" -> "ACTIVE" [] raw = "past_due" -> "GRACE_PERIOD"
    [] raw = "paused" -> "SUSPENDED" [] raw = "canceled" -> "EXPIRED"]

\* The fields of a ProviderPurchase the service decides on.
ProviderPurchase == [ext : Nat, product : Product, period : Nat, status : SubscriptionStatus \cup {None},
             trial : BOOLEAN, resumes : BOOLEAN, refunded : BOOLEAN, grace : BOOLEAN, ended : BOOLEAN]

\* The state it names leaves the date a pause ends on unread.
purchase_of(product, line) ==
  [ext |-> line.ext, product |-> product, period |-> line.period, status |-> STATUSES[line.raw],
   trial |-> line.raw = "trialing", resumes |-> FALSE, refunded |-> FALSE, grace |-> FALSE, ended |-> FALSE]

\* RevenueCat leaves the state to the dates, and its answer lists what ended as well: a pause whose period ran out among it.
recurring(product, line) ==
  [ext |-> line.ext, product |-> product, period |-> line.period, status |-> None,
   trial |-> line.raw = "trial", resumes |-> line.raw = "paused", refunded |-> line.raw = "refunded", grace |-> line.raw = "grace", ended |-> line.raw = "expired"]

over(p) == IF p.status # None THEN p.status \in CLOSED_SUBSCRIPTION_STATUSES ELSE p.ended

status_of(p) ==
  IF p.status # None THEN p.status
  ELSE IF p.resumes THEN "SUSPENDED"
  ELSE IF p.grace THEN "GRACE_PERIOD"
  ELSE IF p.trial THEN "TRIALING" ELSE "ACTIVE"

-----------------------------------------------------------------------------
(* The rows and the sessions.                                              *)


\* `notice` holds the accounts the notice moved something for; `held`, `ours` are the answer and the rows still to be matched.
Places == {"idle", "ask", "asked", "read", "settle", "again", "carry", "receipt", "release"}
SubscriptionNotice == [users : Seq(User), at : Nat, product : Product \cup {None}, line : Line \cup {None}, ends : BOOLEAN]
Idle == [at |-> "idle", notice |-> None, users |-> <<>>, user |-> None, stamp |-> None, held |-> {}, ours |-> {}, p |-> None, row |-> None, previous |-> None]

Init ==
  /\ kind \in GatewayKinds
  /\ clock = 0
  /\ gatewayHolds = [u \in User |-> [p \in Product |-> None]]
  /\ notices = {} /\ window = {} /\ unheard = {} /\ crossed = {} /\ lost = {}
  /\ rows = [r \in Row |-> None]
  /\ work = [s \in Session |-> Idle]
  /\ changes = 0 /\ asks = 0 /\ faults = 0

Written == {r \in Row : rows[r] # None}
RowsOf(u) == {r \in Written : rows[r].user = u}

-----------------------------------------------------------------------------
(* External: the gateway.  A purchase moves, and a notice of it is raised. *)

\* Only a stated notice says what became of the purchase.  `ends`: a period is over.
RaiseNotice(users, product, line, at, ends) ==
  /\ changes < MaxChanges[kind] /\ changes' = changes + 1
  /\ clock' = at
  /\ notices' = notices \cup {[users |-> users, at |-> at, ends |-> ends,
                               product |-> IF kind = "stated" THEN product ELSE None, line |-> IF kind = "stated" THEN line ELSE None]}
  /\ UNCHANGED <<kind, rows, window, work, unheard, lost, asks, faults>>

\* A transaction, and a period, nobody saw before.
Fresh == changes + 1

\* How a purchase begins, and how one of a product nobody tried before may.
Opening == IF kind = "stated" THEN {"incomplete"} ELSE {"active"}
Tried == IF kind = "stated" THEN {"trialing"} ELSE {"trial"}

\* What becomes of it while its period runs, or as the period runs out.
Turns == IF kind = "stated"
         THEN [raw \in Stated |-> CASE raw = "active" -> {"past_due", "paused", "canceled"} [] raw = "canceled" -> {} [] OTHER -> {"active"}]
         ELSE [raw \in Queried |-> CASE raw = "trial" -> {"expired"} [] raw = "active" -> {"grace", "paused", "expired", "refunded"}
                                     [] raw = "grace" -> {"expired", "refunded"} [] raw = "paused" -> {"active", "expired", "refunded"} [] OTHER -> {}]

\* What a purchase may become.  The gateway sells an account a product once at a time.
NextLines(line) ==
  IF Gone(line)
  THEN {[ext |-> Fresh, raw |-> raw, period |-> Fresh] : raw \in Opening \cup (IF line = None THEN Tried ELSE {})}
  ELSE {[line EXCEPT !.raw = raw] : raw \in Turns[line.raw]}
       \cup (IF kind = "queried" THEN {[ext |-> Fresh, raw |-> "active", period |-> Fresh]}
             ELSE IF line.raw = "active" THEN {[line EXCEPT !.period = Fresh]} ELSE {})

\* The checkout refuses a plan the account has a row for that is not closed.
for_plan(u, p) == kind = "stated" => ~\E r \in RowsOf(u) : rows[r].product = p /\ rows[r].status \notin CLOSED_SUBSCRIPTION_STATUSES

\* Of this environment: a buyer of a stated gateway starts the next purchase once the last one was heard.
Heard(u) == kind = "stated" => \A n \in notices : n.users # <<u>>

\* Stripe stamps to the second, and a creation and its payment fall into one.
GatewayMoves(u, p) ==
  \E line \in NextLines(gatewayHolds[u][p]) :
    /\ Gone(gatewayHolds[u][p]) => for_plan(u, p) /\ Heard(u)
    /\ gatewayHolds' = [gatewayHolds EXCEPT ![u][p] = line]
    /\ \E at \in {clock + 1} \cup (IF gatewayHolds[u][p] # None /\ gatewayHolds[u][p].raw = "incomplete" THEN {clock} ELSE {}) :
         RaiseNotice(<<u>>, p, line, at, ~Gone(gatewayHolds[u][p]) /\ (line.period = Fresh \/ line.raw = "expired"))
  /\ UNCHANGED crossed

\* The buyer changes product inside one purchase, which may leave the period as it was.
GatewayUpgrades(u, p, q) ==
  /\ gatewayHolds[u][p] # None /\ gatewayHolds[u][p].raw = "active"
  /\ Gone(gatewayHolds[u][q])
  /\ gatewayHolds' = [gatewayHolds EXCEPT ![u][q] = gatewayHolds[u][p], ![u][p] = None]
  /\ RaiseNotice(<<u>>, q, gatewayHolds[u][p], clock + 1, FALSE)
  /\ crossed' = IF kind = "stated" /\ gatewayHolds[u][q] # None THEN crossed \cup {u} ELSE crossed

\* A transfer is told once, and who the receipt left is asked about first.
transfer(u, v) == <<u, v>>

\* The store passes a receipt to another account.
GatewayTransfers(u, v, p) ==
  /\ kind = "queried" /\ u # v
  /\ gatewayHolds[u][p] # None /\ gatewayHolds[u][p].raw = "active" /\ gatewayHolds[v][p] = None
  /\ gatewayHolds' = [gatewayHolds EXCEPT ![v][p] = gatewayHolds[u][p], ![u][p] = None]
  /\ RaiseNotice(transfer(u, v), p, gatewayHolds[u][p], clock + 1, FALSE)
  /\ UNCHANGED crossed

-----------------------------------------------------------------------------
(* How a session begins: a notice, a refresh or the sweep.                 *)

Free(s) == work[s].at = "idle"
Unread(n) == \A s \in Session : work[s].notice # n
Keep(s, new) == work' = [work EXCEPT ![s] = new]

\* Rows by the product they answer for, as they are when the session reads them.
ours(u) == {<<rows[r].product, r>> : r \in RowsOf(u)}

\* A stated notice carries its purchase and its stamp, and is never complete.
ReceiveStated(s, n) ==
  /\ kind = "stated" /\ Free(s) /\ Unread(n)
  /\ Keep(s, [Idle EXCEPT !.at = "settle", !.notice = n, !.user = Head(n.users), !.stamp = n.at,
                          !.held = {purchase_of(n.product, n.line)}, !.ours = ours(Head(n.users))])
  /\ UNCHANGED <<kind, clock, gatewayHolds, notices, rows, window, bounds>>

\* The stamp is taken before the gateway is asked about the first of these accounts.
Ask(s, n, users) ==
  /\ kind = "queried"
  /\ IF Free(s) THEN asks + faults < MaxAsks /\ asks' = asks + 1 ELSE UNCHANGED asks
  /\ clock' = clock + 1
  /\ Keep(s, [Idle EXCEPT !.at = "asked", !.notice = n, !.user = Head(users), !.users = Tail(users), !.stamp = clock + 1])
  /\ UNCHANGED <<kind, gatewayHolds, notices, rows, unheard, crossed, lost, changes, faults>>

\* A queried notice only says whom to ask about.
ReceiveQueried(s, n) == Free(s) /\ Unread(n) /\ Ask(s, n, n.users) /\ UNCHANGED window

\* The other account of a transfer.
against(s) == work[s].at = "ask" /\ Ask(s, work[s].notice, work[s].users) /\ UNCHANGED window

\* The app asks for a refresh, and claim_window lets one through per cooldown.
refresh(s, u) == Free(s) /\ u \notin window /\ Ask(s, None, <<u>>) /\ window' = window \cup {u}

CooldownEnds(u) ==
  /\ u \in window /\ asks + faults < MaxAsks
  /\ window' = window \ {u}
  /\ UNCHANGED <<kind, clock, gatewayHolds, notices, rows, work, bounds>>

\* The period a row carries ran out: no live purchase is in it any more.
Overdue(r) ==
  /\ rows[r].status \in ELIGIBLE_SUBSCRIPTION_STATUSES
  /\ \A u \in User, p \in Product : ~Gone(gatewayHolds[u][p]) => gatewayHolds[u][p].period # rows[r].period

\* What reconcile_stale reads: what ran out, and what just closed until it was asked about.
Stale(r) == Overdue(r) \/ (rows[r].status = "EXPIRED" /\ rows[r].closed # None)

reconcile_stale(s) == Free(s) /\ (\E r \in Written : Stale(r) /\ Ask(s, None, <<rows[r].user>>)) /\ UNCHANGED window

\* The gateway answers with all it holds for the account at this instant.
state_from_query(s) ==
  /\ work[s].at = "asked"
  /\ LET u == work[s].user
     IN Keep(s, [work[s] EXCEPT !.at = "read", !.held = {recurring(p, gatewayHolds[u][p]) : p \in {q \in Product : gatewayHolds[u][q] # None}}])
  /\ UNCHANGED <<kind, clock, gatewayHolds, notices, rows, window, bounds>>

\* The answer arrived, and apply reads the rows it is about.
apply(s) ==
  /\ work[s].at = "read"
  /\ Keep(s, [work[s] EXCEPT !.at = "settle", !.ours = ours(work[s].user)])
  /\ UNCHANGED <<kind, clock, gatewayHolds, notices, rows, window, bounds>>

-----------------------------------------------------------------------------
(* The words a session has for a row.                                      *)

\* Variant: any word takes the row.
hold_Always(r, stamp) == TRUE

\* Variant: a word of the same instant is taken for an older one.
hold_Strict(r, stamp) == stamp = None \/ rows[r].stated = None \/ rows[r].stated < stamp

\* The stamp is taken by a conditioned write.
hold(r, stamp) == stamp = None \/ rows[r].stated = None \/ rows[r].stated <= stamp

Stamped(row, stamp) == [row EXCEPT !.stated = IF stamp = None THEN @ ELSE stamp]

close(row, status) == IF row.status = status THEN row ELSE [row EXCEPT !.status = status, !.closed = clock]

\* What a word writes on the row.  The activation that follows where the row changed is a step of Delivery.
carry(row, p) == [row EXCEPT !.status = status_of(p), !.period = p.period]

\* The session is through with a purchase, and with the row that answered for it.
Through(s, p, r) == [work[s] EXCEPT !.at = "settle", !.held = @ \ {p}, !.ours = {x \in @ : x[2] # r}, !.p = None, !.row = None, !.previous = None]

Put(r, row) == rows' = [rows EXCEPT ![r] = row]

Holder(p) == {r \in Written : rows[r].ext = p.ext}

\* ours.pop, then same_purchase.
Matches(s, p) ==
  LET listed == {r \in Written : <<p.product, r>> \in work[s].ours}
  IN IF listed # {} THEN listed ELSE {r \in Holder(p) : rows[r].user = work[s].user}

\* align, once no refund and no end is reported: a new transaction is adopted, and taking it from another row of the account closes that row and commits.
Adopts(s, p, r, row) ==
  LET holder == {h \in Holder(p) : h # r /\ rows[h].user = row.user}
      foreign == \E h \in Holder(p) : h # r /\ rows[h].user # row.user
  IN IF holder = {} \/ p.ext = row.ext
     THEN /\ Put(r, carry(IF foreign THEN row ELSE [row EXCEPT !.ext = p.ext], p))
          /\ Keep(s, Through(s, p, r))
     ELSE /\ rows' = [h \in Row |-> IF h = r THEN [row EXCEPT !.ext = p.ext]
                                    ELSE IF h \in holder THEN [close(rows[h], "EXPIRED") EXCEPT !.ext = None] ELSE rows[h]]
          /\ Keep(s, [work[s] EXCEPT !.at = "carry", !.p = p, !.row = r])

align(s, p, r, row) ==
  IF p.refunded THEN Put(r, close(row, "REVOKED")) /\ Keep(s, Through(s, p, r))
  ELSE IF over(p) THEN Put(r, close(row, "EXPIRED")) /\ Keep(s, Through(s, p, r))
  ELSE Adopts(s, p, r, row)

\* Another row of the account answers for the product, and the database refuses a second.
Taken(r, user, product) == \E o \in Written \ {r} : rows[o].user = user /\ rows[o].product = product

\* The session ends with an exception: it is rolled back, and its notice stays for the next try.
Raises(s) == Keep(s, Idle) /\ UNCHANGED rows

-----------------------------------------------------------------------------
(* settle, one purchase of the answer at a time.                           *)

InSettle(s, p) == work[s].at = "settle" /\ p \in work[s].held

settle(s, p) ==
  /\ InSettle(s, p)
  /\ \E r \in Matches(s, p) :
       LET row == Stamped(rows[r], work[s].stamp)
           to == [row EXCEPT !.product = p.product, !.moves = @ + 1]
       IN IF ~hold(r, work[s].stamp) THEN UNCHANGED rows /\ Keep(s, Through(s, p, r))
          ELSE IF status_of(p) = "PENDING" /\ row.status # "PENDING" THEN Put(r, row) /\ Keep(s, Through(s, p, r))
          ELSE IF p.product = row.product THEN align(s, p, r, row)
          ELSE IF Taken(r, row.user, p.product) THEN Raises(s)
          ELSE IF p.product \notin NewCycle THEN align(s, p, r, to)
          ELSE Put(r, [to EXCEPT !.cycle = @ + 1]) /\ Keep(s, [work[s] EXCEPT !.at = "again", !.p = p, !.row = r])
  /\ UNCHANGED <<kind, clock, gatewayHolds, notices, window, bounds>>

\* release_cycle committed and let go of the row, so the word is taken again.
HoldAgain(s) ==
  /\ work[s].at = "again"
  /\ LET r == work[s].row
         p == work[s].p
     IN IF hold(r, work[s].stamp) THEN align(s, p, r, Stamped(rows[r], work[s].stamp))
        ELSE UNCHANGED rows /\ Keep(s, Through(s, p, r))
  /\ UNCHANGED <<kind, clock, gatewayHolds, notices, window, bounds>>

\* Closing the row that carried the purchase committed, so the word is taken again.
HoldAndCarry(s) ==
  /\ work[s].at = "carry"
  /\ LET r == work[s].row
         p == work[s].p
     IN /\ Keep(s, Through(s, p, r))
        /\ IF hold(r, work[s].stamp) THEN Put(r, carry(Stamped(rows[r], work[s].stamp), p)) ELSE UNCHANGED rows
  /\ UNCHANGED <<kind, clock, gatewayHolds, notices, window, bounds>>

\* open: a purchase nobody here has, unless it is over.  Two rows for one product of the account are refused.
open(s, p) ==
  /\ InSettle(s, p) /\ Matches(s, p) = {} /\ (over(p) \/ Holder(p) = {})
  /\ IF over(p) THEN UNCHANGED rows /\ Keep(s, Through(s, p, None))
     ELSE IF Taken(None, work[s].user, p.product) THEN Raises(s)
     ELSE \E r \in Row \ Written :
            /\ \A o \in Row \ Written : r <= o
            /\ LET new == [user |-> work[s].user, product |-> p.product, ext |-> p.ext, status |-> "PENDING", period |-> 0, stated |-> work[s].stamp,
                           closed |-> None, cycle |-> 0, moves |-> 0]
               IN Put(r, carry(new, p))
            /\ Keep(s, Through(s, p, r))
  /\ unheard' = IF over(p) THEN unheard \cup {p.ext} ELSE unheard
  /\ UNCHANGED <<kind, clock, gatewayHolds, notices, window, crossed, lost, changes, asks, faults>>

\* insert_or_read met the row of another account.
MeetHolder(s, p) ==
  /\ InSettle(s, p) /\ Matches(s, p) = {} /\ ~over(p)
  /\ \E r \in Holder(p) : Keep(s, [work[s] EXCEPT !.at = "receipt", !.p = p, !.row = r, !.previous = rows[r].user])
  /\ UNCHANGED <<kind, clock, gatewayHolds, notices, rows, window, bounds>>

Moved(s, r) == Put(r, [carry(rows[r], work[s].p) EXCEPT !.user = work[s].user, !.moves = IF rows[r].user = work[s].user THEN @ ELSE @ + 1])

\* Variant: whoever read the old holder moves the receipt.
hand_over_Unconditional(s) ==
  /\ work[s].at = "receipt"
  /\ LET r == work[s].row
     IN IF Taken(r, work[s].user, rows[r].product) THEN Raises(s)
        ELSE Moved(s, r) /\ Keep(s, [work[s] EXCEPT !.at = "release"])
  /\ UNCHANGED <<kind, clock, gatewayHolds, notices, window, bounds>>

\* Only the one whose move lands opens a cycle.  The row carries what was bought, without the stamp of who said so.
hand_over(s) ==
  /\ work[s].at = "receipt"
  /\ LET r == work[s].row
     IN IF rows[r].user # work[s].previous THEN UNCHANGED rows /\ Keep(s, Through(s, work[s].p, r))
        ELSE IF Taken(r, work[s].user, rows[r].product) THEN Raises(s)
        ELSE Moved(s, r) /\ Keep(s, [work[s] EXCEPT !.at = "release"])
  /\ UNCHANGED <<kind, clock, gatewayHolds, notices, window, bounds>>

\* The cycle of the new holder opens at a commit of its own, and the delivery engine is told.
HandOverRelease(s) ==
  /\ work[s].at = "release"
  /\ Put(work[s].row, [rows[work[s].row] EXCEPT !.cycle = @ + 1])
  /\ Keep(s, Through(s, work[s].p, work[s].row))
  /\ UNCHANGED <<kind, clock, gatewayHolds, notices, window, bounds>>

\* A complete answer closes the rows it did not mention.
Leftover(s) ==
  /\ work[s].at = "settle" /\ work[s].held = {} /\ kind = "queried"
  /\ \E x \in work[s].ours :
       /\ LET row == Stamped(rows[x[2]], work[s].stamp)
          IN IF ~hold(x[2], work[s].stamp) THEN UNCHANGED rows
             ELSE Put(x[2], IF row.status \in ELIGIBLE_SUBSCRIPTION_STATUSES THEN close(row, "EXPIRED") ELSE row)
       /\ Keep(s, Through(s, None, x[2]))
  /\ UNCHANGED <<kind, clock, gatewayHolds, notices, window, bounds>>

Asked(row, stamp) == [row EXCEPT !.closed = IF @ # None /\ stamp > @ THEN None ELSE @]

\* The answer is applied and committed: the account was asked about, and the notice is answered for once nobody else it names is left.
Applied(s) ==
  /\ work[s].at = "settle" /\ work[s].held = {} /\ (kind = "queried" => work[s].ours = {})
  /\ rows' = [r \in Row |-> IF kind = "queried" /\ r \in RowsOf(work[s].user) THEN Asked(rows[r], work[s].stamp) ELSE rows[r]]
  /\ IF work[s].users # <<>>
     THEN Keep(s, [Idle EXCEPT !.at = "ask", !.notice = work[s].notice, !.users = work[s].users]) /\ UNCHANGED notices
     ELSE Keep(s, Idle) /\ notices' = notices \ {work[s].notice}
  /\ UNCHANGED <<kind, clock, gatewayHolds, window, bounds>>

-----------------------------------------------------------------------------
(* What goes wrong, and the clock.                                         *)

Fault == faults < MaxFaults /\ asks + faults < MaxAsks /\ faults' = faults + 1

\* The gateway did not answer, or answered what cannot be read; the notice stays for the next try.
Silent(s) ==
  /\ work[s].at = "asked" /\ Fault
  /\ Keep(s, Idle)
  /\ UNCHANGED <<kind, clock, gatewayHolds, notices, rows, window, unheard, crossed, lost, changes, asks>>

\* The notice of a renewal, or of an end, never arrives.
LoseNotice(n) ==
  /\ kind = "queried" /\ Fault /\ Unread(n) /\ n.ends
  /\ notices' = notices \ {n} /\ lost' = lost \cup {Head(n.users)}
  /\ UNCHANGED <<kind, clock, gatewayHolds, rows, window, work, unheard, crossed, changes, asks>>

\* expire_subscriptions: the clock closes what ran out.
Expire(r) ==
  /\ Overdue(r)
  /\ Put(r, close(rows[r], "EXPIRED"))
  /\ UNCHANGED <<kind, clock, gatewayHolds, notices, window, work, bounds>>

SessionStep(s) ==
  \/ reconcile_stale(s) \/ against(s) \/ state_from_query(s) \/ apply(s)
  \/ \E n \in notices : ReceiveStated(s, n) \/ ReceiveQueried(s, n)
  \/ \E p \in work[s].held : settle(s, p) \/ open(s, p) \/ MeetHolder(s, p)
  \/ HoldAgain(s) \/ HoldAndCarry(s) \/ hand_over(s) \/ HandOverRelease(s)
  \/ Leftover(s) \/ Applied(s)

Next ==
  \/ \E u \in User, p \in Product : GatewayMoves(u, p) \/ \E q \in Product \ {p} : GatewayUpgrades(u, p, q)
  \/ \E u, v \in User, p \in Product : GatewayTransfers(u, v, p)
  \/ \E u \in User : CooldownEnds(u) \/ \E s \in Session : refresh(s, u)
  \/ \E s \in Session : SessionStep(s) \/ Silent(s)
  \/ \E n \in notices : LoseNotice(n)
  \/ \E r \in Written : Expire(r)

Spec == Init /\ [][Next]_vars

-----------------------------------------------------------------------------
(* What must hold.                                                         *)

\* The rows, the notices and the sessions have the shape the code gives them.
TypeOK ==
  /\ kind \in GatewayKinds /\ clock \in Nat
  /\ gatewayHolds \in [User -> [Product -> Line \cup {None}]]
  /\ notices \subseteq SubscriptionNotice
  /\ rows \in [Row -> SubscriptionRow \cup {None}]
  /\ window \subseteq User
  /\ \A s \in Session : work[s].at \in Places /\ work[s].held \subseteq ProviderPurchase

\* Nothing is under way and nobody is left to ask about.
Quiet == notices = {} /\ (\A s \in Session : Free(s)) /\ ~(\E r \in Written : kind = "queried" /\ Stale(r))

\* Accounts a receipt left or reached.
Transferred == {u \in User : \E r \in Written : rows[r].moves > 0 /\ kind = "queried"}

\* A product nobody asks about, as reconcile_stale reads only rows that give access: a notice of the account was lost while its row was suspended.
Asleep(u, p) == u \in lost /\ \E r \in RowsOf(u) : rows[r].product = p /\ rows[r].status = "SUSPENDED"

\* Once every notice is answered for and the sweep has nobody to ask, an account whose receipts stayed its own, each on one row, has an open row exactly for what the gateway holds live, in the state and the period it says, but for a product asleep.
RowsFollowGateway ==
  Quiet => \A u \in User \ (Transferred \cup crossed) :
    /\ \A p \in Product : LET line == gatewayHolds[u][p] IN
         (~Gone(line) /\ line.raw # "incomplete" /\ ~Asleep(u, p)) =>
           \E r \in RowsOf(u) : rows[r].product = p /\ rows[r].period = line.period
                                /\ rows[r].status = status_of(IF kind = "stated" THEN purchase_of(p, line) ELSE recurring(p, line))
    /\ \A r \in RowsOf(u) : rows[r].status \in ELIGIBLE_SUBSCRIPTION_STATUSES => (~Gone(gatewayHolds[u][rows[r].product]) \/ rows[r].ext \in unheard)

\* A receipt opens a cycle for each move and never two, however many sessions read the old holder together.
CyclePerMove == \A r \in Written : rows[r].cycle <= rows[r].moves

Said(row) == [user |-> row.user, receipt |-> row.ext, product |-> row.product, period |-> row.period, status |-> row.status, at |-> row.stated]

Promise == INSTANCE NewestWord WITH Eligible <- ELIGIBLE_SUBSCRIPTION_STATUSES,
                                    said <- [r \in Row |-> IF rows[r] = None THEN None ELSE Said(rows[r])]

\* The service keeps what subscription.stated_at promises: in whatever order words arrive, an older one never moves what a newer one said.
KeepsNewestWord == Promise!Spec

\* The rows keep their shape in the vocabulary of the kit, and no receipt opens two cycles for one move.
ReconciliationInv == TypeOK /\ CyclePerMove
=============================================================================
