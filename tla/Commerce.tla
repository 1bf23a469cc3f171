------------------------------- MODULE Commerce -------------------------------
(***************************************************************************)
(* A product bought through a gateway: the purchase written before the     *)
(* buyer leaves (checkout_service), the notices that say what became of    *)
(* the payment (webhook_service), and the move of the purchase, the        *)
(* ownership and the credits they end in (commerce_service).               *)
(*                                                                         *)
(* A gateway sends each notice until it is answered, in any order and more *)
(* than once; a live delivery and the retry pass work the same inbox, and  *)
(* a node dies between any two commits.  Every purchase is of one product. *)
(***************************************************************************)
EXTENDS Integers, FiniteSets

CONSTANTS
  PaymentNode,    \* sessions that answer deliveries, checkouts and the retry pass
  Purchase,       \* rows of commerce_purchase
  PaymentUser,    \* accounts that buy
  Buyer,          \* [Purchase -> PaymentUser]
  Null,           \* NULL
  Kinds,          \* the notices a gateway may send, of an instance
  NOTICE_ATTEMPTS,\* tries the retry pass gives a notice
  MaxDeliveries,  \* bound on the deliveries a gateway makes
  MaxFailures     \* bound on the exceptions and crashes

\* What a checkout session says names our reference; what a charge or a dispute says names the payment stored when the session settled.
SessionKinds == {"unpaid", "paid", "failed", "expired"}
PaymentKinds == {"refunded", "lost", "won"}

PurchaseStatus == {"PENDING", "PAID", "CANCELED", "FAILED", "REFUNDED", "CHARGED_BACK"}

ASSUME CommerceAssumption ==
  /\ Buyer \in [Purchase -> PaymentUser]
  /\ Kinds \subseteq SessionKinds \cup PaymentKinds
  /\ Null \notin PurchaseStatus
  /\ NOTICE_ATTEMPTS \in Nat \ {0}
  /\ MaxDeliveries \in Nat /\ MaxFailures \in Nat

VARIABLES
  purchase,       \* [Purchase -> status, and whether the payment id is stored]
  owned,          \* user_product: the accounts that own the product
  credits,        \* the ledger entries that owning it wrote, keyed by the reference of the purchase
  gateway,        \* external: how each payment stands at the gateway
  sent,           \* external: the notices the gateway has raised
  inbox,          \* integration_webhook_event, one row per notice
  session,        \* what each session keeps between two commits
  deliveries, failures

commerceVars == <<purchase, owned, credits, gateway, sent, inbox, session, deliveries, failures>>

-----------------------------------------------------------------------------
(* The rows.                                                               *)

SETTLED_PURCHASE_STATUSES == {"PAID", "REFUNDED", "CHARGED_BACK"}

Notice == Purchase \X Kinds

\* A row absent from the table has the status NONE; `stale` is updated_at older than ABANDONED_AFTER.
InboxRow == [status : {"NONE", "RECEIVED", "PROCESSING", "COMPLETED", "IGNORED", "FAILED"}, attempts : Nat, stale : BOOLEAN]
PurchaseRow == [status : {"NONE"} \cup PurchaseStatus, payment : BOOLEAN]

\* A session keeps the notice it is on, the batch it read, and the state of each purchase it loaded: the identity map answers it again until the session ends.
PaymentSession == [at : {"idle", "claim", "apply", "write", "record", "next", "session"}, e : Notice \cup {Null}, p : Purchase \cup {Null},
            todo : SUBSET Notice, cache : [Purchase -> PurchaseStatus \cup {Null}]]

IdleSession == [at |-> "idle", e |-> Null, p |-> Null, todo |-> {}, cache |-> [p \in Purchase |-> Null]]

CommerceInit ==
  /\ purchase = [p \in Purchase |-> [status |-> "NONE", payment |-> FALSE]]
  /\ owned = {} /\ credits = {}
  /\ gateway = [p \in Purchase |-> "none"] /\ sent = {}
  /\ inbox = [e \in Notice |-> [status |-> "NONE", attempts |-> 0, stale |-> FALSE]]
  /\ session = [n \in PaymentNode |-> IdleSession]
  /\ deliveries = 0 /\ failures = 0

SessionAt(n, at) == session[n].at = at

-----------------------------------------------------------------------------
(* The gateway.                                                            *)

\* Variant: a session that completed unpaid is read as one that was paid.
payment_of_Completed(kind) ==
  CASE kind \in {"unpaid", "paid", "won"} -> "PAID"
    [] kind = "failed" -> "FAILED"
    [] kind = "expired" -> "CANCELED"
    [] kind = "refunded" -> "REFUNDED"
    [] kind = "lost" -> "CHARGED_BACK"

\* payment_of: what a notice says of the purchase it names.
payment_of(kind) ==
  CASE kind = "unpaid" -> "PENDING"
    [] kind \in {"paid", "won"} -> "PAID"
    [] kind = "failed" -> "FAILED"
    [] kind = "expired" -> "CANCELED"
    [] kind = "refunded" -> "REFUNDED"
    [] kind = "lost" -> "CHARGED_BACK"

\* How a payment may go on, once the session is open.
Follows(stage) ==
  CASE stage = "open" -> {"unpaid", "paid", "expired"}
    [] stage = "unreached" -> {"expired"}
    [] stage = "unpaid" -> {"paid", "failed"}
    [] stage = "paid" -> {"refunded", "lost", "won"}
    [] stage = "lost" -> {"won"}
    [] stage = "won" -> {"refunded"}
    [] OTHER -> {}

Raise(p, kind) ==
  /\ kind \in Follows(gateway[p]) \cap Kinds
  /\ gateway' = [gateway EXCEPT ![p] = kind]
  /\ sent' = sent \cup {<<p, kind>>}
  /\ UNCHANGED <<purchase, owned, credits, inbox, session, deliveries, failures>>

-----------------------------------------------------------------------------
(* settle_purchase.                                                        *)

\* Variant: money that went back is not final.
Moves_RefundNotFinal(status, said) ==
  /\ status # said /\ said # "PENDING"
  /\ ~(status \in SETTLED_PURCHASE_STATUSES /\ said \notin SETTLED_PURCHASE_STATUSES)

Moves(status, said) ==
  /\ status # said /\ said # "PENDING" /\ status # "REFUNDED"
  /\ ~(status \in SETTLED_PURCHASE_STATUSES /\ said \notin SETTLED_PURCHASE_STATUSES)

\* Variant: whoever pays is credited, owner or not.
grant_Always(p) == owned' = owned \cup {Buyer[p]} /\ credits' = credits \cup {[user |-> Buyer[p], purchase |-> p]}

\* Owning is one row, and only the call that wrote it moves the credits.
grant(p) ==
  IF Buyer[p] \in owned THEN UNCHANGED <<owned, credits>>
  ELSE owned' = owned \cup {Buyer[p]} /\ credits' = credits \cup {[user |-> Buyer[p], purchase |-> p]}

\* The move, the ownership and the credits are one transaction.
MovePurchase(p, said, named) ==
  /\ purchase' = [purchase EXCEPT ![p] = [status |-> said, payment |-> @.payment \/ named]]
  /\ IF said = "PAID" THEN grant(p) ELSE UNCHANGED <<owned, credits>>

-----------------------------------------------------------------------------
(* Checkout.                                                               *)

\* open_purchase: refused for a product the account owns, and committed before the gateway is called.
open_purchase(n, p) ==
  /\ SessionAt(n, "idle") /\ purchase[p].status = "NONE" /\ Buyer[p] \notin owned
  /\ purchase' = [purchase EXCEPT ![p].status = "PENDING"]
  /\ session' = [session EXCEPT ![n] = [IdleSession EXCEPT !.at = "session", !.p = p]]
  /\ UNCHANGED <<owned, credits, gateway, sent, inbox, deliveries, failures>>

open_session(n) ==
  /\ SessionAt(n, "session")
  /\ gateway' = [gateway EXCEPT ![session[n].p] = "open"]
  /\ session' = [session EXCEPT ![n] = IdleSession]
  /\ UNCHANGED <<purchase, owned, credits, sent, inbox, deliveries, failures>>

\* No session opened, or its answer never came and nobody has its address: the row is closed on the status it was written with.
SessionRefused(n) ==
  /\ SessionAt(n, "session")
  /\ \E stage \in {"none", "unreached"} : gateway' = [gateway EXCEPT ![session[n].p] = stage]
  /\ MovePurchase(session[n].p, "FAILED", FALSE)
  /\ session' = [session EXCEPT ![n] = IdleSession]
  /\ UNCHANGED <<sent, inbox, deliveries, failures>>

-----------------------------------------------------------------------------
(* The inbox.                                                              *)

\* The session is through with a notice: a delivery is answered, and the pass goes on to the next.
Done(n) ==
  LET left == session[n].todo \ {session[n].e}
  IN  session' = [session EXCEPT ![n] = IF left = {} THEN IdleSession ELSE [@ EXCEPT !.at = "next", !.e = Null, !.todo = left]]

Mark(e, status) == inbox' = [inbox EXCEPT ![e] = [@ EXCEPT !.status = status, !.stale = FALSE]]

\* ingest up to the commit of record_of: the notice is written down, or was before.
ingest_notice(n, e) ==
  /\ SessionAt(n, "idle") /\ e \in sent /\ deliveries < MaxDeliveries
  /\ deliveries' = deliveries + 1
  /\ IF inbox[e].status = "NONE" THEN Mark(e, "RECEIVED") ELSE UNCHANGED inbox
  /\ IF inbox[e].status \in {"COMPLETED", "IGNORED"} THEN UNCHANGED session
     ELSE session' = [session EXCEPT ![n] = [IdleSession EXCEPT !.at = "claim", !.e = e]]
  /\ UNCHANGED <<purchase, owned, credits, gateway, sent, failures>>

TakeableNotice(row) == row.status \in {"RECEIVED", "FAILED"} \/ (row.status = "PROCESSING" /\ row.stale)

claim_notice(n) ==
  /\ SessionAt(n, "claim")
  /\ LET e == session[n].e
     IN  IF TakeableNotice(inbox[e])
         THEN /\ inbox' = [inbox EXCEPT ![e] = [status |-> "PROCESSING", attempts |-> @.attempts + 1, stale |-> FALSE]]
              /\ session' = [session EXCEPT ![n].at = "apply"]
         ELSE Done(n) /\ UNCHANGED inbox
  /\ UNCHANGED <<purchase, owned, credits, gateway, sent, deliveries, failures>>

\* Variant: a row that was received and never claimed is left to the gateway.
Listed_NotReceived(row) == (row.status = "FAILED" \/ (row.status = "PROCESSING" /\ row.stale)) /\ row.attempts < NOTICE_ATTEMPTS

\* What the retry pass reads.
Listed(row) == (row.status = "FAILED" \/ (row.status \in {"RECEIVED", "PROCESSING"} /\ row.stale)) /\ row.attempts < NOTICE_ATTEMPTS

retry_failed(n) ==
  /\ SessionAt(n, "idle")
  /\ LET stuck == {e \in Notice : Listed(inbox[e])}
     IN  stuck # {} /\ session' = [session EXCEPT ![n] = [IdleSession EXCEPT !.at = "next", !.todo = stuck]]
  /\ UNCHANGED <<purchase, owned, credits, gateway, sent, inbox, deliveries, failures>>

RetryNext(n, e) ==
  /\ SessionAt(n, "next") /\ e \in session[n].todo
  /\ session' = [session EXCEPT ![n] = [@ EXCEPT !.at = "claim", !.e = e]]
  /\ UNCHANGED <<purchase, owned, credits, gateway, sent, inbox, deliveries, failures>>

\* close_exhausted, which the job runs over the table.
close_exhausted_notices(e) ==
  /\ inbox[e].status = "PROCESSING" /\ inbox[e].stale /\ inbox[e].attempts >= NOTICE_ATTEMPTS
  /\ Mark(e, "FAILED")
  /\ UNCHANGED <<purchase, owned, credits, gateway, sent, session, deliveries, failures>>

-----------------------------------------------------------------------------
(* apply.                                                                  *)

\* purchase_of: the row the reference names, or the one the payment id was stored on.
Found(e) == purchase[e[1]].status # "NONE" /\ (e[2] \in SessionKinds \/ purchase[e[1]].payment)

\* A charge names no account of ours, so one whose payment no purchase carries is closed as unresolved.
ApplyUnresolved(n) ==
  /\ SessionAt(n, "apply") /\ ~Found(session[n].e)
  /\ Mark(session[n].e, "IGNORED")
  /\ Done(n)
  /\ UNCHANGED <<purchase, owned, credits, gateway, sent, deliveries, failures>>

\* The session goes on, with what it knows of a purchase.
Knows(s, at, p, status) == [s EXCEPT !.at = at, !.cache = [s.cache EXCEPT ![p] = status]]

\* The purchase is loaded: one the session holds is answered as it was read.
ApplyRead(n) ==
  /\ SessionAt(n, "apply") /\ Found(session[n].e)
  /\ LET p == session[n].e[1]
     IN  session' = [session EXCEPT ![n] = Knows(@, "write", p, IF @.cache[p] = Null THEN purchase[p].status ELSE @.cache[p])]
  /\ UNCHANGED <<purchase, owned, credits, gateway, sent, inbox, deliveries, failures>>

\* Nothing to move: the notice is completed in the commit of run.
SettleStays(n) ==
  /\ SessionAt(n, "write")
  /\ LET e == session[n].e IN ~Moves(session[n].cache[e[1]], payment_of(e[2])) /\ Mark(e, "COMPLETED")
  /\ Done(n)
  /\ UNCHANGED <<purchase, owned, credits, gateway, sent, deliveries, failures>>

\* Variant: the move is written whatever the row has become since it was read.
SettleMoves_Blind(n) ==
  /\ SessionAt(n, "write")
  /\ LET e == session[n].e p == e[1] said == payment_of(e[2])
     IN  /\ Moves(session[n].cache[p], said)
         /\ MovePurchase(p, said, TRUE)
         /\ session' = [session EXCEPT ![n] = Knows(@, "record", p, said)]
  /\ UNCHANGED <<gateway, sent, inbox, deliveries, failures>>

\* The move is written against the status it was decided on, and the one that lost reads again and decides again.
SettleMoves(n) ==
  /\ SessionAt(n, "write")
  /\ LET e == session[n].e p == e[1] said == payment_of(e[2])
     IN  /\ Moves(session[n].cache[p], said)
         /\ IF purchase[p].status = session[n].cache[p]
            THEN /\ MovePurchase(p, said, TRUE)
                 /\ session' = [session EXCEPT ![n] = Knows(@, "record", p, said)]
            ELSE /\ session' = [session EXCEPT ![n] = Knows(@, "write", p, purchase[p].status)]
                 /\ UNCHANGED <<purchase, owned, credits>>
  /\ UNCHANGED <<gateway, sent, inbox, deliveries, failures>>

\* The purchase committed before the notice says so.
Record(n) ==
  /\ SessionAt(n, "record")
  /\ Mark(session[n].e, "COMPLETED")
  /\ Done(n)
  /\ UNCHANGED <<purchase, owned, credits, gateway, sent, deliveries, failures>>

\* An exception undoes what was not committed, and fail writes it on the row; the rollback expires what the session had loaded.
fail(n) ==
  /\ session[n].at \in {"apply", "write", "record"} /\ failures < MaxFailures
  /\ failures' = failures + 1
  /\ Mark(session[n].e, "FAILED")
  /\ LET left == session[n].todo \ {session[n].e}
     IN  session' = [session EXCEPT ![n] = IF left = {} THEN IdleSession ELSE [IdleSession EXCEPT !.at = "next", !.todo = left]]
  /\ UNCHANGED <<purchase, owned, credits, gateway, sent, deliveries>>

SessionDies(n) ==
  /\ session[n].at # "idle" /\ failures < MaxFailures
  /\ failures' = failures + 1
  /\ session' = [session EXCEPT ![n] = IdleSession]
  /\ UNCHANGED <<purchase, owned, credits, gateway, sent, inbox, deliveries>>

\* ABANDONED_AFTER passes over a row no session is on: half an hour, and a pass is stopped after five minutes.
NoticeAbandoned(e) ==
  /\ inbox[e].status \in {"RECEIVED", "PROCESSING"} /\ ~inbox[e].stale
  /\ \A n \in PaymentNode : session[n].e # e
  /\ inbox' = [inbox EXCEPT ![e].stale = TRUE]
  /\ UNCHANGED <<purchase, owned, credits, gateway, sent, session, deliveries, failures>>

-----------------------------------------------------------------------------

Checkout(n) == (\E p \in Purchase : open_purchase(n, p)) \/ open_session(n) \/ SessionRefused(n)

Apply(n) == ApplyUnresolved(n) \/ ApplyRead(n) \/ SettleStays(n) \/ SettleMoves(n) \/ Record(n)

\* What a session goes on with once it has a notice.
SessionWorks(n) == claim_notice(n) \/ Apply(n) \/ \E e \in Notice : RetryNext(n, e)

\* The job: the pass over what failed and the sweep over what was left behind.
Job == (\E n \in PaymentNode : retry_failed(n)) \/ \E e \in Notice : close_exhausted_notices(e)

CommerceNext ==
  \/ \E p \in Purchase, kind \in Kinds : Raise(p, kind)
  \/ \E n \in PaymentNode : Checkout(n) \/ SessionWorks(n) \/ fail(n) \/ SessionDies(n) \/ \E e \in Notice : ingest_notice(n, e)
  \/ Job
  \/ \E e \in Notice : NoticeAbandoned(e)

CommerceSpec == CommerceInit /\ [][CommerceNext]_commerceVars

\* A session goes on until it is done, the job runs again and again, and a row nobody is on grows old.
CommerceFairness ==
  /\ \A n \in PaymentNode : WF_commerceVars(SessionWorks(n)) /\ SF_commerceVars(retry_failed(n))
  /\ \A e \in Notice : WF_commerceVars(close_exhausted_notices(e)) /\ WF_commerceVars(NoticeAbandoned(e))

CommerceFairSpec == CommerceSpec /\ CommerceFairness

-----------------------------------------------------------------------------
(* What must hold.                                                         *)

\* Every row and session has the shape the code gives it.
CommerceTypeOK ==
  /\ purchase \in [Purchase -> PurchaseRow]
  /\ owned \subseteq PaymentUser /\ credits \subseteq [user : PaymentUser, purchase : Purchase]
  /\ gateway \in [Purchase -> {"none", "open", "unreached"} \cup SessionKinds \cup PaymentKinds] /\ sent \subseteq Notice
  /\ inbox \in [Notice -> InboxRow]
  /\ session \in [PaymentNode -> PaymentSession]
  /\ deliveries \in Nat /\ failures \in Nat

\* A purchase that says paid was handed over, whatever died between the two.
PaidIsOwned == \A p \in Purchase : purchase[p].status = "PAID" => Buyer[p] \in owned

\* Nobody owns what no gateway was paid for.
OwnedIsPaidFor == \A u \in owned : \E p \in Purchase : Buyer[p] = u /\ <<p, "paid">> \in sent

\* Owning a product moves its credits once, across purchases of the same product and payments settled twice.
CreditedOnce == \A u \in owned : Cardinality({c \in credits : c.user = u}) = 1

\* No two sessions work one notice at a time.
OneReader == \A m, n \in PaymentNode : (session[m].at \in {"apply", "write", "record"} /\ session[n].at \in {"apply", "write", "record"} /\ session[m].e = session[n].e) => m = n

\* Once every notice of a payment that was never disputed was completed, the purchase says what the gateway says, in whatever order they came.
AgreesWithGateway ==
  \A p \in Purchase :
    (gateway[p] \in SessionKinds \cup PaymentKinds /\ <<p, "lost">> \notin sent /\ \A e \in sent : e[1] = p => inbox[e].status = "COMPLETED") => purchase[p].status = payment_of(gateway[p])

\* Money that went back is final, money that arrived is never walked back to unpaid, and nothing returns to waiting.
SettledStays ==
  [][\A p \in Purchase :
      /\ purchase[p].status = "REFUNDED" => purchase'[p].status = "REFUNDED"
      /\ purchase[p].status \in SETTLED_PURCHASE_STATUSES => purchase'[p].status \in SETTLED_PURCHASE_STATUSES
      /\ purchase[p].status \in PurchaseStatus \ {"PENDING"} => purchase'[p].status # "PENDING"]_commerceVars

\* Every notice that was written down is closed in the end, or gave up all its tries.
EveryNoticeCloses ==
  \A e \in Notice : (inbox[e].status \in {"RECEIVED", "PROCESSING"} \/ Listed(inbox[e])) ~> (inbox[e].status \in {"COMPLETED", "IGNORED"} \/ (inbox[e].status = "FAILED" /\ inbox[e].attempts >= NOTICE_ATTEMPTS))

\* A refund the gateway told us about and we closed is on the purchase, once the payment it undoes is.
RefundRecorded ==
  \A p \in Purchase :
    (\A kind \in {"paid", "refunded"} : <<p, kind>> \in sent /\ inbox[<<p, kind>>].status \in {"COMPLETED", "IGNORED"}) => purchase[p].status = "REFUNDED"

\* However notices cross, repeat and fail, a notice has one reader at a time, and an account owns the product exactly when its money is in.
CommerceInv == CommerceTypeOK /\ OneReader /\ PaidIsOwned /\ OwnedIsPaidFor
=============================================================================
