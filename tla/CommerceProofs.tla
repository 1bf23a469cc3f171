--------------------------- MODULE CommerceProofs ---------------------------
(***************************************************************************)
(* Theorems about Commerce: for any number of purchases, accounts, notices *)
(* and sessions, however notices cross, repeat and are taken up again, and *)
(* whatever dies between two commits, an account owns the product exactly  *)
(* when its money is in, is credited once for it, and a purchase whose     *)
(* notices were all answered says what its gateway says.                   *)
(***************************************************************************)
EXTENDS Commerce, FiniteSetTheorems, TLAPS

-----------------------------------------------------------------------------
(* The inductive invariant.                                                *)

OnNotice == {"claim", "apply", "write", "record"}
Working == {"apply", "write", "record"}

\* What is written down, listed and worked on was sent by the gateway.
Heard ==
  /\ \A e \in Notice : inbox[e].status # "NONE" => e \in sent
  /\ \A n \in PaymentNode : session[n].todo \subseteq sent /\ (session[n].at \in OnNotice => session[n].e \in sent)

\* A session past its claim has the row of its notice, and its claim has not run out.
Claims == \A n \in PaymentNode : session[n].at \in Working => inbox[session[n].e].status = "PROCESSING" /\ ~inbox[session[n].e].stale

\* What a session settles it has read.
HasRead ==
  \A n \in PaymentNode : session[n].at = "write" =>
    session[n].cache[session[n].e[1]] \in PurchaseStatus /\ purchase[session[n].e[1]].status # "NONE"

\* The gateway knows nothing of a purchase.
Unheard(p) == gateway[p] = "none" /\ \A e \in sent : e[1] # p

\* A checkout has its purchase for itself until the gateway knows of it.
OpensAlone ==
  /\ \A p \in Purchase : purchase[p].status = "NONE" => Unheard(p)
  /\ \A n \in PaymentNode : session[n].at = "session" =>
       /\ session[n].p \in Purchase /\ purchase[session[n].p].status = "PENDING" /\ Unheard(session[n].p)
       /\ \A m \in PaymentNode : (session[m].at = "session" /\ session[m].p = session[n].p) => m = n

\* What a gateway says of a payment after it was made comes after it said that it was.
PaidFirst ==
  \A p \in Purchase :
    /\ gateway[p] \in {"paid", "won", "lost", "refunded"} => <<p, "paid">> \in sent
    /\ \A kind \in {"won", "lost", "refunded"} : <<p, kind>> \in sent => <<p, "paid">> \in sent

\* Credits are the owner's, and one row of them.
OneCredit ==
  /\ \A c \in credits : c.user \in owned
  /\ \A c, d \in credits : c.user = d.user => c = d
  /\ \A u \in owned : \E c \in credits : c.user = u

SessionsCore == CommerceTypeOK /\ Heard /\ Claims /\ OneReader /\ HasRead

MoneyCore == PaidFirst /\ PaidIsOwned /\ OwnedIsPaidFor /\ OneCredit

-----------------------------------------------------------------------------
(* Agreement with the gateway.                                             *)

\* Nothing a gateway could say with this word moves the purchase any more.
Absorbed(status, said) == said = "PENDING" \/ status = said \/ (said = "PAID" /\ status = "REFUNDED")

Disputed(p) == <<p, "lost">> \in sent

\* A payment that is not disputed goes one way, and the last thing said of it is how it stands.
OneWay ==
  \A p \in Purchase : ~Disputed(p) =>
    /\ gateway[p] \in SessionKinds \cup PaymentKinds => <<p, gateway[p]>> \in sent
    /\ gateway[p] \in {"none", "open", "unreached"} => \A e \in sent : e[1] # p
    /\ <<p, "expired">> \in sent => gateway[p] = "expired" /\ \A e \in sent : e[1] = p => e[2] = "expired"
    /\ <<p, "failed">> \in sent => gateway[p] = "failed" /\ \A e \in sent : e[1] = p => e[2] \in {"unpaid", "failed"}
    /\ <<p, "refunded">> \in sent => gateway[p] = "refunded"
    /\ gateway[p] = "unpaid" => \A e \in sent : e[1] = p => e[2] = "unpaid"

\* A purchase says what somebody said of it.
Backed ==
  \A p \in Purchase : ~Disputed(p) =>
    /\ purchase[p].status = "FAILED" => gateway[p] \in {"none", "unreached", "expired", "failed"}
    /\ purchase[p].status = "CANCELED" => <<p, "expired">> \in sent
    /\ purchase[p].status = "PAID" => <<p, "paid">> \in sent
    /\ purchase[p].status = "REFUNDED" => <<p, "refunded">> \in sent
    /\ purchase[p].status # "CHARGED_BACK"

\* What a session has read of a purchase is where it was, and a purchase moves one way.
Past(was, is) == was = is \/ was = "PENDING" \/ (was = "FAILED" /\ is = "CANCELED") \/ (was = "PAID" /\ is = "REFUNDED")

ReadBefore ==
  \A n \in PaymentNode, p \in Purchase : (~Disputed(p) /\ session[n].cache[p] # Null) =>
    Past(session[n].cache[p], purchase[p].status)

\* What was completed, or is about to be, moves the purchase no more.
AllAbsorbed ==
  /\ \A e \in sent : (~Disputed(e[1]) /\ inbox[e].status = "COMPLETED") => Absorbed(purchase[e[1]].status, payment_of(e[2]))
  /\ \A n \in PaymentNode : (session[n].at = "record" /\ ~Disputed(session[n].e[1])) =>
       Absorbed(purchase[session[n].e[1]].status, payment_of(session[n].e[2]))

Agreement == OneWay /\ Backed /\ ReadBefore /\ AllAbsorbed

CommerceIInv == SessionsCore /\ OpensAlone /\ MoneyCore /\ Agreement
-----------------------------------------------------------------------------
(* What a notice says.                                                     *)

LEMMA NoticeOf ==
  ASSUME NEW e \in Notice
  PROVE  e[1] \in Purchase /\ e[2] \in Kinds /\ e = <<e[1], e[2]>> /\ e[2] \in SessionKinds \cup PaymentKinds
BY CommerceAssumption DEF Notice

LEMMA PaymentOf ==
  ASSUME NEW kind \in SessionKinds \cup PaymentKinds
  PROVE  /\ payment_of(kind) \in PurchaseStatus
         /\ payment_of(kind) = "PAID" <=> kind \in {"paid", "won"}
         /\ payment_of(kind) = "PENDING" <=> kind = "unpaid"
         /\ payment_of(kind) = "FAILED" <=> kind = "failed"
         /\ payment_of(kind) = "CANCELED" <=> kind = "expired"
         /\ payment_of(kind) = "REFUNDED" <=> kind = "refunded"
         /\ payment_of(kind) = "CHARGED_BACK" <=> kind = "lost"
<1>1. kind \in {"unpaid", "paid", "failed", "expired", "refunded", "lost", "won"}
  BY DEF SessionKinds, PaymentKinds
<1>2. CASE kind = "unpaid"
  BY <1>2 DEF payment_of, PurchaseStatus
<1>3. CASE kind = "paid"
  BY <1>3 DEF payment_of, PurchaseStatus
<1>4. CASE kind = "failed"
  BY <1>4 DEF payment_of, PurchaseStatus
<1>5. CASE kind = "expired"
  BY <1>5 DEF payment_of, PurchaseStatus
<1>6. CASE kind = "refunded"
  BY <1>6 DEF payment_of, PurchaseStatus
<1>7. CASE kind = "lost"
  BY <1>7 DEF payment_of, PurchaseStatus
<1>8. CASE kind = "won"
  BY <1>8 DEF payment_of, PurchaseStatus
<1>9. QED
  BY <1>1, <1>2, <1>3, <1>4, <1>5, <1>6, <1>7, <1>8

-----------------------------------------------------------------------------
(* What the writes leave.                                                  *)

\* A write on one session leaves the others.
LEMMA SessionWrite ==
  ASSUME NEW n \in PaymentNode, NEW new \in PaymentSession, CommerceTypeOK, session' = [session EXCEPT ![n] = new]
  PROVE  session' \in [PaymentNode -> PaymentSession] /\ session'[n] = new /\ \A m \in PaymentNode : m # n => session'[m] = session[m]
BY DEF CommerceTypeOK

LEMMA IdleSessionType ==
  IdleSession \in PaymentSession /\ IdleSession.at = "idle" /\ IdleSession.todo = {} /\ \A p \in Purchase : IdleSession.cache[p] = Null
BY DEF IdleSession, PaymentSession

\* A write on one row of the inbox leaves the others.
LEMMA InboxWrite ==
  ASSUME NEW e \in Notice, NEW status \in {"RECEIVED", "COMPLETED", "IGNORED", "FAILED"}, CommerceTypeOK, Mark(e, status)
  PROVE  inbox' \in [Notice -> InboxRow] /\ inbox'[e].status = status /\ \A f \in Notice : f # e => inbox'[f] = inbox[f]
<1> DEFINE new == [inbox[e] EXCEPT !.status = status, !.stale = FALSE]
<1>1. new \in InboxRow /\ new.status = status
  BY DEF CommerceTypeOK, InboxRow
<1>2. inbox' = [inbox EXCEPT ![e] = new]
  BY DEF Mark
<1> HIDE DEF new
<1>3. QED
  BY <1>1, <1>2 DEF CommerceTypeOK

\* What a session may be after a step that leaves the purchases to others.
Lets(s) == s.at \in {"idle", "claim", "next"} /\ s.todo \subseteq sent /\ (s.at = "claim" => s.e \in sent)

\* A session that is through with its notice, or goes on to one, leaves the claims of the others.
LEMMA DoneLets ==
  ASSUME NEW n \in PaymentNode, CommerceTypeOK, Heard, Done(n)
  PROVE  /\ session' \in [PaymentNode -> PaymentSession] /\ \A m \in PaymentNode : m # n => session'[m] = session[m]
         /\ Lets(session'[n]) /\ \A p \in Purchase : session'[n].cache[p] \in {session[n].cache[p], Null}
<1> DEFINE left == session[n].todo \ {session[n].e}
           new == IF left = {} THEN IdleSession ELSE [session[n] EXCEPT !.at = "next", !.e = Null, !.todo = left]
<1>1. session' = [session EXCEPT ![n] = new]
  BY DEF Done
<1>2. session[n] \in PaymentSession /\ session[n].todo \subseteq Notice /\ session[n].todo \subseteq sent
  BY DEF CommerceTypeOK, PaymentSession, Heard
<1>3. new \in PaymentSession /\ new.at \in {"idle", "next"} /\ new.todo \subseteq sent /\ \A p \in Purchase : new.cache[p] \in {session[n].cache[p], Null}
  <2>1. CASE left = {}
    BY <2>1, IdleSessionType
  <2>2. CASE left # {}
    BY <1>2, <2>2 DEF PaymentSession
  <2>3. QED
    BY <2>1, <2>2
<1> HIDE DEF new
<1>4. session' \in [PaymentNode -> PaymentSession] /\ session'[n] = new /\ \A m \in PaymentNode : m # n => session'[m] = session[m]
  BY <1>1, <1>3, SessionWrite
<1>5. QED
  BY <1>3, <1>4 DEF Lets

\* A step after which each session let go of its notice or stayed on it keeps what the sessions rely on.
LEMMA SessionsKept ==
  ASSUME SessionsCore, CommerceTypeOK', sent \subseteq sent', \A e \in Notice : inbox'[e].status # "NONE" => e \in sent',
         \A p \in Purchase : purchase[p].status # "NONE" => purchase'[p].status # "NONE",
         \A m \in PaymentNode :
           \/ Lets(session'[m])
           \/ session'[m] = session[m] /\ (session[m].at \in Working => inbox'[session[m].e] = inbox[session[m].e])
           \/ session'[m].at = "session" /\ session'[m].todo = {}
           \/ /\ session[m].at \in Working /\ session'[m].at \in {"write", "record"} /\ session'[m].e = session[m].e /\ session'[m].todo = session[m].todo
              /\ inbox'[session[m].e] = inbox[session[m].e]
              /\ session'[m].at = "write" => session'[m].cache[session[m].e[1]] \in PurchaseStatus /\ purchase[session[m].e[1]].status # "NONE"
  PROVE  SessionsCore'
<1>1. Heard'
  BY DEF SessionsCore, Heard, Lets, OnNotice, Working
<1>2. Claims'
  BY DEF SessionsCore, Claims, Lets, Working
<1>3. OneReader'
  BY DEF SessionsCore, OneReader, Lets, Working
<1>4. HasRead'
  <2> SUFFICES ASSUME NEW m \in PaymentNode, session'[m].at = "write"
               PROVE  session'[m].cache[session'[m].e[1]] \in PurchaseStatus /\ purchase'[session'[m].e[1]].status # "NONE"
    BY DEF HasRead
  <2>1. session'[m].e = session[m].e /\ session[m].at \in Working
    BY DEF Lets, Working
  <2>2. session[m].e[1] \in Purchase
    BY <2>1, NoticeOf DEF SessionsCore, CommerceTypeOK, Heard, OnNotice, Working
  <2>3. QED
    BY <2>1, <2>2 DEF SessionsCore, HasRead, Lets, Working
<1>5. QED
  BY <1>1, <1>2, <1>3, <1>4 DEF SessionsCore
\* A session past its claim is on a notice that was sent.
LEMMA OnOf ==
  ASSUME SessionsCore, NEW n \in PaymentNode, session[n].at \in OnNotice
  PROVE  /\ session[n] \in PaymentSession /\ session[n].e \in Notice /\ session[n].e \in sent
         /\ session[n].e[1] \in Purchase /\ session[n].e[2] \in Kinds /\ session[n].e[2] \in SessionKinds \cup PaymentKinds
<1>1. session[n] \in PaymentSession /\ session[n].e \in sent /\ session[n].e \in Notice
  BY DEF SessionsCore, CommerceTypeOK, Heard
<1>2. QED
  BY <1>1, NoticeOf

\* Nobody else is on the row a session works on.
LEMMA OthersRows ==
  ASSUME SessionsCore, NEW n \in PaymentNode, session[n].at \in Working, \A f \in Notice : f # session[n].e => inbox'[f] = inbox[f]
  PROVE  \A m \in PaymentNode : (m # n /\ session[m].at \in Working) => inbox'[session[m].e] = inbox[session[m].e]
<1> SUFFICES ASSUME NEW m \in PaymentNode, m # n, session[m].at \in Working PROVE inbox'[session[m].e] = inbox[session[m].e]
  OBVIOUS
<1>1. session[m].e \in Notice
  BY OnOf DEF OnNotice, Working
<1>2. session[m].e # session[n].e
  BY DEF SessionsCore, OneReader, Working
<1>3. QED
  BY <1>1, <1>2

-----------------------------------------------------------------------------
(* The sessions, action by action.                                         *)

\* The notice is written down, and only a row that was absent moves.
LEMMA IngestSessions ==
  ASSUME SessionsCore, NEW n \in PaymentNode, NEW e \in Notice, ingest_notice(n, e)
  PROVE  SessionsCore'
<1>1. /\ SessionAt(n, "idle") /\ e \in sent /\ deliveries + 1 \in Nat
      /\ IF inbox[e].status = "NONE" THEN Mark(e, "RECEIVED") ELSE UNCHANGED inbox
      /\ deliveries' = deliveries + 1 /\ UNCHANGED <<purchase, owned, credits, gateway, sent, failures>>
  BY DEF ingest_notice, SessionsCore, CommerceTypeOK
<1>2. /\ inbox' \in [Notice -> InboxRow]
      /\ \A f \in Notice : inbox'[f] = inbox[f] \/ (f = e /\ inbox[f].status = "NONE")
  <2>1. CASE inbox[e].status = "NONE"
    BY <1>1, <2>1, InboxWrite DEF SessionsCore
  <2>2. CASE inbox[e].status # "NONE"
    BY <1>1, <2>2 DEF SessionsCore, CommerceTypeOK
  <2>3. QED
    BY <2>1, <2>2
<1>3. /\ session' \in [PaymentNode -> PaymentSession]
      /\ \A m \in PaymentNode : session'[m] = session[m] \/ Lets(session'[m])
  <2>1. CASE inbox[e].status \in {"COMPLETED", "IGNORED"}
    BY <2>1 DEF ingest_notice, SessionsCore, CommerceTypeOK
  <2>2. CASE inbox[e].status \notin {"COMPLETED", "IGNORED"}
    <3> DEFINE new == [IdleSession EXCEPT !.at = "claim", !.e = e]
    <3>1. new \in PaymentSession /\ new.at = "claim" /\ new.e = e /\ new.todo = {}
      BY IdleSessionType DEF PaymentSession
    <3>2. session' = [session EXCEPT ![n] = new]
      BY <2>2 DEF ingest_notice
    <3> HIDE DEF new
    <3>3. session' \in [PaymentNode -> PaymentSession] /\ session'[n] = new /\ \A m \in PaymentNode : m # n => session'[m] = session[m]
      BY <3>1, <3>2, SessionWrite DEF SessionsCore
    <3>4. Lets(new)
      BY <1>1, <3>1 DEF Lets
    <3>5. QED
      BY <3>3, <3>4
  <2>3. QED
    BY <2>1, <2>2
<1>4. CommerceTypeOK'
  BY <1>1, <1>2, <1>3 DEF SessionsCore, CommerceTypeOK
<1>5. \A f \in Notice : inbox'[f].status # "NONE" => f \in sent'
  BY <1>1, <1>2 DEF SessionsCore, Heard
<1>6. \A m \in PaymentNode : session[m].at \in Working => inbox'[session[m].e] = inbox[session[m].e]
  <2> SUFFICES ASSUME NEW m \in PaymentNode, session[m].at \in Working PROVE inbox'[session[m].e] = inbox[session[m].e]
    OBVIOUS
  <2>1. session[m].e \in Notice /\ inbox[session[m].e].status = "PROCESSING"
    BY OnOf DEF SessionsCore, Claims, OnNotice, Working
  <2>2. QED
    BY <1>2, <2>1
<1>7. QED
  BY <1>1, <1>3, <1>4, <1>5, <1>6, SessionsKept

\* The conditional update that takes a notice meets a row nobody works on.
LEMMA ClaimSessions ==
  ASSUME SessionsCore, NEW n \in PaymentNode, claim_notice(n)
  PROVE  /\ SessionsCore' /\ UNCHANGED <<purchase, owned, credits, gateway, sent>>
         /\ \A m \in PaymentNode : m # n => session'[m] = session[m]
         /\ \A p \in Purchase : session'[n].cache[p] \in {session[n].cache[p], Null}
         /\ session'[n].at \in {"idle", "next", "apply"}
         /\ \A f \in Notice : inbox'[f].status = "COMPLETED" => inbox[f].status = "COMPLETED"
<1>1. PICK e \in Notice : e = session[n].e /\ e \in sent
  BY OnOf DEF claim_notice, SessionAt, OnNotice
<1>2. session[n] \in PaymentSession /\ session[n].at = "claim" /\ UNCHANGED <<purchase, owned, credits, gateway, sent, deliveries, failures>>
  BY DEF claim_notice, SessionAt, SessionsCore, CommerceTypeOK
<1>3. CASE TakeableNotice(inbox[e])
  <2> DEFINE row == [status |-> "PROCESSING", attempts |-> inbox[e].attempts + 1, stale |-> FALSE]
             new == [session[n] EXCEPT !.at = "apply"]
  <2>1. inbox[e] \in InboxRow /\ inbox[e].attempts + 1 \in Nat
    BY DEF SessionsCore, CommerceTypeOK, InboxRow
  <2>2. row \in InboxRow /\ row.status = "PROCESSING" /\ ~row.stale
    BY <2>1 DEF InboxRow
  <2>3. new \in PaymentSession /\ new.at = "apply" /\ new.e = e /\ new.todo = session[n].todo /\ new.cache = session[n].cache
    BY <1>1, <1>2 DEF PaymentSession
  <2>4. inbox' = [inbox EXCEPT ![e] = row] /\ session' = [session EXCEPT ![n] = new]
    BY <1>1, <1>3 DEF claim_notice
  <2> HIDE DEF row, new
  <2>5. inbox' \in [Notice -> InboxRow] /\ inbox'[e] = row /\ \A f \in Notice : f # e => inbox'[f] = inbox[f]
    BY <2>2, <2>4 DEF SessionsCore, CommerceTypeOK
  <2>6. session' \in [PaymentNode -> PaymentSession] /\ session'[n] = new /\ \A m \in PaymentNode : m # n => session'[m] = session[m]
    BY <2>3, <2>4, SessionWrite DEF SessionsCore
  <2>7. ASSUME NEW m \in PaymentNode, m # n, session[m].at \in Working
        PROVE  session[m].e # e /\ session[m].e \in Notice /\ inbox'[session[m].e] = inbox[session[m].e]
    <3>1. session[m].e \in Notice /\ inbox[session[m].e].status = "PROCESSING" /\ ~inbox[session[m].e].stale
      BY <2>7, OnOf DEF SessionsCore, Claims, OnNotice, Working
    <3>2. QED
      BY <1>3, <2>5, <3>1 DEF TakeableNotice
  <2>8. CommerceTypeOK'
    BY <1>2, <2>5, <2>6 DEF SessionsCore, CommerceTypeOK
  <2>9. Heard'
    BY <1>1, <1>2, <2>2, <2>3, <2>5, <2>6 DEF SessionsCore, Heard, OnNotice
  <2>10. Claims' /\ OneReader'
    BY <2>2, <2>3, <2>5, <2>6, <2>7 DEF SessionsCore, Claims, OneReader, Working
  <2>11. HasRead'
    BY <1>2, <2>3, <2>6 DEF SessionsCore, HasRead
  <2>12. QED
    BY <1>2, <2>2, <2>3, <2>5, <2>6, <2>8, <2>9, <2>10, <2>11 DEF SessionsCore
<1>4. CASE ~TakeableNotice(inbox[e])
  <2>1. Done(n) /\ UNCHANGED inbox
    BY <1>1, <1>4 DEF claim_notice
  <2>2. /\ session' \in [PaymentNode -> PaymentSession] /\ \A m \in PaymentNode : m # n => session'[m] = session[m]
        /\ Lets(session'[n]) /\ \A p \in Purchase : session'[n].cache[p] \in {session[n].cache[p], Null}
    BY <2>1, DoneLets DEF SessionsCore
  <2>3. session'[n].at \in {"idle", "next"}
    BY <1>2, <2>1, IdleSessionType DEF Done, SessionsCore, CommerceTypeOK, PaymentSession
  <2>4. CommerceTypeOK'
    BY <1>2, <2>1, <2>2 DEF SessionsCore, CommerceTypeOK
  <2>5. SessionsCore'
    BY <1>2, <2>1, <2>2, <2>4, SessionsKept DEF SessionsCore, Heard
  <2>6. QED
    BY <1>2, <2>1, <2>2, <2>3, <2>5
<1>5. QED
  BY <1>3, <1>4
\* What completes a notice: its purchase was moved, or there was nothing to move.
Settles(n, e) ==
  session[n].e = e /\ (session[n].at = "record" \/ (session[n].at = "write" /\ ~Moves(session[n].cache[e[1]], payment_of(e[2]))))

\* A step that moves no purchase, opens no checkout, and completes only what was settled.
Aside ==
  /\ UNCHANGED <<purchase, owned, credits, gateway, sent>>
  /\ \A m \in PaymentNode : session'[m].at \in {"session", "record"} => session'[m] = session[m]
  /\ \A m \in PaymentNode, p \in Purchase : session'[m].cache[p] \in {session[m].cache[p], Null, purchase[p].status}
  /\ \A e \in Notice : inbox'[e].status = "COMPLETED" => (inbox[e].status = "COMPLETED" \/ \E n \in PaymentNode : Settles(n, e))

LEMMA IngestAside ==
  ASSUME SessionsCore, NEW n \in PaymentNode, NEW e \in Notice, ingest_notice(n, e)
  PROVE  Aside
<1>1. session \in [PaymentNode -> PaymentSession] /\ inbox \in [Notice -> InboxRow]
  BY DEF SessionsCore, CommerceTypeOK
<1>2. \A m \in PaymentNode : session'[m] = session[m] \/ (session'[m].at = "claim" /\ session'[m].cache = IdleSession.cache)
  <2> DEFINE new == [IdleSession EXCEPT !.at = "claim", !.e = e]
  <2>1. new.at = "claim" /\ new.cache = IdleSession.cache
    BY IdleSessionType DEF PaymentSession
  <2>2. UNCHANGED session \/ session' = [session EXCEPT ![n] = new]
    BY DEF ingest_notice
  <2> HIDE DEF new
  <2>3. QED
    BY <1>1, <2>1, <2>2
<1>3. \A f \in Notice : inbox'[f].status = "COMPLETED" => inbox[f].status = "COMPLETED"
  BY InboxWrite DEF ingest_notice, SessionsCore
<1>4. QED
  BY <1>2, <1>3, IdleSessionType DEF Aside, ingest_notice

LEMMA ClaimAside ==
  ASSUME SessionsCore, NEW n \in PaymentNode, claim_notice(n)
  PROVE  Aside
BY ClaimSessions DEF Aside

\* A session closes its notice and lets go of it.
LEMMA CloseSessions ==
  ASSUME SessionsCore, NEW n \in PaymentNode, session[n].at \in Working, NEW status \in {"COMPLETED", "IGNORED", "FAILED"}, Mark(session[n].e, status),
         session' \in [PaymentNode -> PaymentSession], \A m \in PaymentNode : m # n => session'[m] = session[m],
         session'[n].at \in {"idle", "next"}, Lets(session'[n]), \A p \in Purchase : session'[n].cache[p] \in {session[n].cache[p], Null},
         UNCHANGED <<purchase, owned, credits, gateway, sent>>, deliveries' \in Nat, failures' \in Nat,
         status = "COMPLETED" => Settles(n, session[n].e)
  PROVE  SessionsCore' /\ Aside
<1>1. PICK e \in Notice : e = session[n].e /\ e \in sent
  BY OnOf DEF OnNotice, Working
<1>2. inbox' \in [Notice -> InboxRow] /\ inbox'[e].status = status /\ \A f \in Notice : f # e => inbox'[f] = inbox[f]
  BY <1>1, InboxWrite DEF SessionsCore
<1>3. CommerceTypeOK'
  BY <1>2 DEF SessionsCore, CommerceTypeOK
<1>4. \A f \in Notice : inbox'[f].status # "NONE" => f \in sent'
  BY <1>1, <1>2 DEF SessionsCore, Heard
<1>5. \A m \in PaymentNode : (m # n /\ session[m].at \in Working) => inbox'[session[m].e] = inbox[session[m].e]
  BY <1>1, <1>2, OthersRows
<1>6. SessionsCore'
  BY <1>3, <1>4, <1>5, SessionsKept
<1>7. Aside
  BY <1>1, <1>2 DEF Aside
<1>8. QED
  BY <1>6, <1>7

LEMMA ApplySessions ==
  ASSUME SessionsCore, NEW n \in PaymentNode, ApplyUnresolved(n) \/ SettleStays(n) \/ Record(n)
  PROVE  SessionsCore' /\ Aside
<1>1. /\ session[n].at \in Working /\ Done(n) /\ UNCHANGED <<purchase, owned, credits, gateway, sent, deliveries, failures>>
  BY DEF ApplyUnresolved, SettleStays, Record, SessionAt, Working
<1>2. PICK status \in {"COMPLETED", "IGNORED", "FAILED"} : Mark(session[n].e, status) /\ (status = "COMPLETED" => Settles(n, session[n].e))
  BY DEF ApplyUnresolved, SettleStays, Record, SessionAt, Settles
<1>3. /\ session' \in [PaymentNode -> PaymentSession] /\ \A m \in PaymentNode : m # n => session'[m] = session[m]
      /\ Lets(session'[n]) /\ \A p \in Purchase : session'[n].cache[p] \in {session[n].cache[p], Null}
  BY <1>1, DoneLets DEF SessionsCore
<1>4. session'[n].at \in {"idle", "next"}
  BY <1>1, IdleSessionType DEF Done, SessionsCore, CommerceTypeOK, PaymentSession
<1>5. deliveries' \in Nat /\ failures' \in Nat
  BY <1>1 DEF SessionsCore, CommerceTypeOK
<1>6. QED
  BY <1>1, <1>2, <1>3, <1>4, <1>5, CloseSessions

LEMMA FailSessions ==
  ASSUME SessionsCore, NEW n \in PaymentNode, fail(n)
  PROVE  SessionsCore' /\ Aside
<1> DEFINE left == session[n].todo \ {session[n].e}
           new == IF left = {} THEN IdleSession ELSE [IdleSession EXCEPT !.at = "next", !.todo = left]
<1>1. session[n].at \in Working /\ Mark(session[n].e, "FAILED") /\ UNCHANGED <<purchase, owned, credits, gateway, sent, deliveries>> /\ session' = [session EXCEPT ![n] = new]
  BY DEF fail, Working
<1>2. session[n] \in PaymentSession /\ session[n].todo \subseteq Notice /\ session[n].todo \subseteq sent
  BY DEF SessionsCore, CommerceTypeOK, PaymentSession, Heard
<1>3. new \in PaymentSession /\ new.at \in {"idle", "next"} /\ new.todo \subseteq sent /\ \A p \in Purchase : new.cache[p] = Null
  <2>1. CASE left = {}
    BY <2>1, IdleSessionType
  <2>2. CASE left # {}
    BY <1>2, <2>2, IdleSessionType DEF PaymentSession
  <2>3. QED
    BY <2>1, <2>2
<1>4. deliveries' \in Nat /\ failures' \in Nat
  BY <1>1 DEF fail, SessionsCore, CommerceTypeOK
<1> HIDE DEF new
<1>5. session' \in [PaymentNode -> PaymentSession] /\ session'[n] = new /\ \A m \in PaymentNode : m # n => session'[m] = session[m]
  BY <1>1, <1>3, SessionWrite DEF SessionsCore
<1>6. Lets(session'[n])
  BY <1>3, <1>5 DEF Lets
<1>7. QED
  BY <1>1, <1>3, <1>4, <1>5, <1>6, CloseSessions

\* A session that begins on a batch, goes to its next notice or dies, with the inbox as it is.
LEMMA BatchSessions ==
  ASSUME SessionsCore, NEW n \in PaymentNode, NEW new \in PaymentSession, Lets(new), session' = [session EXCEPT ![n] = new],
         \A p \in Purchase : new.cache[p] \in {session[n].cache[p], Null},
         UNCHANGED <<purchase, owned, credits, gateway, sent, inbox, deliveries>>, failures' \in Nat
  PROVE  SessionsCore' /\ Aside
<1>1. session' \in [PaymentNode -> PaymentSession] /\ session'[n] = new /\ \A m \in PaymentNode : m # n => session'[m] = session[m]
  BY SessionWrite DEF SessionsCore
<1>2. CommerceTypeOK'
  BY <1>1 DEF SessionsCore, CommerceTypeOK
<1>3. SessionsCore'
  BY <1>1, <1>2, SessionsKept DEF SessionsCore, Heard
<1>4. Aside
  BY <1>1 DEF Aside, Lets
<1>5. QED
  BY <1>3, <1>4

LEMMA PassSessions ==
  ASSUME SessionsCore, NEW n \in PaymentNode, retry_failed(n) \/ (\E e \in Notice : RetryNext(n, e)) \/ SessionDies(n)
  PROVE  SessionsCore' /\ Aside
<1>1. session[n] \in PaymentSession /\ session[n].todo \subseteq sent /\ failures \in Nat /\ failures + 1 \in Nat
  BY DEF SessionsCore, CommerceTypeOK, Heard
<1>2. CASE retry_failed(n)
  <2> DEFINE stuck == {e \in Notice : Listed(inbox[e])}
             new == [IdleSession EXCEPT !.at = "next", !.todo = stuck]
  <2>1. stuck \subseteq sent
    BY DEF Listed, SessionsCore, Heard
  <2>2. new \in PaymentSession /\ Lets(new) /\ \A p \in Purchase : new.cache[p] = Null
    BY <2>1, IdleSessionType DEF PaymentSession, Lets
  <2>3. session' = [session EXCEPT ![n] = new] /\ UNCHANGED <<purchase, owned, credits, gateway, sent, inbox, deliveries, failures>>
    BY <1>2 DEF retry_failed
  <2> HIDE DEF new
  <2>4. QED
    BY <1>1, <2>2, <2>3, BatchSessions
<1>3. ASSUME NEW e \in Notice, RetryNext(n, e) PROVE SessionsCore' /\ Aside
  <2> DEFINE new == [session[n] EXCEPT !.at = "claim", !.e = e]
  <2>1. new \in PaymentSession /\ Lets(new) /\ new.cache = session[n].cache
    BY <1>1, <1>3 DEF PaymentSession, Lets, RetryNext
  <2>2. session' = [session EXCEPT ![n] = new] /\ UNCHANGED <<purchase, owned, credits, gateway, sent, inbox, deliveries, failures>>
    BY <1>3 DEF RetryNext
  <2> HIDE DEF new
  <2>3. QED
    BY <1>1, <2>1, <2>2, BatchSessions
<1>4. CASE SessionDies(n)
  <2>1. Lets(IdleSession)
    BY IdleSessionType DEF Lets
  <2>2. QED
    BY <1>1, <1>4, <2>1, IdleSessionType, BatchSessions DEF SessionDies
<1>5. QED
  BY <1>2, <1>3, <1>4

\* The sweep and time move no row a session works on.
LEMMA SweepSessions ==
  ASSUME SessionsCore, NEW e \in Notice, close_exhausted_notices(e) \/ NoticeAbandoned(e)
  PROVE  SessionsCore' /\ Aside
<1>1. UNCHANGED <<purchase, owned, credits, gateway, sent, session, deliveries, failures>>
  BY DEF close_exhausted_notices, NoticeAbandoned
<1>2. /\ inbox' \in [Notice -> InboxRow] /\ \A f \in Notice : f # e => inbox'[f] = inbox[f]
      /\ inbox[e].status # "NONE" /\ inbox'[e].status # "COMPLETED"
  <2>1. CASE close_exhausted_notices(e)
    BY <2>1, InboxWrite DEF close_exhausted_notices, SessionsCore
  <2>2. CASE NoticeAbandoned(e)
    BY <2>2 DEF NoticeAbandoned, SessionsCore, CommerceTypeOK, InboxRow
  <2>3. QED
    BY <2>1, <2>2
<1>3. \A m \in PaymentNode : session[m].at \in Working => session[m].e \in Notice /\ session[m].e # e
  <2> SUFFICES ASSUME NEW m \in PaymentNode, session[m].at \in Working PROVE session[m].e \in Notice /\ session[m].e # e
    OBVIOUS
  <2>1. session[m].e \in Notice /\ ~inbox[session[m].e].stale
    BY OnOf DEF SessionsCore, Claims, OnNotice, Working
  <2>2. QED
    BY <2>1 DEF close_exhausted_notices, NoticeAbandoned
<1>4. CommerceTypeOK' /\ \A f \in Notice : inbox'[f].status # "NONE" => f \in sent'
  BY <1>1, <1>2 DEF SessionsCore, CommerceTypeOK, Heard
<1>5. SessionsCore'
  BY <1>1, <1>2, <1>3, <1>4, SessionsKept
<1>6. Aside
  BY <1>1, <1>2 DEF Aside
<1>7. QED
  BY <1>5, <1>6

\* The purchase is loaded, or answered as the session read it.
LEMMA ReadSessions ==
  ASSUME SessionsCore, NEW n \in PaymentNode, ApplyRead(n)
  PROVE  SessionsCore' /\ Aside
<1>1. PICK p \in Purchase : p = session[n].e[1] /\ purchase[p].status \in PurchaseStatus /\ purchase[p].status # "NONE"
  <2>1. session[n].e[1] \in Purchase /\ Found(session[n].e)
    BY OnOf DEF ApplyRead, SessionAt, OnNotice
  <2>2. QED
    BY <2>1 DEF Found, SessionsCore, CommerceTypeOK, PurchaseRow, PurchaseStatus
<1> DEFINE status == IF session[n].cache[p] = Null THEN purchase[p].status ELSE session[n].cache[p]
           new == Knows(session[n], "write", p, status)
<1>2. session[n] \in PaymentSession /\ session[n].at = "apply" /\ session[n].cache \in [Purchase -> PurchaseStatus \cup {Null}]
      /\ UNCHANGED <<purchase, owned, credits, gateway, sent, inbox, deliveries, failures>>
  BY DEF ApplyRead, SessionAt, SessionsCore, CommerceTypeOK, PaymentSession
<1>3. status \in PurchaseStatus
  BY <1>1, <1>2
<1>4. session' = [session EXCEPT ![n] = new]
  BY <1>1 DEF ApplyRead
<1>5. /\ new \in PaymentSession /\ new.at = "write" /\ new.e = session[n].e /\ new.todo = session[n].todo
      /\ new.cache = [session[n].cache EXCEPT ![p] = status]
  BY <1>2, <1>3 DEF Knows, PaymentSession
<1>6. new.cache[p] = status /\ \A q \in Purchase : new.cache[q] \in {session[n].cache[q], Null, purchase[q].status}
  BY <1>2, <1>5
<1> HIDE DEF new, status
<1>7. session' \in [PaymentNode -> PaymentSession] /\ session'[n] = new /\ \A m \in PaymentNode : m # n => session'[m] = session[m]
  BY <1>4, <1>5, SessionWrite DEF SessionsCore
<1>8. CommerceTypeOK' /\ \A f \in Notice : inbox'[f].status # "NONE" => f \in sent'
  BY <1>2, <1>7 DEF SessionsCore, CommerceTypeOK, Heard
<1>9. SessionsCore'
  BY <1>1, <1>2, <1>3, <1>5, <1>6, <1>7, <1>8, SessionsKept DEF Working
<1>10. Aside
  BY <1>2, <1>5, <1>6, <1>7 DEF Aside
<1>11. QED
  BY <1>9, <1>10
-----------------------------------------------------------------------------
(* The purchases.                                                          *)

\* A move writes one purchase, and hands it over when it says paid.
LEMMA MoveWrite ==
  ASSUME CommerceTypeOK, NEW p \in Purchase, NEW said \in PurchaseStatus, NEW named \in BOOLEAN, MovePurchase(p, said, named)
  PROVE  /\ purchase' \in [Purchase -> PurchaseRow] /\ purchase'[p].status = said /\ \A q \in Purchase : q # p => purchase'[q] = purchase[q]
         /\ owned' \subseteq PaymentUser /\ credits' \subseteq [user : PaymentUser, purchase : Purchase]
         /\ IF said = "PAID" THEN grant(p) ELSE UNCHANGED <<owned, credits>>
<1> DEFINE paid == purchase[p].payment \/ named
           row == [status |-> said, payment |-> paid]
<1>1. paid \in BOOLEAN
  BY DEF CommerceTypeOK, PurchaseRow
<1>2. purchase' = [purchase EXCEPT ![p] = row]
  BY DEF MovePurchase
<1> HIDE DEF paid
<1>3. row \in PurchaseRow /\ row.status = said
  BY <1>1 DEF PurchaseRow
<1> HIDE DEF row
<1>4. purchase' \in [Purchase -> PurchaseRow] /\ purchase'[p] = row /\ \A q \in Purchase : q # p => purchase'[q] = purchase[q]
  BY <1>2, <1>3 DEF CommerceTypeOK
<1>5. IF said = "PAID" THEN grant(p) ELSE UNCHANGED <<owned, credits>>
  BY DEF MovePurchase
<1>6. Buyer[p] \in PaymentUser
  BY CommerceAssumption
<1>7. owned' \subseteq PaymentUser /\ credits' \subseteq [user : PaymentUser, purchase : Purchase]
  BY <1>5, <1>6 DEF grant, CommerceTypeOK
<1>8. QED
  BY <1>3, <1>4, <1>5, <1>7

LEMMA OpenPurchaseStep ==
  ASSUME SessionsCore, NEW n \in PaymentNode, NEW p \in Purchase, open_purchase(n, p)
  PROVE  /\ SessionsCore' /\ UNCHANGED <<owned, credits, gateway, sent, inbox>>
         /\ purchase[p].status = "NONE" /\ purchase'[p].status = "PENDING" /\ \A q \in Purchase : q # p => purchase'[q] = purchase[q]
         /\ session'[n].at = "session" /\ session'[n].p = p /\ (\A q \in Purchase : session'[n].cache[q] = Null)
         /\ \A m \in PaymentNode : m # n => session'[m] = session[m]
<1> DEFINE new == [IdleSession EXCEPT !.at = "session", !.p = p]
           row == [purchase[p] EXCEPT !.status = "PENDING"]
<1>1. new \in PaymentSession /\ new.at = "session" /\ new.p = p /\ new.todo = {} /\ \A q \in Purchase : new.cache[q] = Null
  BY IdleSessionType DEF PaymentSession
<1>2. row \in PurchaseRow /\ row.status = "PENDING"
  BY DEF SessionsCore, CommerceTypeOK, PurchaseRow, PurchaseStatus
<1>3. session' = [session EXCEPT ![n] = new] /\ purchase' = [purchase EXCEPT ![p] = row] /\ purchase[p].status = "NONE"
      /\ UNCHANGED <<owned, credits, gateway, sent, inbox, deliveries, failures>>
  BY DEF open_purchase
<1> HIDE DEF new, row
<1>4. session' \in [PaymentNode -> PaymentSession] /\ session'[n] = new /\ \A m \in PaymentNode : m # n => session'[m] = session[m]
  BY <1>1, <1>3, SessionWrite DEF SessionsCore
<1>5. purchase' \in [Purchase -> PurchaseRow] /\ purchase'[p] = row /\ \A q \in Purchase : q # p => purchase'[q] = purchase[q]
  BY <1>2, <1>3 DEF SessionsCore, CommerceTypeOK
<1>6. CommerceTypeOK' /\ \A f \in Notice : inbox'[f].status # "NONE" => f \in sent'
  BY <1>3, <1>4, <1>5 DEF SessionsCore, CommerceTypeOK, Heard
<1>7. SessionsCore'
  BY <1>1, <1>3, <1>4, <1>6, SessionsKept
<1>8. QED
  BY <1>1, <1>2, <1>3, <1>4, <1>5, <1>7

LEMMA OpenSessionStep ==
  ASSUME SessionsCore, OpensAlone, NEW n \in PaymentNode, open_session(n)
  PROVE  /\ SessionsCore' /\ UNCHANGED <<purchase, owned, credits, sent, inbox>>
         /\ session[n].at = "session" /\ session[n].p \in Purchase
         /\ gateway'[session[n].p] = "open" /\ \A q \in Purchase : q # session[n].p => gateway'[q] = gateway[q]
         /\ session'[n] = IdleSession /\ \A m \in PaymentNode : m # n => session'[m] = session[m]
<1>1. session[n].at = "session" /\ session[n].p \in Purchase /\ session' = [session EXCEPT ![n] = IdleSession] /\ gateway' = [gateway EXCEPT ![session[n].p] = "open"]
      /\ UNCHANGED <<purchase, owned, credits, sent, inbox, deliveries, failures>>
  BY DEF open_session, SessionAt, OpensAlone
<1>2. session' \in [PaymentNode -> PaymentSession] /\ session'[n] = IdleSession /\ \A m \in PaymentNode : m # n => session'[m] = session[m]
  BY <1>1, IdleSessionType, SessionWrite DEF SessionsCore
<1>3. CommerceTypeOK' /\ \A f \in Notice : inbox'[f].status # "NONE" => f \in sent'
  BY <1>1, <1>2 DEF SessionsCore, CommerceTypeOK, Heard
<1>4. SessionsCore'
  BY <1>1, <1>2, <1>3, IdleSessionType, SessionsKept DEF Lets
<1>5. QED
  BY <1>1, <1>2, <1>4 DEF SessionsCore, CommerceTypeOK

LEMMA RefusedStep ==
  ASSUME SessionsCore, OpensAlone, NEW n \in PaymentNode, SessionRefused(n)
  PROVE  /\ SessionsCore' /\ UNCHANGED <<owned, credits, sent, inbox>>
         /\ session[n].at = "session" /\ session[n].p \in Purchase
         /\ purchase'[session[n].p].status = "FAILED" /\ (\A q \in Purchase : q # session[n].p => purchase'[q] = purchase[q])
         /\ gateway'[session[n].p] \in {"none", "unreached"} /\ (\A q \in Purchase : q # session[n].p => gateway'[q] = gateway[q])
         /\ session'[n] = IdleSession /\ \A m \in PaymentNode : m # n => session'[m] = session[m]
<1>1. session[n].at = "session" /\ session[n].p \in Purchase /\ session' = [session EXCEPT ![n] = IdleSession]
      /\ MovePurchase(session[n].p, "FAILED", FALSE) /\ UNCHANGED <<sent, inbox, deliveries, failures>>
  BY DEF SessionRefused, SessionAt, OpensAlone
<1>2. PICK stage \in {"none", "unreached"} : gateway' = [gateway EXCEPT ![session[n].p] = stage]
  BY DEF SessionRefused
<1>3. session' \in [PaymentNode -> PaymentSession] /\ session'[n] = IdleSession /\ \A m \in PaymentNode : m # n => session'[m] = session[m]
  BY <1>1, IdleSessionType, SessionWrite DEF SessionsCore
<1>4. /\ purchase' \in [Purchase -> PurchaseRow] /\ purchase'[session[n].p].status = "FAILED" /\ \A q \in Purchase : q # session[n].p => purchase'[q] = purchase[q]
      /\ UNCHANGED <<owned, credits>>
  <2>1. "FAILED" \in PurchaseStatus /\ FALSE \in BOOLEAN
    BY DEF PurchaseStatus
  <2>2. QED
    BY <1>1, <2>1, MoveWrite DEF SessionsCore
<1>5. CommerceTypeOK' /\ \A f \in Notice : inbox'[f].status # "NONE" => f \in sent'
  BY <1>1, <1>2, <1>3, <1>4 DEF SessionsCore, CommerceTypeOK, Heard
<1>6. SessionsCore'
  BY <1>1, <1>3, <1>4, <1>5, IdleSessionType, SessionsKept DEF Lets
<1>7. QED
  BY <1>1, <1>2, <1>3, <1>4, <1>6 DEF SessionsCore, CommerceTypeOK

LEMMA RaiseStep ==
  ASSUME SessionsCore, NEW p \in Purchase, NEW kind \in Kinds, Raise(p, kind)
  PROVE  /\ SessionsCore' /\ UNCHANGED <<purchase, owned, credits, inbox, session>>
         /\ gateway'[p] = kind /\ (\A q \in Purchase : q # p => gateway'[q] = gateway[q])
         /\ sent' = sent \cup {<<p, kind>>} /\ kind \in Follows(gateway[p])
<1>1. kind \in Follows(gateway[p]) /\ gateway' = [gateway EXCEPT ![p] = kind] /\ sent' = sent \cup {<<p, kind>>}
      /\ UNCHANGED <<purchase, owned, credits, inbox, session, deliveries, failures>>
  BY DEF Raise
<1>2. <<p, kind>> \in Notice /\ kind \in SessionKinds \cup PaymentKinds
  BY CommerceAssumption DEF Notice
<1>3. CommerceTypeOK' /\ \A f \in Notice : inbox'[f].status # "NONE" => f \in sent'
  BY <1>1, <1>2 DEF SessionsCore, CommerceTypeOK, Heard
<1>4. SessionsCore'
  BY <1>1, <1>3, SessionsKept
<1>5. QED
  BY <1>1, <1>4 DEF SessionsCore, CommerceTypeOK

\* The move lands on the status it was decided on, or the session reads again.
LEMMA SettleStep ==
  ASSUME SessionsCore, NEW n \in PaymentNode, SettleMoves(n)
  PROVE  \E e \in sent, p \in Purchase :
           /\ e = session[n].e /\ e \in Notice /\ p = e[1]
           /\ SessionsCore' /\ UNCHANGED <<gateway, sent, inbox>>
           /\ (\A m \in PaymentNode : m # n => session'[m] = session[m])
           /\ session[n].at = "write"
           /\ session'[n].e = e /\ session'[n].cache[p] = purchase'[p].status /\ (\A q \in Purchase : q # p => session'[n].cache[q] = session[n].cache[q])
           /\ \/ /\ session'[n].at = "write" /\ UNCHANGED <<purchase, owned, credits>>
              \/ /\ session'[n].at = "record" /\ Moves(purchase[p].status, payment_of(e[2])) /\ purchase[p].status \in PurchaseStatus
                 /\ purchase'[p].status = payment_of(e[2]) /\ (\A q \in Purchase : q # p => purchase'[q] = purchase[q])
                 /\ IF payment_of(e[2]) = "PAID" THEN grant(p) ELSE UNCHANGED <<owned, credits>>
<1>1. session[n] \in PaymentSession /\ session[n].at = "write" /\ UNCHANGED <<gateway, sent, inbox, deliveries, failures>>
  BY DEF SettleMoves, SessionAt, SessionsCore, CommerceTypeOK
<1>2. PICK e \in sent : e = session[n].e /\ e \in Notice /\ e[2] \in SessionKinds \cup PaymentKinds /\ e[1] \in Purchase
  BY <1>1, OnOf DEF OnNotice
<1>3. PICK p \in Purchase : p = e[1]
  BY <1>2
<1> DEFINE said == payment_of(e[2])
           new(at, status) == Knows(session[n], at, p, status)
<1>4. said \in PurchaseStatus
  BY <1>2, PaymentOf
<1>5. /\ Moves(session[n].cache[p], said)
      /\ \/ purchase[p].status = session[n].cache[p] /\ MovePurchase(p, said, TRUE) /\ session' = [session EXCEPT ![n] = new("record", said)]
         \/ purchase[p].status # session[n].cache[p] /\ session' = [session EXCEPT ![n] = new("write", purchase[p].status)] /\ UNCHANGED <<purchase, owned, credits>>
  BY <1>2, <1>3 DEF SettleMoves
<1>6. session[n].cache \in [Purchase -> PurchaseStatus \cup {Null}] /\ session[n].cache[p] \in PurchaseStatus
  BY <1>1, <1>2, <1>3 DEF PaymentSession, SessionsCore, HasRead
<1>7. ASSUME NEW at \in {"write", "record"}, NEW status \in PurchaseStatus, session' = [session EXCEPT ![n] = new(at, status)]
      PROVE  /\ session' \in [PaymentNode -> PaymentSession] /\ (\A m \in PaymentNode : m # n => session'[m] = session[m])
             /\ session'[n].at = at /\ session'[n].e = e /\ session'[n].todo = session[n].todo
             /\ session'[n].cache[p] = status /\ (\A q \in Purchase : q # p => session'[n].cache[q] = session[n].cache[q])
  <2>1. new(at, status) \in PaymentSession /\ new(at, status).at = at /\ new(at, status).e = e /\ new(at, status).todo = session[n].todo
        /\ new(at, status).cache = [session[n].cache EXCEPT ![p] = status]
    BY <1>1, <1>2, <1>6 DEF Knows, PaymentSession
  <2>2. session' = [session EXCEPT ![n] = new(at, status)]
    BY <1>7
  <2> HIDE DEF new
  <2>3. session' \in [PaymentNode -> PaymentSession] /\ session'[n] = new(at, status) /\ \A m \in PaymentNode : m # n => session'[m] = session[m]
    BY <2>1, <2>2, SessionWrite DEF SessionsCore
  <2>4. QED
    BY <1>6, <2>1, <2>3
<1> HIDE DEF new, said
<1>8. CASE purchase[p].status = session[n].cache[p] /\ MovePurchase(p, said, TRUE) /\ session' = [session EXCEPT ![n] = new("record", said)]
  <2>1. /\ purchase' \in [Purchase -> PurchaseRow] /\ purchase'[p].status = said /\ (\A q \in Purchase : q # p => purchase'[q] = purchase[q])
        /\ owned' \subseteq PaymentUser /\ credits' \subseteq [user : PaymentUser, purchase : Purchase]
        /\ IF said = "PAID" THEN grant(p) ELSE UNCHANGED <<owned, credits>>
    BY <1>4, <1>8, MoveWrite DEF SessionsCore
  <2>2. /\ session' \in [PaymentNode -> PaymentSession] /\ (\A m \in PaymentNode : m # n => session'[m] = session[m])
        /\ session'[n].at = "record" /\ session'[n].e = e /\ session'[n].todo = session[n].todo
        /\ session'[n].cache[p] = said /\ (\A q \in Purchase : q # p => session'[n].cache[q] = session[n].cache[q])
    BY <1>4, <1>7, <1>8
  <2>3. CommerceTypeOK' /\ \A f \in Notice : inbox'[f].status # "NONE" => f \in sent'
    BY <1>1, <2>1, <2>2 DEF SessionsCore, CommerceTypeOK, Heard
  <2>4. SessionsCore'
    BY <1>1, <1>2, <1>4, <2>1, <2>2, <2>3, SessionsKept DEF Working, PurchaseStatus
  <2>5. QED
    BY <1>1, <1>2, <1>3, <1>5, <1>6, <1>8, <2>1, <2>2, <2>4 DEF said
<1>9. CASE session' = [session EXCEPT ![n] = new("write", purchase[p].status)] /\ UNCHANGED <<purchase, owned, credits>>
  <2>1. purchase[p].status \in PurchaseStatus
    BY <1>1, <1>2, <1>3 DEF SessionsCore, HasRead, CommerceTypeOK, PurchaseRow
  <2>2. /\ session' \in [PaymentNode -> PaymentSession] /\ (\A m \in PaymentNode : m # n => session'[m] = session[m])
        /\ session'[n].at = "write" /\ session'[n].e = e /\ session'[n].todo = session[n].todo
        /\ session'[n].cache[p] = purchase[p].status /\ (\A q \in Purchase : q # p => session'[n].cache[q] = session[n].cache[q])
    BY <1>7, <1>9, <2>1
  <2>3. CommerceTypeOK' /\ \A f \in Notice : inbox'[f].status # "NONE" => f \in sent'
    BY <1>1, <1>9, <2>2 DEF SessionsCore, CommerceTypeOK, Heard
  <2>4. purchase[p].status # "NONE"
    BY <1>1, <1>2, <1>3 DEF SessionsCore, HasRead
  <2>5. SessionsCore'
    BY <1>1, <1>2, <1>3, <1>9, <2>1, <2>2, <2>3, <2>4, SessionsKept DEF Working
  <2>6. QED
    BY <1>1, <1>2, <1>3, <1>9, <2>2, <2>5
<1>10. QED
  BY <1>5, <1>8, <1>9
-----------------------------------------------------------------------------
(* Ownership and credits.                                                  *)

LEMMA FollowsOf ==
  ASSUME NEW stage, NEW kind \in Follows(stage)
  PROVE  \/ stage = "open" /\ kind \in {"unpaid", "paid", "expired"}
         \/ stage = "unreached" /\ kind = "expired"
         \/ stage = "unpaid" /\ kind \in {"paid", "failed"}
         \/ stage = "paid" /\ kind \in {"refunded", "lost", "won"}
         \/ stage = "lost" /\ kind = "won"
         \/ stage = "won" /\ kind = "refunded"
<1>1. CASE stage \in {"open", "unreached", "unpaid", "paid", "lost", "won"}
  BY <1>1 DEF Follows
<1>2. CASE stage \notin {"open", "unreached", "unpaid", "paid", "lost", "won"}
  <2>1. Follows(stage) = {}
    BY <1>2 DEF Follows
  <2>2. QED
    BY <2>1
<1>3. QED
  BY <1>1, <1>2

\* Nothing that happens beside the purchases moves who owns or was credited what.
LEMMA AsideMoney ==
  ASSUME OpensAlone, MoneyCore, Aside
  PROVE  OpensAlone' /\ MoneyCore'
<1>1. UNCHANGED <<purchase, owned, credits, gateway, sent>> /\ \A m \in PaymentNode : session'[m].at = "session" => session'[m] = session[m]
  BY DEF Aside
<1>2. OpensAlone'
  BY <1>1 DEF OpensAlone, Unheard
<1>3. MoneyCore'
  BY <1>1 DEF MoneyCore, PaidFirst, PaidIsOwned, OwnedIsPaidFor, OneCredit
<1>4. QED
  BY <1>2, <1>3

\* A checkout opens on a purchase no gateway has heard of.
LEMMA OpenPurchaseMoney ==
  ASSUME SessionsCore, OpensAlone, MoneyCore, NEW n \in PaymentNode, NEW p \in Purchase, open_purchase(n, p)
  PROVE  OpensAlone' /\ MoneyCore'
<1>1. /\ UNCHANGED <<owned, credits, gateway, sent, inbox>>
      /\ purchase[p].status = "NONE" /\ purchase'[p].status = "PENDING" /\ \A q \in Purchase : q # p => purchase'[q] = purchase[q]
      /\ session'[n].at = "session" /\ session'[n].p = p /\ \A m \in PaymentNode : m # n => session'[m] = session[m]
  BY OpenPurchaseStep
<1>2. \A m \in PaymentNode : session[m].at = "session" => session[m].p # p
  BY <1>1 DEF OpensAlone, Unheard
<1>3. OpensAlone'
  BY <1>1, <1>2 DEF OpensAlone, Unheard
<1>4. MoneyCore'
  BY <1>1 DEF MoneyCore, PaidFirst, PaidIsOwned, OwnedIsPaidFor, OneCredit
<1>5. QED
  BY <1>3, <1>4

\* The session opens, or is refused, on a payment nothing was said of.
LEMMA OpenSessionMoney ==
  ASSUME SessionsCore, OpensAlone, MoneyCore, NEW n \in PaymentNode, open_session(n) \/ SessionRefused(n)
  PROVE  OpensAlone' /\ MoneyCore'
<1>1. PICK p \in Purchase : p = session[n].p /\ session[n].at = "session"
  BY OpenSessionStep, RefusedStep
<1>2. /\ UNCHANGED <<owned, credits, sent, inbox>> /\ session'[n] = IdleSession /\ (\A m \in PaymentNode : m # n => session'[m] = session[m])
      /\ gateway'[p] \in {"open", "none", "unreached"} /\ (\A q \in Purchase : q # p => gateway'[q] = gateway[q])
      /\ (purchase'[p].status = "FAILED" \/ purchase'[p] = purchase[p]) /\ \A q \in Purchase : q # p => purchase'[q] = purchase[q]
  BY <1>1, OpenSessionStep, RefusedStep
<1>3. \A m \in PaymentNode : (m # n /\ session[m].at = "session") => session[m].p # p
  BY <1>1 DEF OpensAlone, Unheard
<1>4. OpensAlone'
  BY <1>1, <1>2, <1>3, IdleSessionType DEF OpensAlone, Unheard
<1>5. MoneyCore'
  BY <1>2 DEF MoneyCore, PaidFirst, PaidIsOwned, OwnedIsPaidFor, OneCredit
<1>6. QED
  BY <1>4, <1>5

\* What a gateway says of a payment comes after it was made.
LEMMA RaiseMoney ==
  ASSUME SessionsCore, OpensAlone, MoneyCore, NEW p \in Purchase, NEW kind \in Kinds, Raise(p, kind)
  PROVE  OpensAlone' /\ MoneyCore'
<1>1. /\ UNCHANGED <<purchase, owned, credits, inbox, session>>
      /\ gateway'[p] = kind /\ (\A q \in Purchase : q # p => gateway'[q] = gateway[q])
      /\ sent' = sent \cup {<<p, kind>>} /\ kind \in Follows(gateway[p])
  BY RaiseStep
<1>2. gateway[p] \in {"open", "unreached", "unpaid", "paid", "lost", "won"} /\ (kind \in {"won", "lost", "refunded"} => gateway[p] \in {"paid", "lost", "won"})
  BY <1>1, FollowsOf
<1>3. \A m \in PaymentNode : session[m].at = "session" => session[m].p # p
  BY <1>2 DEF OpensAlone, Unheard
<1>4. OpensAlone'
  BY <1>1, <1>2, <1>3 DEF OpensAlone, Unheard
<1>5. PaidFirst'
  <2>1. kind \in {"won", "lost", "refunded"} => <<p, "paid">> \in sent
    BY <1>2 DEF MoneyCore, PaidFirst
  <2>2. ASSUME NEW q \in Purchase, NEW k \in {"won", "lost", "refunded"}, <<q, k>> \in sent' PROVE <<q, "paid">> \in sent'
    <3>1. <<q, k>> \in sent \/ (q = p /\ k = kind)
      BY <1>1, <2>2
    <3>2. QED
      BY <1>1, <2>1, <3>1 DEF MoneyCore, PaidFirst
  <2>3. ASSUME NEW q \in Purchase, gateway'[q] \in {"paid", "won", "lost", "refunded"} PROVE <<q, "paid">> \in sent'
    <3>1. CASE q = p
      BY <1>1, <2>1, <2>3, <3>1
    <3>2. CASE q # p
      BY <1>1, <2>3, <3>2 DEF MoneyCore, PaidFirst
    <3>3. QED
      BY <3>1, <3>2
  <2>4. QED
    BY <2>2, <2>3 DEF PaidFirst
<1>6. (PaidIsOwned /\ OwnedIsPaidFor /\ OneCredit)'
  BY <1>1 DEF MoneyCore, PaidIsOwned, OwnedIsPaidFor, OneCredit
<1>7. QED
  BY <1>4, <1>5, <1>6 DEF MoneyCore

\* Whoever is handed the product owns it and is credited, once.
LEMMA GrantMoney ==
  ASSUME MoneyCore, NEW p \in Purchase, <<p, "paid">> \in sent, UNCHANGED <<gateway, sent>>, grant(p),
         \A q \in Purchase : q # p => purchase'[q] = purchase[q]
  PROVE  MoneyCore'
<1> DEFINE new == [user |-> Buyer[p], purchase |-> p]
<1>1. PaidFirst'
  BY DEF MoneyCore, PaidFirst
<1>2. owned' = owned \cup {Buyer[p]}
  BY DEF grant
<1>3. PaidIsOwned' /\ OwnedIsPaidFor'
  BY <1>2 DEF MoneyCore, PaidIsOwned, OwnedIsPaidFor
<1>4. OneCredit'
  <2>1. CASE Buyer[p] \in owned
    BY <2>1 DEF grant, MoneyCore, OneCredit
  <2>2. CASE Buyer[p] \notin owned
    <3>1. credits' = credits \cup {new} /\ new.user = Buyer[p]
      BY <2>2 DEF grant
    <3> HIDE DEF new
    <3>2. QED
      BY <1>2, <2>2, <3>1 DEF MoneyCore, OneCredit
  <2>3. QED
    BY <2>1, <2>2
<1>5. QED
  BY <1>1, <1>3, <1>4 DEF MoneyCore

LEMMA SettleMoney ==
  ASSUME SessionsCore, OpensAlone, MoneyCore, NEW n \in PaymentNode, SettleMoves(n)
  PROVE  OpensAlone' /\ MoneyCore'
<1>1. PICK e \in sent, p \in Purchase :
        /\ e = session[n].e /\ e \in Notice /\ p = e[1]
        /\ UNCHANGED <<gateway, sent, inbox>> /\ (\A m \in PaymentNode : m # n => session'[m] = session[m])
        /\ session'[n].at \in {"write", "record"}
        /\ \/ UNCHANGED <<purchase, owned, credits>>
           \/ /\ purchase'[p].status = payment_of(e[2]) /\ (\A q \in Purchase : q # p => purchase'[q] = purchase[q])
              /\ IF payment_of(e[2]) = "PAID" THEN grant(p) ELSE UNCHANGED <<owned, credits>>
  BY SettleStep
<1>2. \A m \in PaymentNode : session[m].at = "session" => session[m].p # p
  BY <1>1 DEF OpensAlone, Unheard
<1>5. e[2] \in SessionKinds \cup PaymentKinds /\ e = <<p, e[2]>> /\ payment_of(e[2]) \in PurchaseStatus
  BY <1>1, NoticeOf, PaymentOf
<1>3. OpensAlone'
  BY <1>1, <1>2, <1>5 DEF OpensAlone, Unheard, PurchaseStatus
<1>4. CASE UNCHANGED <<purchase, owned, credits>>
  BY <1>1, <1>3, <1>4 DEF MoneyCore, PaidFirst, PaidIsOwned, OwnedIsPaidFor, OneCredit
<1>6. CASE purchase'[p].status = payment_of(e[2]) /\ payment_of(e[2]) = "PAID" /\ grant(p) /\ \A q \in Purchase : q # p => purchase'[q] = purchase[q]
  <2>1. e[2] \in {"paid", "won"}
    BY <1>5, <1>6, PaymentOf
  <2>2. <<p, "paid">> \in sent
    BY <1>1, <1>5, <2>1 DEF MoneyCore, PaidFirst
  <2>3. QED
    BY <1>1, <1>3, <1>6, <2>2, GrantMoney
<1>7. CASE purchase'[p].status = payment_of(e[2]) /\ payment_of(e[2]) # "PAID" /\ UNCHANGED <<owned, credits>> /\ \A q \in Purchase : q # p => purchase'[q] = purchase[q]
  BY <1>1, <1>3, <1>7 DEF MoneyCore, PaidFirst, PaidIsOwned, OwnedIsPaidFor, OneCredit
<1>8. QED
  BY <1>1, <1>3, <1>4, <1>6, <1>7
-----------------------------------------------------------------------------
(* Agreement with the gateway.                                             *)

\* What was said is what a notice that was sent says.
LEMMA Says ==
  ASSUME NEW p \in Purchase, NEW e \in sent, e \in Notice, e[1] = p, ~Disputed(p)
  PROVE  /\ payment_of(e[2]) \in {"PENDING", "PAID", "FAILED", "CANCELED", "REFUNDED"}
         /\ payment_of(e[2]) = "FAILED" => <<p, "failed">> \in sent
         /\ payment_of(e[2]) = "CANCELED" => <<p, "expired">> \in sent
         /\ payment_of(e[2]) = "REFUNDED" => <<p, "refunded">> \in sent
         /\ payment_of(e[2]) = "PAID" => <<p, "paid">> \in sent \/ <<p, "won">> \in sent
         /\ e[2] = "expired" => payment_of(e[2]) = "CANCELED"
         /\ e[2] \in {"unpaid", "failed"} => payment_of(e[2]) \in {"PENDING", "FAILED"}
<1>1. e = <<p, e[2]>> /\ e[2] \in SessionKinds \cup PaymentKinds
  BY NoticeOf
<1>2. e[2] # "lost"
  BY <1>1 DEF Disputed
<1>3. QED
  BY <1>1, <1>2, PaymentOf DEF PurchaseStatus

\* A move that may land goes the one way a purchase goes.
LEMMA Along ==
  ASSUME OneWay, Backed, NEW p \in Purchase, NEW e \in sent, e \in Notice, e[1] = p, ~Disputed(p),
         purchase[p].status \in PurchaseStatus, Moves(purchase[p].status, payment_of(e[2]))
  PROVE  Past(purchase[p].status, payment_of(e[2]))
<1> DEFINE status == purchase[p].status
           said == payment_of(e[2])
<1>1. said \in {"PAID", "FAILED", "CANCELED", "REFUNDED"} /\ status # said /\ status # "REFUNDED" /\ ~(status \in SETTLED_PURCHASE_STATUSES /\ said \notin SETTLED_PURCHASE_STATUSES)
  BY Says DEF Moves
<1>2. CASE status = "PENDING"
  BY <1>2 DEF Past
<1>3. CASE status = "FAILED"
  <2>1. gateway[p] \in {"expired", "failed"}
    BY <1>3 DEF OneWay, Backed
  <2>2. <<p, gateway[p]>> \in sent
    BY <2>1 DEF OneWay, SessionKinds, PaymentKinds
  <2>3. e[2] = "expired" \/ e[2] \in {"unpaid", "failed"}
    BY <2>1, <2>2 DEF OneWay
  <2>4. QED
    BY <1>1, <1>3, <2>3, Says DEF Past
<1>4. CASE status = "CANCELED"
  <2>1. e[2] = "expired"
    BY <1>4 DEF OneWay, Backed
  <2>2. QED
    BY <1>1, <1>4, <2>1, Says
<1>5. CASE status = "PAID"
  BY <1>1, <1>5 DEF Past, SETTLED_PURCHASE_STATUSES
<1>6. QED
  BY <1>1, <1>2, <1>3, <1>4, <1>5 DEF Backed, PurchaseStatus

\* A purchase that goes the one way absorbs what it absorbed.
LEMMA StaysAbsorbed ==
  ASSUME OneWay, NEW p \in Purchase, NEW f \in sent, f \in Notice, f[1] = p, ~Disputed(p), NEW is, NEW next,
         Absorbed(is, payment_of(f[2])), Past(is, next), next = "CANCELED" => <<p, "expired">> \in sent
  PROVE  Absorbed(next, payment_of(f[2]))
<1>1. next = "CANCELED" => payment_of(f[2]) = "CANCELED"
  BY Says DEF OneWay
<1>2. QED
  BY <1>1 DEF Absorbed, Past

\* A notice that finds nothing to move is one the purchase absorbs, though the session read the purchase earlier.
LEMMA SettledAbsorbed ==
  ASSUME OneWay, Backed, NEW p \in Purchase, NEW e \in sent, e \in Notice, e[1] = p, ~Disputed(p),
         NEW was \in PurchaseStatus, Past(was, purchase[p].status), ~Moves(was, payment_of(e[2]))
  PROVE  Absorbed(purchase[p].status, payment_of(e[2]))
<1> DEFINE status == purchase[p].status
           said == payment_of(e[2])
<1>1. status = "CANCELED" => said = "CANCELED"
  BY Says DEF OneWay, Backed
<1>2. status = "REFUNDED" => gateway[p] = "refunded"
  BY DEF OneWay, Backed
<1>3. status \in {"PAID", "REFUNDED"} => said \in {"PENDING", "PAID", "REFUNDED"}
  <2>1. CASE status = "PAID"
    <3>1. <<p, "paid">> \in sent
      BY <2>1 DEF Backed
    <3>2. <<p, "expired">> \notin sent /\ <<p, "failed">> \notin sent
      BY <3>1 DEF OneWay
    <3>3. QED
      BY <3>2, Says
  <2>2. CASE status = "REFUNDED"
    <3>1. <<p, "expired">> \notin sent /\ <<p, "failed">> \notin sent
      BY <1>2, <2>2 DEF OneWay
    <3>2. QED
      BY <3>1, Says
  <2>3. QED
    BY <2>1, <2>2
<1>4. status # "CHARGED_BACK" /\ said \in {"PENDING", "PAID", "FAILED", "CANCELED", "REFUNDED"}
  BY Says DEF Backed
<1>5. said = "REFUNDED" => gateway[p] = "refunded"
  BY Says DEF OneWay
<1>6. was = said \/ said = "PENDING" \/ was = "REFUNDED" \/ (was \in SETTLED_PURCHASE_STATUSES /\ said \notin SETTLED_PURCHASE_STATUSES)
  BY DEF Moves
<1>7. CASE was = said
  BY <1>1, <1>7 DEF Past, Absorbed
<1>8. CASE was = "REFUNDED"
  BY <1>3, <1>8 DEF Past, Absorbed
<1>9. CASE was \in SETTLED_PURCHASE_STATUSES /\ said \notin SETTLED_PURCHASE_STATUSES
  BY <1>3, <1>4, <1>9 DEF Past, Absorbed, SETTLED_PURCHASE_STATUSES
<1>10. QED
  BY <1>6, <1>7, <1>8, <1>9 DEF Absorbed

\* A step beside the purchases completes only what is absorbed.
LEMMA AsideAgreement ==
  ASSUME SessionsCore, SessionsCore', Agreement, Aside
  PROVE  Agreement'
<1>1. UNCHANGED <<purchase, gateway, sent>>
  BY DEF Aside
<1>2. (OneWay /\ Backed)'
  BY <1>1 DEF Agreement, OneWay, Backed, Disputed
<1>3. ReadBefore'
  BY <1>1 DEF Aside, Agreement, ReadBefore, Past, Disputed
<1>4. ASSUME NEW e \in sent, ~Disputed(e[1]), inbox'[e].status = "COMPLETED" PROVE Absorbed(purchase[e[1]].status, payment_of(e[2]))
  <2>1. e \in Notice /\ e[1] \in Purchase
    BY NoticeOf DEF SessionsCore, CommerceTypeOK
  <2>2. CASE inbox[e].status = "COMPLETED"
    BY <1>4, <2>2 DEF Agreement, AllAbsorbed
  <2>3. ASSUME NEW n \in PaymentNode, Settles(n, e) PROVE Absorbed(purchase[e[1]].status, payment_of(e[2]))
    <3>1. CASE session[n].at = "record"
      BY <1>4, <2>3, <3>1 DEF Settles, Agreement, AllAbsorbed
    <3>2. CASE session[n].at = "write" /\ ~Moves(session[n].cache[e[1]], payment_of(e[2]))
      <4>1. session[n].cache[e[1]] \in PurchaseStatus /\ session[n].cache[e[1]] # Null
        BY <2>3, <3>2, CommerceAssumption DEF Settles, SessionsCore, HasRead
      <4>2. Past(session[n].cache[e[1]], purchase[e[1]].status)
        BY <1>4, <2>1, <4>1 DEF Agreement, ReadBefore
      <4>3. QED
        BY <1>4, <2>1, <3>2, <4>1, <4>2, SettledAbsorbed DEF Agreement
    <3>3. QED
      BY <2>3, <3>1, <3>2 DEF Settles
  <2>4. QED
    BY <1>4, <2>1, <2>2, <2>3 DEF Aside
<1>5. AllAbsorbed'
  BY <1>1, <1>4 DEF Aside, Agreement, AllAbsorbed, Disputed
<1>6. QED
  BY <1>2, <1>3, <1>5 DEF Agreement
LEMMA OpenPurchaseAgreement ==
  ASSUME SessionsCore, OpensAlone, Agreement, NEW n \in PaymentNode, NEW p \in Purchase, open_purchase(n, p)
  PROVE  Agreement'
<1>1. /\ UNCHANGED <<gateway, sent, inbox>>
      /\ purchase[p].status = "NONE" /\ purchase'[p].status = "PENDING" /\ \A q \in Purchase : q # p => purchase'[q] = purchase[q]
      /\ session'[n].at = "session" /\ (\A q \in Purchase : session'[n].cache[q] = Null) /\ \A m \in PaymentNode : m # n => session'[m] = session[m]
  BY OpenPurchaseStep
<1>2. \A e \in sent : e \in Notice /\ e[1] \in Purchase /\ e[1] # p
  BY <1>1, NoticeOf DEF OpensAlone, Unheard, SessionsCore, CommerceTypeOK
<1>3. (OneWay /\ Backed)'
  <2>1. OneWay'
    BY <1>1 DEF Agreement, OneWay, Disputed
  <2>2. Backed'
    <3> SUFFICES ASSUME NEW q \in Purchase, ~Disputed(q)'
                 PROVE  (/\ purchase[q].status = "FAILED" => gateway[q] \in {"none", "unreached", "expired", "failed"}
                         /\ purchase[q].status = "CANCELED" => <<q, "expired">> \in sent
                         /\ purchase[q].status = "PAID" => <<q, "paid">> \in sent
                         /\ purchase[q].status = "REFUNDED" => <<q, "refunded">> \in sent
                         /\ purchase[q].status # "CHARGED_BACK")'
      BY DEF Backed
    <3>1. CASE q = p
      BY <1>1, <3>1
    <3>2. CASE q # p
      <4>1. ~Disputed(q) /\ purchase'[q] = purchase[q] /\ sent' = sent /\ gateway' = gateway
        BY <1>1, <3>2 DEF Disputed
      <4>2. QED
        BY <4>1 DEF Agreement, Backed
    <3>3. QED
      BY <3>1, <3>2
  <2>3. QED
    BY <2>1, <2>2
<1>4. ReadBefore'
  <2>1. \A m \in PaymentNode : session[m].cache[p] \in PurchaseStatus \cup {Null}
    BY DEF SessionsCore, CommerceTypeOK, PaymentSession
  <2>2. \A m \in PaymentNode : (~Disputed(p) /\ session[m].cache[p] # Null) => session[m].cache[p] = "PENDING"
    BY <1>1, <2>1 DEF Agreement, ReadBefore, Past, PurchaseStatus
  <2>3. QED
    BY <1>1, <2>2 DEF Agreement, ReadBefore, Past, Disputed
<1>5. AllAbsorbed'
  <2>1. \A m \in PaymentNode : session[m].at = "record" => session[m].e \in sent
    BY OnOf DEF OnNotice
  <2>2. QED
    BY <1>1, <1>2, <2>1 DEF Agreement, AllAbsorbed, Disputed
<1>6. QED
  BY <1>3, <1>4, <1>5 DEF Agreement

LEMMA OpenSessionAgreement ==
  ASSUME SessionsCore, OpensAlone, Agreement, NEW n \in PaymentNode, open_session(n) \/ SessionRefused(n)
  PROVE  Agreement'
<1>1. PICK p \in Purchase : p = session[n].p /\ session[n].at = "session"
  BY OpenSessionStep, RefusedStep
<1>2. /\ UNCHANGED <<sent, inbox>> /\ session'[n] = IdleSession /\ (\A m \in PaymentNode : m # n => session'[m] = session[m])
      /\ (\A q \in Purchase : q # p => gateway'[q] = gateway[q]) /\ (\A q \in Purchase : q # p => purchase'[q] = purchase[q])
      /\ \/ gateway'[p] = "open" /\ purchase'[p] = purchase[p]
         \/ gateway'[p] \in {"none", "unreached"} /\ purchase'[p].status = "FAILED"
  BY <1>1, OpenSessionStep, RefusedStep
<1>3. purchase[p].status = "PENDING" /\ \A e \in sent : e \in Notice /\ e[1] \in Purchase /\ e[1] # p
  BY <1>1, NoticeOf DEF OpensAlone, Unheard, SessionsCore, CommerceTypeOK
<1>4. \A kind : <<p, kind>> \notin sent
  BY <1>3
<1>5. OneWay'
  <2> SUFFICES ASSUME NEW q \in Purchase, ~Disputed(q)'
               PROVE  (/\ gateway[q] \in SessionKinds \cup PaymentKinds => <<q, gateway[q]>> \in sent
                       /\ gateway[q] \in {"none", "open", "unreached"} => \A e \in sent : e[1] # q
                       /\ <<q, "expired">> \in sent => gateway[q] = "expired" /\ \A e \in sent : e[1] = q => e[2] = "expired"
                       /\ <<q, "failed">> \in sent => gateway[q] = "failed" /\ \A e \in sent : e[1] = q => e[2] \in {"unpaid", "failed"}
                       /\ <<q, "refunded">> \in sent => gateway[q] = "refunded"
                       /\ gateway[q] = "unpaid" => \A e \in sent : e[1] = q => e[2] = "unpaid")'
    BY DEF OneWay
  <2>1. CASE q = p
    BY <1>2, <1>3, <1>4, <2>1 DEF SessionKinds, PaymentKinds
  <2>2. CASE q # p
    <3>1. ~Disputed(q) /\ gateway'[q] = gateway[q] /\ sent' = sent
      BY <1>2, <2>2 DEF Disputed
    <3>2. QED
      BY <3>1 DEF Agreement, OneWay
  <2>3. QED
    BY <2>1, <2>2
<1>6. Backed'
  BY <1>2, <1>3, <1>4 DEF Agreement, Backed, Disputed
<1>7. ReadBefore'
  BY <1>2, <1>3, IdleSessionType DEF Agreement, ReadBefore, Past, Disputed
<1>8. AllAbsorbed'
  <2>1. \A m \in PaymentNode : session[m].at = "record" => session[m].e \in sent
    BY OnOf DEF OnNotice
  <2>2. QED
    BY <1>2, <1>3, <2>1, IdleSessionType DEF Agreement, AllAbsorbed, Disputed
<1>9. QED
  BY <1>5, <1>6, <1>7, <1>8 DEF Agreement

\* What a gateway says next keeps a payment on its one way, or disputes it.
LEMMA RaiseAgreement ==
  ASSUME SessionsCore, Agreement, NEW p \in Purchase, NEW kind \in Kinds, Raise(p, kind)
  PROVE  Agreement'
<1>1. /\ UNCHANGED <<purchase, inbox, session>>
      /\ gateway'[p] = kind /\ (\A q \in Purchase : q # p => gateway'[q] = gateway[q])
      /\ sent' = sent \cup {<<p, kind>>} /\ kind \in Follows(gateway[p])
  BY RaiseStep
<1>2. \A q \in Purchase : ~Disputed(q)' => ~Disputed(q)
  BY <1>1 DEF Disputed
<1>3. ~Disputed(p)' =>
        \/ gateway[p] = "open" /\ kind \in {"unpaid", "paid", "expired"}
        \/ gateway[p] = "unreached" /\ kind = "expired"
        \/ gateway[p] = "unpaid" /\ kind \in {"paid", "failed"}
        \/ gateway[p] = "paid" /\ kind \in {"refunded", "won"}
        \/ gateway[p] = "won" /\ kind = "refunded"
  <2>1. ~Disputed(p)' => kind # "lost" /\ gateway[p] # "lost"
    BY <1>1, <1>2 DEF Disputed, Agreement, OneWay, SessionKinds, PaymentKinds
  <2>2. QED
    BY <1>1, <2>1, FollowsOf
<1>4. OneWay'
  <2> SUFFICES ASSUME NEW q \in Purchase, ~Disputed(q)'
               PROVE  (/\ gateway[q] \in SessionKinds \cup PaymentKinds => <<q, gateway[q]>> \in sent
                       /\ gateway[q] \in {"none", "open", "unreached"} => \A e \in sent : e[1] # q
                       /\ <<q, "expired">> \in sent => gateway[q] = "expired" /\ \A e \in sent : e[1] = q => e[2] = "expired"
                       /\ <<q, "failed">> \in sent => gateway[q] = "failed" /\ \A e \in sent : e[1] = q => e[2] \in {"unpaid", "failed"}
                       /\ <<q, "refunded">> \in sent => gateway[q] = "refunded"
                       /\ gateway[q] = "unpaid" => \A e \in sent : e[1] = q => e[2] = "unpaid")'
    BY DEF OneWay
  <2>1. CASE q = p
    <3>1. \A e \in sent' : e \in sent \/ (e[1] = p /\ e[2] = kind)
      BY <1>1
    <3>2. \A k : <<p, k>> \in sent' <=> (<<p, k>> \in sent \/ k = kind)
      BY <1>1
    <3>3. /\ gateway[p] \in {"none", "open", "unreached"} => \A e \in sent : e[1] # p
          /\ <<p, "expired">> \in sent => gateway[p] = "expired"
          /\ <<p, "failed">> \in sent => gateway[p] = "failed"
          /\ <<p, "refunded">> \in sent => gateway[p] = "refunded"
          /\ gateway[p] = "unpaid" => \A e \in sent : e[1] = p => e[2] = "unpaid"
      BY <1>2, <2>1 DEF Agreement, OneWay
    <3>4. QED
      BY <1>1, <1>3, <2>1, <3>1, <3>2, <3>3
  <2>2. CASE q # p
    <3>1. ~Disputed(q) /\ gateway'[q] = gateway[q]
      BY <1>1, <1>2, <2>2
    <3>2. \A k : <<q, k>> \in sent' <=> <<q, k>> \in sent
      BY <1>1, <2>2
    <3>3. \A e \in sent' : e[1] = q => e \in sent
      BY <1>1, <2>2
    <3>4. \A e \in sent : e \in sent'
      BY <1>1
    <3>5. QED
      BY <3>1, <3>2, <3>3, <3>4 DEF Agreement, OneWay
  <2>3. QED
    BY <2>1, <2>2
<1>5. Backed'
  BY <1>1, <1>2, <1>3 DEF Agreement, Backed
<1>6. ReadBefore'
  BY <1>1, <1>2 DEF Agreement, ReadBefore
<1>7. AllAbsorbed'
  <2>1. \A e \in sent' : e \in Notice /\ e[1] \in Purchase
    BY <1>1, NoticeOf, RaiseStep DEF SessionsCore, CommerceTypeOK
  <2>2. \A e \in sent' : inbox[e].status = "COMPLETED" => e \in sent
    BY <2>1 DEF SessionsCore, Heard
  <2>3. \A m \in PaymentNode : session[m].at = "record" => session[m].e[1] \in Purchase
    BY OnOf DEF OnNotice
  <2>4. QED
    BY <1>1, <1>2, <2>1, <2>2, <2>3 DEF Agreement, AllAbsorbed
<1>8. QED
  BY <1>4, <1>5, <1>6, <1>7 DEF Agreement

\* A move that lands goes the one way, so whoever read the purchase before read where it was, and what was absorbed stays so.
LEMMA SettleAgreement ==
  ASSUME SessionsCore, MoneyCore, Agreement, NEW n \in PaymentNode, SettleMoves(n)
  PROVE  Agreement'
<1>1. PICK e \in sent, p \in Purchase :
        /\ e = session[n].e /\ e \in Notice /\ p = e[1]
        /\ UNCHANGED <<gateway, sent, inbox>> /\ (\A m \in PaymentNode : m # n => session'[m] = session[m])
        /\ session'[n].e = e /\ session'[n].cache[p] = purchase'[p].status /\ (\A q \in Purchase : q # p => session'[n].cache[q] = session[n].cache[q])
        /\ \/ session'[n].at = "write" /\ UNCHANGED purchase
           \/ /\ session'[n].at = "record" /\ Moves(purchase[p].status, payment_of(e[2])) /\ purchase[p].status \in PurchaseStatus
              /\ purchase'[p].status = payment_of(e[2]) /\ (\A q \in Purchase : q # p => purchase'[q] = purchase[q])
  BY SettleStep
<1>2. OneWay'
  BY <1>1 DEF Agreement, OneWay, Disputed
<1>3. CASE session'[n].at = "write" /\ UNCHANGED purchase
  <2>1. (Backed /\ ReadBefore)'
    BY <1>1, <1>3 DEF Agreement, Backed, ReadBefore, Past, Disputed
  <2>2. AllAbsorbed'
    BY <1>1, <1>3 DEF Agreement, AllAbsorbed, Disputed
  <2>3. QED
    BY <1>2, <2>1, <2>2 DEF Agreement
<1>4. CASE /\ session'[n].at = "record" /\ Moves(purchase[p].status, payment_of(e[2])) /\ purchase[p].status \in PurchaseStatus
           /\ purchase'[p].status = payment_of(e[2]) /\ (\A q \in Purchase : q # p => purchase'[q] = purchase[q])
  <2>1. ~Disputed(p) => Past(purchase[p].status, purchase'[p].status)
    BY <1>1, <1>4, Along DEF Agreement
  <2>2. ~Disputed(p) =>
          /\ purchase'[p].status \in {"PENDING", "PAID", "FAILED", "CANCELED", "REFUNDED"}
          /\ purchase'[p].status = "FAILED" => <<p, "failed">> \in sent
          /\ purchase'[p].status = "CANCELED" => <<p, "expired">> \in sent
          /\ purchase'[p].status = "REFUNDED" => <<p, "refunded">> \in sent
          /\ purchase'[p].status = "PAID" => <<p, "paid">> \in sent
    BY <1>1, <1>4, Says DEF MoneyCore, PaidFirst
  <2>3. ~Disputed(p) /\ purchase'[p].status = "FAILED" => gateway[p] = "failed"
    BY <2>2 DEF Agreement, OneWay
  <2>4. Backed'
    BY <1>1, <1>4, <2>2, <2>3 DEF Agreement, Backed, Disputed
  <2>5. ReadBefore'
    <3>1. \A m \in PaymentNode : (~Disputed(p) /\ session[m].cache[p] # Null) => Past(session[m].cache[p], purchase'[p].status)
      BY <2>1 DEF Agreement, ReadBefore, Past
    <3>2. SUFFICES ASSUME NEW m \in PaymentNode, NEW r \in Purchase, ~Disputed(r), session'[m].cache[r] # Null
                   PROVE  Past(session'[m].cache[r], purchase'[r].status)
      BY <1>1 DEF ReadBefore, Disputed
    <3>3. CASE r = p /\ m = n
      BY <1>1, <3>3 DEF Past
    <3>4. CASE r = p /\ m # n
      BY <1>1, <3>1, <3>2, <3>4
    <3>5. CASE r # p
      <4>1. session'[m].cache[r] = session[m].cache[r] /\ purchase'[r] = purchase[r]
        BY <1>1, <1>4, <3>5
      <4>2. QED
        BY <3>2, <4>1 DEF Agreement, ReadBefore
    <3>6. QED
      BY <3>3, <3>4, <3>5
  <2>6. AllAbsorbed'
    <3>1. \A f \in sent : f \in Notice /\ f[1] \in Purchase
      BY NoticeOf DEF SessionsCore, CommerceTypeOK
    <3>2. ASSUME NEW f \in sent, ~Disputed(f[1]), Absorbed(purchase[f[1]].status, payment_of(f[2]))
          PROVE  Absorbed(purchase'[f[1]].status, payment_of(f[2]))
      <4>1. CASE f[1] = p
        BY <2>1, <2>2, <3>1, <3>2, <4>1, StaysAbsorbed DEF Agreement
      <4>2. CASE f[1] # p
        BY <1>4, <3>1, <3>2, <4>2
      <4>3. QED
        BY <4>1, <4>2
    <3>3. \A m \in PaymentNode : session[m].at = "record" => session[m].e \in sent
      BY OnOf DEF OnNotice
    <3>4. ASSUME NEW f \in sent, ~Disputed(f[1]), inbox[f].status = "COMPLETED" PROVE Absorbed(purchase'[f[1]].status, payment_of(f[2]))
      BY <3>2, <3>4 DEF Agreement, AllAbsorbed
    <3>5. ASSUME NEW m \in PaymentNode, session'[m].at = "record", ~Disputed(session'[m].e[1])
          PROVE  Absorbed(purchase'[session'[m].e[1]].status, payment_of(session'[m].e[2]))
      <4>1. CASE m = n
        BY <1>1, <1>4, <4>1 DEF Absorbed
      <4>2. CASE m # n
        BY <1>1, <3>2, <3>3, <3>5, <4>2 DEF Agreement, AllAbsorbed
      <4>3. QED
        BY <4>1, <4>2
    <3>6. QED
      BY <1>1, <3>4, <3>5 DEF AllAbsorbed, Disputed
  <2>7. QED
    BY <1>2, <2>4, <2>5, <2>6 DEF Agreement
<1>5. QED
  BY <1>1, <1>3, <1>4

-----------------------------------------------------------------------------
(* The invariant, and what it gives.                                       *)

LEMMA Starts ==
  ASSUME CommerceInit
  PROVE  CommerceIInv
<1>1. /\ (\A p \in Purchase : purchase[p].status = "NONE" /\ gateway[p] = "none") /\ owned = {} /\ credits = {} /\ sent = {}
      /\ (\A e \in Notice : inbox[e].status = "NONE")
      /\ (\A n \in PaymentNode : session[n].at = "idle" /\ session[n].todo = {} /\ \A p \in Purchase : session[n].cache[p] = Null)
  BY IdleSessionType DEF CommerceInit
<1>2. CommerceTypeOK
  BY IdleSessionType DEF CommerceInit, CommerceTypeOK, PurchaseRow, InboxRow
<1>3. SessionsCore
  BY <1>1, <1>2 DEF SessionsCore, Heard, Claims, OneReader, HasRead, OnNotice, Working
<1>4. OpensAlone
  BY <1>1 DEF OpensAlone, Unheard
<1>5. MoneyCore
  BY <1>1 DEF MoneyCore, PaidFirst, PaidIsOwned, OwnedIsPaidFor, OneCredit
<1>6. OneWay
  BY <1>1 DEF OneWay, SessionKinds, PaymentKinds
<1>7. Backed /\ ReadBefore /\ AllAbsorbed
  BY <1>1 DEF Backed, ReadBefore, AllAbsorbed
<1>8. QED
  BY <1>3, <1>4, <1>5, <1>6, <1>7 DEF CommerceIInv, Agreement

\* What a step does: it moves no purchase, or is one of the four that open, raise or settle.
LEMMA Actions ==
  ASSUME SessionsCore, CommerceNext
  PROVE  \/ SessionsCore' /\ Aside
         \/ \E n \in PaymentNode, p \in Purchase : open_purchase(n, p)
         \/ \E n \in PaymentNode : open_session(n) \/ SessionRefused(n) \/ SettleMoves(n)
         \/ \E p \in Purchase, kind \in Kinds : Raise(p, kind)
<1>1. ASSUME NEW n \in PaymentNode, NEW e \in Notice, ingest_notice(n, e) PROVE SessionsCore' /\ Aside
  BY <1>1, IngestSessions, IngestAside
<1>2. ASSUME NEW n \in PaymentNode, claim_notice(n) PROVE SessionsCore' /\ Aside
  BY <1>2, ClaimSessions, ClaimAside
<1>3. ASSUME NEW n \in PaymentNode, ApplyUnresolved(n) \/ ApplyRead(n) \/ SettleStays(n) \/ Record(n) PROVE SessionsCore' /\ Aside
  BY <1>3, ApplySessions, ReadSessions
<1>4. ASSUME NEW n \in PaymentNode, fail(n) PROVE SessionsCore' /\ Aside
  BY <1>4, FailSessions
<1>5. ASSUME NEW n \in PaymentNode, retry_failed(n) \/ (\E e \in Notice : RetryNext(n, e)) \/ SessionDies(n) PROVE SessionsCore' /\ Aside
  BY <1>5, PassSessions
<1>6. ASSUME NEW e \in Notice, close_exhausted_notices(e) \/ NoticeAbandoned(e) PROVE SessionsCore' /\ Aside
  BY <1>6, SweepSessions
<1>7. QED
  BY <1>1, <1>2, <1>3, <1>4, <1>5, <1>6 DEF CommerceNext, Checkout, SessionWorks, Apply, Job

LEMMA Steps ==
  ASSUME CommerceIInv, [CommerceNext]_commerceVars
  PROVE  CommerceIInv'
<1> USE DEF CommerceIInv
<1>1. CASE SessionsCore' /\ Aside
  BY <1>1, AsideMoney, AsideAgreement
<1>2. ASSUME NEW n \in PaymentNode, NEW p \in Purchase, open_purchase(n, p) PROVE CommerceIInv'
  BY <1>2, OpenPurchaseStep, OpenPurchaseMoney, OpenPurchaseAgreement
<1>3. ASSUME NEW n \in PaymentNode, open_session(n) \/ SessionRefused(n) PROVE CommerceIInv'
  BY <1>3, OpenSessionStep, RefusedStep, OpenSessionMoney, OpenSessionAgreement
<1>4. ASSUME NEW n \in PaymentNode, SettleMoves(n) PROVE CommerceIInv'
  BY <1>4, SettleStep, SettleMoney, SettleAgreement
<1>5. ASSUME NEW p \in Purchase, NEW kind \in Kinds, Raise(p, kind) PROVE CommerceIInv'
  BY <1>5, RaiseStep, RaiseMoney, RaiseAgreement
<1>6. CASE UNCHANGED commerceVars
  <2>1. SessionsCore'
    BY <1>6 DEF commerceVars, SessionsCore, CommerceTypeOK, Heard, Claims, OneReader, HasRead
  <2>2. Aside
    BY <1>6 DEF commerceVars, Aside
  <2>3. QED
    BY <2>1, <2>2, <1>1
<1>7. QED
  BY <1>1, <1>2, <1>3, <1>4, <1>5, <1>6, Actions

LEMMA OneCreditCounts ==
  ASSUME OneCredit
  PROVE  CreditedOnce
<1> SUFFICES ASSUME NEW u \in owned PROVE Cardinality({c \in credits : c.user = u}) = 1
  BY DEF CreditedOnce
<1>1. PICK c \in credits : c.user = u
  BY DEF OneCredit
<1>2. {d \in credits : d.user = u} = {c}
  BY <1>1 DEF OneCredit
<1>3. QED
  BY <1>2, FS_Singleton

\* The last notice of a payment was sent and completed, so nothing it says is left to do.
LEMMA Agrees ==
  ASSUME CommerceIInv
  PROVE  AgreesWithGateway
<1> SUFFICES ASSUME NEW p \in Purchase, gateway[p] \in SessionKinds \cup PaymentKinds, ~Disputed(p),
                    \A e \in sent : e[1] = p => inbox[e].status = "COMPLETED"
             PROVE  purchase[p].status = payment_of(gateway[p])
  BY DEF AgreesWithGateway, Disputed
<1> DEFINE said == payment_of(gateway[p])
           status == purchase[p].status
<1>1. <<p, gateway[p]>> \in sent /\ inbox[<<p, gateway[p]>>].status = "COMPLETED"
  BY DEF CommerceIInv, Agreement, OneWay
<1>2. Absorbed(status, said)
  BY <1>1 DEF CommerceIInv, Agreement, AllAbsorbed
<1>3. status # "NONE" /\ status \in PurchaseStatus
  BY <1>1 DEF CommerceIInv, OpensAlone, Unheard, SessionsCore, CommerceTypeOK, PurchaseRow
<1>4. gateway[p] # "lost"
  BY <1>1 DEF Disputed
<1>5. CASE said = "PENDING"
  <2>1. gateway[p] = "unpaid"
    BY <1>5, PaymentOf
  <2>2. \A e \in sent : e[1] = p => e[2] = "unpaid"
    BY <2>1 DEF CommerceIInv, Agreement, OneWay
  <2>3. status \notin {"FAILED", "CANCELED", "PAID", "REFUNDED", "CHARGED_BACK"}
    BY <2>1, <2>2 DEF CommerceIInv, Agreement, Backed
  <2>4. QED
    BY <1>3, <1>5, <2>3 DEF PurchaseStatus
<1>6. CASE said = "PAID" /\ status = "REFUNDED"
  <2>1. gateway[p] = "refunded"
    BY <1>6 DEF CommerceIInv, Agreement, Backed, OneWay
  <2>2. QED
    BY <1>6, <2>1, PaymentOf
<1>7. QED
  BY <1>2, <1>5, <1>6 DEF Absorbed

\* The moves of a purchase, step by step.
LEMMA MovesForward ==
  ASSUME CommerceIInv, [CommerceNext]_commerceVars, NEW p \in Purchase
  PROVE  /\ purchase[p].status = "REFUNDED" => purchase'[p].status = "REFUNDED"
         /\ purchase[p].status \in SETTLED_PURCHASE_STATUSES => purchase'[p].status \in SETTLED_PURCHASE_STATUSES
         /\ purchase[p].status \in PurchaseStatus \ {"PENDING"} => purchase'[p].status # "PENDING"
<1> DEFINE Forward == /\ purchase[p].status = "REFUNDED" => purchase'[p].status = "REFUNDED"
                      /\ purchase[p].status \in SETTLED_PURCHASE_STATUSES => purchase'[p].status \in SETTLED_PURCHASE_STATUSES
                      /\ purchase[p].status \in PurchaseStatus \ {"PENDING"} => purchase'[p].status # "PENDING"
<1> USE DEF CommerceIInv
<1>1. CASE UNCHANGED purchase
  BY <1>1
<1>2. ASSUME NEW n \in PaymentNode, NEW q \in Purchase, open_purchase(n, q) PROVE Forward
  <2>1. purchase[q].status = "NONE" /\ \A r \in Purchase : r # q => purchase'[r] = purchase[r]
    BY <1>2, OpenPurchaseStep
  <2>2. QED
    BY <2>1 DEF SETTLED_PURCHASE_STATUSES, PurchaseStatus
<1>3. ASSUME NEW n \in PaymentNode, SessionRefused(n) PROVE Forward
  <2>1. PICK q \in Purchase : purchase[q].status = "PENDING" /\ \A r \in Purchase : r # q => purchase'[r] = purchase[r]
    BY <1>3, RefusedStep DEF OpensAlone
  <2>2. QED
    BY <2>1 DEF SETTLED_PURCHASE_STATUSES
<1>4. ASSUME NEW n \in PaymentNode, SettleMoves(n) PROVE Forward
  <2>1. UNCHANGED purchase \/ \E q \in Purchase : \E said : Moves(purchase[q].status, said) /\ purchase'[q].status = said /\ \A r \in Purchase : r # q => purchase'[r] = purchase[r]
    BY <1>4, SettleStep
  <2>2. QED
    BY <2>1 DEF Moves, SETTLED_PURCHASE_STATUSES
<1>5. ASSUME NEW n \in PaymentNode, open_session(n) PROVE UNCHANGED purchase
  BY <1>5 DEF open_session
<1>6. ASSUME NEW q \in Purchase, NEW kind \in Kinds, Raise(q, kind) PROVE UNCHANGED purchase
  BY <1>6 DEF Raise
<1>7. QED
  BY <1>1, <1>2, <1>3, <1>4, <1>5, <1>6, Actions DEF Aside, commerceVars

LEMMA AlwaysCommerceIInv == CommerceSpec => []CommerceIInv
BY Starts, Steps, PTL DEF CommerceSpec

-----------------------------------------------------------------------------
(* The theorems.                                                           *)

\* However notices cross, repeat and fail, and whatever dies in between, a notice has one reader at a time (claim), a paid purchase was handed over, and nobody owns what no gateway was paid for (settle_purchase, grant).
THEOREM OneHandover == CommerceSpec => []CommerceInv
<1>1. CommerceIInv => CommerceInv
  BY DEF CommerceIInv, CommerceInv, SessionsCore, MoneyCore
<1>2. QED
  BY <1>1, AlwaysCommerceIInv, PTL

\* Owning a product writes its credits once (grant), over purchases of the same product and notices settled twice.
THEOREM OneCreditEach == CommerceSpec => []CreditedOnce
<1>1. CommerceIInv => CreditedOnce
  BY OneCreditCounts DEF CommerceIInv, MoneyCore
<1>2. QED
  BY <1>1, AlwaysCommerceIInv, PTL

\* The order of the notices does not matter: once all of an undisputed payment were completed, the purchase says what the gateway says (payment_of, settle_purchase).
THEOREM OrderDoesNotMatter == CommerceSpec => []AgreesWithGateway
BY Agrees, AlwaysCommerceIInv, PTL

\* Money that went back stays back, and a settled purchase never waits again (settle_purchase).
THEOREM ForwardOnly == CommerceSpec => SettledStays
<1>1. CommerceIInv /\ [CommerceNext]_commerceVars =>
        [\A p \in Purchase :
          /\ purchase[p].status = "REFUNDED" => purchase'[p].status = "REFUNDED"
          /\ purchase[p].status \in SETTLED_PURCHASE_STATUSES => purchase'[p].status \in SETTLED_PURCHASE_STATUSES
          /\ purchase[p].status \in PurchaseStatus \ {"PENDING"} => purchase'[p].status # "PENDING"]_commerceVars
  BY MovesForward
<1>2. QED
  BY <1>1, AlwaysCommerceIInv, PTL DEF CommerceSpec, SettledStays
=============================================================================
