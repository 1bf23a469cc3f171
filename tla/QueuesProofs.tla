----------------------------- MODULE QueuesProofs -----------------------------
(***************************************************************************)
(* Theorems about the two queues.                                          *)
(*                                                                         *)
(* EmailQueue: for any number of messages, passes, lost results and        *)
(* deaths, a message has one sender, leaves again only where its row never *)
(* learnt that it left, is never parked where no pass reads, and keeps the *)
(* way it ended.                                                           *)
(*                                                                         *)
(* AppEvents: each thing is done once for each row an event is given, for  *)
(* every number of requests, events, passes, deaths and erased accounts.   *)
(* The argument goes through the ids.  A row gets its id when it is        *)
(* inserted and is seen by others only when its batch commits, so what a   *)
(* pass holds or the retention read can never name a row that appears      *)
(* later; and an id names one row at most.  What a pass holds is therefore *)
(* its own, and stays in the state the claim left it in.                   *)
(***************************************************************************)
EXTENDS EmailQueue, AppEvents, FiniteSetTheorems, TLAPS

-----------------------------------------------------------------------------
(* The inductive invariant.                                                *)

\* A pass that dials or writes down holds a message whose claim is its own and has not run out.
PassesHold ==
  \A n \in MailNode :
    /\ mailer[n].at \in {"dial", "write"} => (mailer[n].msg \in Msg /\ In(mailer[n].msg, {"SENDING"}) /\ ~mail[mailer[n].msg].stale)
    /\ mailer[n].at = "write" => mailer[n].outcome \in Outcome

\* A message is written down once.
Unqueued == \A m \in Msg : writer[m] # "done" => mail[m] = NoMail

\* A message went out, and the pass that knows has not written it down yet.
SentBy(n, m) == mailer[n].at = "write" /\ mailer[n].msg = m /\ mailer[n].outcome = "sent"

Told(m) == In(m, {"SENT"}) \/ \E n \in MailNode : SentBy(n, m)

\* What the reader got is what nobody wrote down, and one more where the row says so or is about to.
SentCounted == \A m \in Msg : received[m] <= IF Told(m) THEN 1 + unwritten[m] ELSE unwritten[m]

\* Rows are numbered by how many there are.
Countable == IsFiniteSet(Written)

MailCore == MailTypeOK /\ Countable /\ PassesHold /\ Unqueued /\ OneSender /\ WaitingIsRead

MailIInv == MailCore /\ SentCounted

-----------------------------------------------------------------------------
(* What the writes leave.                                                  *)

\* A write on one pass leaves the others.
LEMMA MailerWrite ==
  ASSUME NEW n \in MailNode, NEW new \in MailPass, MailTypeOK, mailer' = [mailer EXCEPT ![n] = new]
  PROVE  mailer' \in [MailNode -> MailPass] /\ mailer'[n] = new /\ \A o \in MailNode : o # n => mailer'[o] = mailer[o]
BY DEF MailTypeOK

\* A write on one row leaves the others.
LEMMA RowWrite ==
  ASSUME NEW m \in Msg, NEW new \in MailRow, MailTypeOK, mail' = [mail EXCEPT ![m] = new]
  PROVE  mail' \in [Msg -> MailRow \cup {NoMail}] /\ mail'[m] = new /\ new # NoMail /\ \A o \in Msg : o # m => mail'[o] = mail[o]
BY EmailAssumption DEF MailTypeOK

LEMMA IdleMailerType == IdleMailer \in MailPass /\ IdleMailer.at = "idle"
BY DEF IdleMailer, MailPass

\* A pass that goes on holds no message.
LEMMA OnwardsType ==
  ASSUME NEW s \in MailPass, NEW rest \in SUBSET Msg
  PROVE  Onwards(s, rest) \in MailPass /\ Onwards(s, rest).at \in {"idle", "take"}
<1>1. CASE rest = {}
  BY <1>1, IdleMailerType DEF Onwards
<1>2. CASE rest # {}
  BY <1>2 DEF Onwards, MailPass
<1>3. QED
  BY <1>1, <1>2

\* A row that is written stays a row, and its fields have their shape.
LEMMA RowOf ==
  ASSUME MailTypeOK, NEW m \in Msg, NEW statuses, In(m, statuses)
  PROVE  mail[m] \in MailRow /\ mail[m] # NoMail /\ mail[m].status \in statuses /\ mail[m].attempts \in Nat /\ mail[m].created \in Nat
BY DEF MailTypeOK, In, Written, MailRow

\* A pass that lets go of its message, or takes none, leaves the rows and who holds them.
LEMMA PassLeaves ==
  ASSUME MailCore, NEW n \in MailNode, NEW new \in MailPass, new.at \notin {"dial", "write"},
         mailer' = [mailer EXCEPT ![n] = new], UNCHANGED <<writer, mail, suppressed, received>>, unwritten' \in [Msg -> Nat], faults' \in Nat
  PROVE  MailCore'
<1>1. mailer' \in [MailNode -> MailPass] /\ mailer'[n] = new /\ \A o \in MailNode : o # n => mailer'[o] = mailer[o]
  BY MailerWrite DEF MailCore
<1>2. (MailTypeOK /\ Countable /\ Unqueued /\ WaitingIsRead)'
  BY <1>1 DEF MailCore, MailTypeOK, Countable, Unqueued, WaitingIsRead, Written, In, Waiting
<1>3. PassesHold'
  BY <1>1 DEF MailCore, PassesHold, Written, In
<1>4. OneSender'
  BY <1>1 DEF MailCore, OneSender, Sending
<1>5. QED
  BY <1>2, <1>3, <1>4 DEF MailCore

-----------------------------------------------------------------------------
(* The rows and the passes, action by action.                              *)

LEMMA MailCoreInit == MailInit => MailCore
<1> SUFFICES ASSUME MailInit PROVE MailCore
  OBVIOUS
<1>1. MailTypeOK /\ PassesHold /\ Unqueued /\ OneSender
  BY IdleMailerType DEF MailInit, MailTypeOK, PassesHold, Unqueued, OneSender, Sending
<1>2. Written = {}
  BY DEF MailInit, Written
<1>3. Countable /\ WaitingIsRead
  BY <1>2, FS_EmptySet DEF Countable, WaitingIsRead, In
<1>4. QED
  BY <1>1, <1>3 DEF MailCore

\* A row is inserted once, with no attempt behind it.
LEMMA QueueCore ==
  ASSUME MailCore, NEW m \in Msg, queue(m)
  PROVE  MailCore'
<1> DEFINE new == [status |-> writer[m], attempts |-> 0, created |-> Cardinality(Written), stale |-> FALSE]
<1>1. writer[m] \in {"PENDING", "REFUSED"} /\ mail[m] = NoMail
  BY DEF queue, MailCore, Unqueued
<1>2. Cardinality(Written) \in Nat
  BY FS_CardinalityType DEF MailCore, Countable
<1>3. new \in MailRow /\ new.status = writer[m] /\ new.attempts = 0
  BY <1>1, <1>2 DEF MailRow, Status
<1>4. mail' = [mail EXCEPT ![m] = new] /\ writer' = [writer EXCEPT ![m] = "done"] /\ UNCHANGED <<suppressed, mailer, received, unwritten, faults>>
  BY DEF queue
<1> HIDE DEF new
<1>5. mail' \in [Msg -> MailRow \cup {NoMail}] /\ mail'[m] = new /\ new # NoMail /\ \A o \in Msg : o # m => mail'[o] = mail[o]
  BY <1>3, <1>4, RowWrite DEF MailCore
<1>6. Written' = Written \cup {m}
  BY <1>5 DEF Written
<1>7. MailTypeOK'
  BY <1>4, <1>5 DEF MailCore, MailTypeOK
<1>8. Countable'
  BY <1>6, FS_AddElement DEF MailCore, Countable
<1>9. PassesHold'
  BY <1>1, <1>4, <1>5 DEF MailCore, PassesHold, In, Written
<1>10. Unqueued' /\ OneSender'
  BY <1>4, <1>5 DEF MailCore, MailTypeOK, Unqueued, OneSender, Sending
<1>11. WaitingIsRead'
  BY <1>1, <1>3, <1>5, EmailAssumption DEF MailCore, WaitingIsRead, Waiting, In, Written
<1>12. QED
  BY <1>7, <1>8, <1>9, <1>10, <1>11 DEF MailCore

\* A claim that ran out is nobody's, so the reclaim moves no message a pass holds.
LEMMA ReclaimCore ==
  ASSUME MailCore, NEW n \in MailNode, reclaim_abandoned(n)
  PROVE  MailCore'
<1> DEFINE new == [IdleMailer EXCEPT !.at = "list"]
<1>1. new \in MailPass /\ new.at = "list"
  BY IdleMailerType DEF MailPass
<1>2. mailer' = [mailer EXCEPT ![n] = new] /\ mail' = [m \in Msg |-> IF Stranded(m) THEN Reclaimed(m) ELSE mail[m]]
      /\ UNCHANGED <<writer, suppressed, received, unwritten, faults>>
  BY DEF reclaim_abandoned
<1> HIDE DEF new
<1>3. mailer' \in [MailNode -> MailPass] /\ mailer'[n] = new /\ \A o \in MailNode : o # n => mailer'[o] = mailer[o]
  BY <1>1, <1>2, MailerWrite DEF MailCore
<1>4. ASSUME NEW m \in Msg, Stranded(m)
      PROVE  /\ mail'[m] \in MailRow /\ mail'[m] # NoMail /\ mail[m] # NoMail
             /\ mail'[m].status \in {"FAILED", "PENDING"} /\ mail'[m].attempts = mail[m].attempts
             /\ mail'[m].status = "PENDING" => mail[m].attempts < MAIL_ATTEMPTS
  <2>1. mail[m] \in MailRow /\ mail[m] # NoMail /\ mail[m].attempts \in Nat
    BY <1>4, RowOf DEF Stranded, MailCore
  <2>2. mail'[m] = Reclaimed(m)
    BY <1>2, <1>4
  <2>3. QED
    BY <2>1, <2>2, EmailAssumption DEF Reclaimed, MailRow, Status
<1>5. ASSUME NEW m \in Msg, ~Stranded(m) PROVE mail'[m] = mail[m]
  BY <1>2, <1>5
<1>6. MailTypeOK'
  BY <1>2, <1>3, <1>4, <1>5 DEF MailCore, MailTypeOK
<1>7. Written' = Written
  BY <1>4, <1>5 DEF Written
<1>8. Countable' /\ Unqueued'
  BY <1>2, <1>4, <1>5, <1>7 DEF MailCore, Countable, Unqueued, Stranded, In, Written
<1>9. PassesHold'
  BY <1>1, <1>3, <1>5, <1>7 DEF MailCore, PassesHold, Stranded, In
<1>10. OneSender'
  BY <1>1, <1>3 DEF MailCore, OneSender, Sending
<1>11. WaitingIsRead'
  BY <1>4, <1>5, <1>7 DEF MailCore, WaitingIsRead, Waiting, In
<1>12. QED
  BY <1>6, <1>8, <1>9, <1>10, <1>11 DEF MailCore

\* What a claim leaves: the message is the pass's alone.
LEMMA ClaimCore ==
  ASSUME MailCore, NEW n \in MailNode, claim_message(n)
  PROVE  MailCore'
<1>1. mailer[n] \in MailPass /\ mailer[n].at = "take" /\ UNCHANGED <<writer, suppressed, received, unwritten, faults>>
  BY DEF claim_message, MailCore, MailTypeOK
<1>2. PICK m \in mailer[n].batch :
        \/ In(m, {"PENDING"}) /\ mail' = [mail EXCEPT ![m] = ClaimedRow(mail[m])] /\ mailer' = [mailer EXCEPT ![n] = HoldingPass(mailer[n], m)]
        \/ ~In(m, {"PENDING"}) /\ mailer' = [mailer EXCEPT ![n] = Onwards(mailer[n], mailer[n].batch \ {m})] /\ UNCHANGED mail
  BY DEF claim_message
<1>3. m \in Msg
  BY <1>1 DEF MailPass
<1>4. CASE In(m, {"PENDING"})
  <2>1. mail[m] \in MailRow /\ mail[m].status = "PENDING" /\ mail[m].attempts + 1 \in Nat /\ mail[m] # NoMail
    BY <1>3, <1>4, RowOf DEF MailCore
  <2>2. ClaimedRow(mail[m]) \in MailRow /\ ClaimedRow(mail[m]).status = "SENDING" /\ ~ClaimedRow(mail[m]).stale
    BY <2>1 DEF ClaimedRow, MailRow, Status
  <2>3. HoldingPass(mailer[n], m) \in MailPass /\ HoldingPass(mailer[n], m).at = "dial" /\ HoldingPass(mailer[n], m).msg = m
    BY <1>1, <1>3 DEF HoldingPass, MailPass
  <2>4. mail' = [mail EXCEPT ![m] = ClaimedRow(mail[m])] /\ mailer' = [mailer EXCEPT ![n] = HoldingPass(mailer[n], m)]
    BY <1>2, <1>4
  <2>5. mailer' \in [MailNode -> MailPass] /\ mailer'[n] = HoldingPass(mailer[n], m) /\ \A o \in MailNode : o # n => mailer'[o] = mailer[o]
    BY <2>3, <2>4, MailerWrite DEF MailCore
  <2>6. mail' \in [Msg -> MailRow \cup {NoMail}] /\ mail'[m] = ClaimedRow(mail[m]) /\ ClaimedRow(mail[m]) # NoMail /\ \A o \in Msg : o # m => mail'[o] = mail[o]
    BY <1>3, <2>2, <2>4, RowWrite DEF MailCore
  <2>7. \A o \in MailNode : ~Sending(o, m)
    BY <1>3, <2>1 DEF MailCore, PassesHold, Sending, In
  <2>8. Written' = Written
    BY <2>1, <2>6 DEF Written
  <2>9. (MailTypeOK /\ Countable)'
    BY <1>1, <2>5, <2>6, <2>8 DEF MailCore, MailTypeOK, Countable
  <2>10. Unqueued'
    BY <1>1, <2>1, <2>6 DEF MailCore, Unqueued
  <2>11. PassesHold'
    BY <1>3, <2>2, <2>3, <2>5, <2>6, <2>7, <2>8 DEF MailCore, PassesHold, Sending, In, Written
  <2>12. OneSender'
    BY <2>3, <2>5, <2>7 DEF MailCore, OneSender, Sending
  <2>13. WaitingIsRead'
    BY <2>2, <2>6, <2>8 DEF MailCore, WaitingIsRead, Waiting, In
  <2>14. QED
    BY <2>9, <2>10, <2>11, <2>12, <2>13 DEF MailCore
<1>5. CASE ~In(m, {"PENDING"})
  <2>1. mailer[n].batch \ {m} \in SUBSET Msg
    BY <1>1 DEF MailPass
  <2>2. mailer' = [mailer EXCEPT ![n] = Onwards(mailer[n], mailer[n].batch \ {m})] /\ UNCHANGED mail
    BY <1>2, <1>5
  <2>3. QED
    BY <1>1, <2>1, <2>2, OnwardsType, PassLeaves DEF MailCore, MailTypeOK
<1>6. QED
  BY <1>4, <1>5

\* The request reads the suppression list, and writes its row later.
LEMMA QueueReadCore ==
  ASSUME MailCore, NEW m \in Msg, QueueRead(m)
  PROVE  MailCore'
<1>1. writer' \in [Msg -> {"new", "PENDING", "REFUSED", "done"}] /\ writer'[m] # "done" /\ writer[m] # "done" /\ \A o \in Msg : o # m => writer'[o] = writer[o]
  BY DEF QueueRead, MailCore, MailTypeOK
<1>2. UNCHANGED <<mail, suppressed, mailer, received, unwritten, faults>>
  BY DEF QueueRead
<1>3. (MailTypeOK /\ Countable /\ Unqueued)'
  BY <1>1, <1>2 DEF MailCore, MailTypeOK, Countable, Written, Unqueued
<1>4. (PassesHold /\ OneSender /\ WaitingIsRead)'
  BY <1>2 DEF MailCore, PassesHold, OneSender, Sending, WaitingIsRead, Waiting, In, Written
<1>5. QED
  BY <1>3, <1>4 DEF MailCore

\* One send: the pass keeps its message, and knows how it ended.
LEMMA DeliverCore ==
  ASSUME MailCore, NEW n \in MailNode, NEW o \in Outcome, mailer[n].at = "dial",
         mailer' = [mailer EXCEPT ![n] = [@ EXCEPT !.at = "write", !.outcome = o]], UNCHANGED <<writer, mail, suppressed, faults>>,
         received' \in [Msg -> Nat], unwritten' \in [Msg -> Nat]
  PROVE  MailCore' /\ mailer'[n].at = "write" /\ mailer'[n].msg = mailer[n].msg /\ mailer'[n].outcome = o
         /\ \A k \in MailNode : k # n => mailer'[k] = mailer[k]
<1> DEFINE new == [mailer[n] EXCEPT !.at = "write", !.outcome = o]
<1>1. new \in MailPass /\ new.at = "write" /\ new.msg = mailer[n].msg /\ new.outcome = o
  BY DEF MailCore, MailTypeOK, MailPass
<1>2. mailer' = [mailer EXCEPT ![n] = new]
  OBVIOUS
<1> HIDE DEF new
<1>3. mailer' \in [MailNode -> MailPass] /\ mailer'[n] = new /\ \A k \in MailNode : k # n => mailer'[k] = mailer[k]
  BY <1>1, <1>2, MailerWrite DEF MailCore
<1>4. (MailTypeOK /\ Countable /\ Unqueued /\ WaitingIsRead)'
  BY <1>3 DEF MailCore, MailTypeOK, Countable, Unqueued, WaitingIsRead, Written, In, Waiting
<1>5. PassesHold'
  BY <1>1, <1>3 DEF MailCore, PassesHold, Written, In
<1>6. OneSender'
  BY <1>1, <1>3 DEF MailCore, OneSender, Sending
<1>7. QED
  BY <1>1, <1>3, <1>4, <1>5, <1>6 DEF MailCore

\* The result of a send: the row is settled, or waits with an attempt left.
LEMMA WriteDownCore ==
  ASSUME MailCore, NEW n \in MailNode, write_down(n)
  PROVE  /\ MailCore'
         /\ In(mailer[n].msg, {"SENDING"}) /\ mailer[n].msg \in Msg
         /\ mail'[mailer[n].msg].status = Ended(mailer[n].msg, mailer[n].outcome) /\ mail'[mailer[n].msg] # NoMail
         /\ \A k \in Msg : k # mailer[n].msg => mail'[k] = mail[k]
         /\ mailer'[n].at \in {"idle", "take"}
         /\ \A k \in MailNode : k # n => mailer'[k] = mailer[k]
<1> DEFINE m == mailer[n].msg
           row == [mail[m] EXCEPT !.status = Ended(m, mailer[n].outcome), !.stale = FALSE]
           new == Onwards(mailer[n], mailer[n].batch)
<1>1. mailer[n].at = "write" /\ mail' = [mail EXCEPT ![m] = row] /\ mailer' = [mailer EXCEPT ![n] = new]
      /\ suppressed' \in {suppressed, suppressed \cup {To[m]}} /\ UNCHANGED <<writer, received, unwritten, faults>>
  BY DEF write_down
<1>2. m \in Msg /\ In(m, {"SENDING"})
  BY <1>1 DEF MailCore, PassesHold
<1>3. mail[m] \in MailRow /\ mail[m] # NoMail /\ mail[m].attempts \in Nat
  BY <1>2, RowOf DEF MailCore
<1>4. /\ Ended(m, mailer[n].outcome) \in {"SENT", "REFUSED", "FAILED", "PENDING"}
      /\ Ended(m, mailer[n].outcome) = "PENDING" => mail[m].attempts < MAIL_ATTEMPTS
  BY <1>3, EmailAssumption DEF Ended
<1>5. row \in MailRow /\ row.status = Ended(m, mailer[n].outcome) /\ row.attempts = mail[m].attempts
  BY <1>3, <1>4 DEF MailRow, Status
<1>6. new \in MailPass /\ new.at \in {"idle", "take"}
  <2>1. mailer[n] \in MailPass /\ mailer[n].batch \in SUBSET Msg
    BY DEF MailCore, MailTypeOK, MailPass
  <2>2. QED
    BY <2>1, OnwardsType
<1>7. suppressed' \subseteq Address
  <2>1. To[m] \in Address /\ suppressed \subseteq Address
    BY <1>2, EmailAssumption DEF MailCore, MailTypeOK
  <2> HIDE DEF m
  <2>2. QED
    BY <1>1, <2>1
<1> HIDE DEF row, new
<1>8. mailer' \in [MailNode -> MailPass] /\ mailer'[n] = new /\ \A o \in MailNode : o # n => mailer'[o] = mailer[o]
  BY <1>1, <1>6, MailerWrite DEF MailCore
<1>9. mail' \in [Msg -> MailRow \cup {NoMail}] /\ mail'[m] = row /\ row # NoMail /\ \A o \in Msg : o # m => mail'[o] = mail[o]
  BY <1>1, <1>2, <1>5, RowWrite DEF MailCore
<1>10. \A o \in MailNode : o # n => ~Sending(o, m)
  BY <1>1, <1>2 DEF MailCore, OneSender, Sending
<1>11. Written' = Written
  BY <1>3, <1>9 DEF Written
<1>12. (MailTypeOK /\ Countable)'
  BY <1>1, <1>7, <1>8, <1>9, <1>11 DEF MailCore, MailTypeOK, Countable
<1>13. Unqueued'
  BY <1>1, <1>3, <1>9 DEF MailCore, Unqueued
<1>14. PassesHold'
  BY <1>6, <1>8, <1>9, <1>10, <1>11 DEF MailCore, PassesHold, Sending, In, Written
<1>15. OneSender'
  BY <1>6, <1>8 DEF MailCore, OneSender, Sending
<1>16. WaitingIsRead'
  BY <1>4, <1>5, <1>9, <1>11 DEF MailCore, WaitingIsRead, Waiting, In
<1>17. MailCore'
  BY <1>12, <1>13, <1>14, <1>15, <1>16 DEF MailCore
<1>18. QED
  BY <1>2, <1>5, <1>6, <1>8, <1>9, <1>17

\* A claim runs out, and no pass holds it.
LEMMA AbandonCore ==
  ASSUME MailCore, NEW m \in Msg, MailAbandoned(m)
  PROVE  MailCore' /\ mail'[m] # NoMail /\ mail'[m].status = mail[m].status /\ \A o \in Msg : o # m => mail'[o] = mail[o]
<1> DEFINE row == [mail[m] EXCEPT !.stale = TRUE]
<1>1. mail' = [mail EXCEPT ![m] = row] /\ In(m, {"SENDING"}) /\ (\A n \in MailNode : ~Sending(n, m)) /\ UNCHANGED <<writer, suppressed, mailer, received, unwritten, faults>>
  BY DEF MailAbandoned
<1>2. mail[m] \in MailRow /\ mail[m] # NoMail /\ mail[m].status = "SENDING"
  BY <1>1, RowOf DEF MailCore
<1>3. row \in MailRow /\ row.status = mail[m].status
  BY <1>2 DEF MailRow
<1> HIDE DEF row
<1>4. mail' \in [Msg -> MailRow \cup {NoMail}] /\ mail'[m] = row /\ row # NoMail /\ \A o \in Msg : o # m => mail'[o] = mail[o]
  BY <1>1, <1>3, RowWrite DEF MailCore
<1>5. Written' = Written
  BY <1>2, <1>4 DEF Written
<1>6. (MailTypeOK /\ Countable /\ Unqueued)'
  BY <1>1, <1>2, <1>4, <1>5 DEF MailCore, MailTypeOK, Countable, Unqueued
<1>7. PassesHold'
  BY <1>1, <1>4, <1>5 DEF MailCore, PassesHold, Sending, In
<1>8. OneSender'
  BY <1>1 DEF MailCore, OneSender, Sending
<1>9. WaitingIsRead'
  BY <1>2, <1>3, <1>4, <1>5 DEF MailCore, WaitingIsRead, Waiting, In
<1>10. QED
  BY <1>3, <1>4, <1>6, <1>7, <1>8, <1>9 DEF MailCore

\* Reading the batch, stopping at the deadline, losing a result and dying: the pass holds nothing after.
LEMMA LeaveCore ==
  ASSUME MailCore, NEW n \in MailNode, process_pending(n) \/ Deadline(n) \/ WriteRefused(n) \/ MailerDies(n)
  PROVE  MailCore'
<1>1. mailer[n] \in MailPass /\ mailer[n].batch \in SUBSET Msg
  BY DEF MailCore, MailTypeOK, MailPass
<1>2. CASE process_pending(n)
  <2>1. PICK batch \in SUBSET Msg : mailer' = [mailer EXCEPT ![n] = IF batch = {} THEN IdleMailer ELSE [mailer[n] EXCEPT !.at = "take", !.batch = batch]]
    BY <1>2 DEF process_pending, Waiting
  <2> DEFINE new == IF batch = {} THEN IdleMailer ELSE [mailer[n] EXCEPT !.at = "take", !.batch = batch]
  <2>2. new \in MailPass /\ new.at \notin {"dial", "write"}
    <3>1. IdleMailer \in MailPass /\ IdleMailer.at = "idle"
      BY IdleMailerType
    <3>2. [mailer[n] EXCEPT !.at = "take", !.batch = batch] \in MailPass /\ [mailer[n] EXCEPT !.at = "take", !.batch = batch].at = "take"
      BY <1>1 DEF MailPass
    <3>3. QED
      BY <3>1, <3>2
  <2>3. mailer' = [mailer EXCEPT ![n] = new]
    BY <2>1
  <2> HIDE DEF new
  <2>4. UNCHANGED <<writer, mail, suppressed, received, unwritten, faults>> /\ unwritten' \in [Msg -> Nat] /\ faults' \in Nat
    BY <1>2 DEF process_pending, MailCore, MailTypeOK
  <2>5. QED
    BY <2>2, <2>3, <2>4, PassLeaves
<1>3. CASE Deadline(n)
  BY <1>3, IdleMailerType, PassLeaves DEF Deadline, MailCore, MailTypeOK
<1>4. unwritten \in [Msg -> Nat] /\ faults + 1 \in Nat
  BY DEF MailCore, MailTypeOK
<1>5. Unwritten(n) \in [Msg -> Nat]
  <2>1. CASE mailer[n].at = "write"
    <3>1. mailer[n].msg \in Msg
      BY <2>1 DEF MailCore, PassesHold
    <3>2. unwritten[mailer[n].msg] + 1 \in Nat
      BY <1>4, <3>1
    <3>3. [unwritten EXCEPT ![mailer[n].msg] = @ + 1] \in [Msg -> Nat]
      BY <1>4, <3>2
    <3>4. QED
      BY <1>4, <3>3 DEF Unwritten
  <2>2. CASE mailer[n].at # "write"
    BY <1>4, <2>2 DEF Unwritten
  <2>3. QED
    BY <2>1, <2>2
<1>6. CASE WriteRefused(n)
  <2>1. Onwards(mailer[n], mailer[n].batch) \in MailPass /\ Onwards(mailer[n], mailer[n].batch).at \notin {"dial", "write"}
    BY <1>1, OnwardsType
  <2>2. QED
    BY <1>4, <1>5, <1>6, <2>1, PassLeaves DEF WriteRefused
<1>7. CASE MailerDies(n)
  BY <1>4, <1>5, <1>7, IdleMailerType, PassLeaves DEF MailerDies
<1>8. QED
  BY <1>2, <1>3, <1>6, <1>7

\* One step of a send keeps the core.
LEMMA SendCore ==
  ASSUME MailCore, NEW n \in MailNode, deliver_record(n)
  PROVE  MailCore'
<1>1. mailer[n].at = "dial" /\ mailer[n].msg \in Msg
  BY DEF deliver_record, MailCore, PassesHold
<1>2. PICK o \in Outcome :
        /\ mailer' = [mailer EXCEPT ![n] = [@ EXCEPT !.at = "write", !.outcome = o]]
        /\ received' = IF o \in {"sent", "timed_out"} THEN [received EXCEPT ![mailer[n].msg] = @ + 1] ELSE received
        /\ unwritten' = IF o = "timed_out" THEN [unwritten EXCEPT ![mailer[n].msg] = @ + 1] ELSE unwritten
  BY DEF deliver_record
<1>3. received \in [Msg -> Nat] /\ unwritten \in [Msg -> Nat]
  BY DEF MailCore, MailTypeOK
<1>4. received[mailer[n].msg] + 1 \in Nat /\ unwritten[mailer[n].msg] + 1 \in Nat
  BY <1>1, <1>3
<1>5. received' \in [Msg -> Nat] /\ unwritten' \in [Msg -> Nat]
  BY <1>2, <1>3, <1>4
<1>6. UNCHANGED <<writer, mail, suppressed, faults>>
  BY DEF deliver_record
<1>7. QED
  BY <1>1, <1>2, <1>5, <1>6, DeliverCore

LEMMA MailCoreStep ==
  ASSUME MailCore, [MailNext]_mailVars
  PROVE  MailCore'
<1>1. CASE UNCHANGED mailVars
  BY <1>1 DEF mailVars, MailCore, MailTypeOK, Countable, PassesHold, Unqueued, OneSender, WaitingIsRead, Sending, Waiting, In, Written
<1>2. ASSUME NEW m \in Msg, QueueRead(m) \/ queue(m) \/ MailAbandoned(m) PROVE MailCore'
  BY <1>2, QueueReadCore, QueueCore, AbandonCore
<1>3. ASSUME NEW n \in MailNode, Pass(n) PROVE MailCore'
  <2>1. CASE process_pending(n)
    BY <2>1, LeaveCore
  <2>2. QED
    BY <1>3, <2>1, ReclaimCore, ClaimCore, SendCore, WriteDownCore DEF Pass
<1>4. ASSUME NEW n \in MailNode, Deadline(n) \/ WriteRefused(n) \/ MailerDies(n) PROVE MailCore'
  BY <1>4, LeaveCore
<1>5. QED
  BY <1>1, <1>2, <1>3, <1>4 DEF MailNext

-----------------------------------------------------------------------------
(* How a message ended.                                                    *)

\* A row that is settled is held by no pass, waits for none and has no claim that could run out.
LEMMA EndedStep ==
  ASSUME MailCore, [MailNext]_mailVars, NEW m \in Msg, In(m, Final)
  PROVE  mail'[m] # NoMail /\ mail'[m].status = mail[m].status
<1>1. mail[m] # NoMail /\ mail[m].status \in Final
  BY DEF In, Written
<1>2. CASE UNCHANGED mail
  BY <1>1, <1>2
<1>3. ASSUME NEW o \in Msg, queue(o) PROVE mail'[m] # NoMail /\ mail'[m].status = mail[m].status
  <2>1. mail[o] = NoMail /\ o # m
    BY <1>1, <1>3 DEF queue, MailCore, Unqueued
  <2>2. mail'[m] = mail[m]
    BY <1>3, <2>1 DEF queue, MailCore, MailTypeOK
  <2>3. QED
    BY <1>1, <2>2
<1>4. ASSUME NEW o \in Msg, MailAbandoned(o) PROVE mail'[m] # NoMail /\ mail'[m].status = mail[m].status
  BY <1>1, <1>4, AbandonCore
<1>5. ASSUME NEW n \in MailNode, reclaim_abandoned(n) PROVE mail'[m] # NoMail /\ mail'[m].status = mail[m].status
  <2>1. ~Stranded(m)
    BY <1>1 DEF Stranded, In, Final
  <2>2. QED
    BY <1>1, <1>5, <2>1 DEF reclaim_abandoned
<1>6. ASSUME NEW n \in MailNode, claim_message(n) PROVE mail'[m] # NoMail /\ mail'[m].status = mail[m].status
  <2>1. PICK k \in mailer[n].batch : (In(k, {"PENDING"}) /\ mail' = [mail EXCEPT ![k] = ClaimedRow(@)]) \/ UNCHANGED mail
    BY <1>6 DEF claim_message
  <2>2. CASE In(k, {"PENDING"}) /\ mail' = [mail EXCEPT ![k] = ClaimedRow(@)]
    <3>1. k # m
      BY <1>1, <2>2 DEF In, Final
    <3>2. QED
      BY <1>1, <2>2, <3>1 DEF MailCore, MailTypeOK
  <2>3. QED
    BY <1>2, <2>1, <2>2
<1>7. ASSUME NEW n \in MailNode, write_down(n) PROVE mail'[m] # NoMail /\ mail'[m].status = mail[m].status
  <2>1. mailer[n].msg # m
    BY <1>1, <1>7, WriteDownCore DEF In, Final
  <2>2. QED
    BY <1>1, <1>7, <2>1, WriteDownCore
<1>8. ASSUME NEW n \in MailNode, process_pending(n) \/ deliver_record(n) \/ Deadline(n) \/ WriteRefused(n) \/ MailerDies(n) PROVE UNCHANGED mail
  BY <1>8 DEF process_pending, deliver_record, Deadline, WriteRefused, MailerDies
<1>9. ASSUME NEW o \in Msg, QueueRead(o) PROVE UNCHANGED mail
  BY <1>9 DEF QueueRead
<1>10. QED
  BY <1>2, <1>3, <1>4, <1>5, <1>6, <1>7, <1>8, <1>9 DEF MailNext, Pass, mailVars

-----------------------------------------------------------------------------
(* What the reader got.                                                    *)

\* Where nothing goes out and nobody who knows is lost, the count stands.
LEMMA MailCountKept ==
  ASSUME MailTypeOK, SentCounted, UNCHANGED <<received, unwritten>>, \A m \in Msg : Told(m) => Told(m)'
  PROVE  SentCounted'
<1>1. \A m \in Msg : received[m] \in Nat /\ unwritten[m] \in Nat
  BY DEF MailTypeOK
<1>2. QED
  BY <1>1 DEF SentCounted

\* A pass that was not writing down moves: whoever knew that a message went out still does.
LEMMA ToldKept ==
  ASSUME MailCore, [MailNext]_mailVars, NEW n \in MailNode, mailer[n].at # "write", \A o \in MailNode : o # n => mailer'[o] = mailer[o],
         NEW m \in Msg, Told(m)
  PROVE  Told(m)'
<1>1. CASE In(m, {"SENT"})
  <2>1. In(m, Final)
    BY <1>1 DEF In, Final
  <2>2. QED
    BY <1>1, <2>1, EndedStep DEF Told, In, Written
<1>2. ASSUME NEW o \in MailNode, SentBy(o, m) PROVE Told(m)'
  <2>1. mailer'[o] = mailer[o]
    BY <1>2 DEF SentBy
  <2>2. QED
    BY <1>2, <2>1 DEF SentBy, Told
<1>3. QED
  BY <1>1, <1>2 DEF Told

\* The pass that holds a message and has not heard that it left is the only one that could know.
LEMMA NotTold ==
  ASSUME MailCore, NEW n \in MailNode, mailer[n].at \in {"dial", "write"}, ~SentBy(n, mailer[n].msg)
  PROVE  ~Told(mailer[n].msg)
<1>1. mailer[n].msg \in Msg /\ In(mailer[n].msg, {"SENDING"})
  BY DEF MailCore, PassesHold
<1>2. \A o \in MailNode : Sending(o, mailer[n].msg) => o = n
  BY <1>1 DEF MailCore, OneSender, Sending
<1>3. QED
  BY <1>1, <1>2 DEF Told, SentBy, Sending, In

LEMMA CountStep ==
  ASSUME MailCore, SentCounted, [MailNext]_mailVars
  PROVE  SentCounted'
<1>1. MailTypeOK /\ \A m \in Msg : received[m] \in Nat /\ unwritten[m] \in Nat
  BY DEF MailCore, MailTypeOK
<1>2. CASE UNCHANGED mailVars
  BY <1>2 DEF mailVars, SentCounted, Told, SentBy, In, Written
<1>3. ASSUME NEW k \in Msg, QueueRead(k) \/ queue(k) \/ MailAbandoned(k) PROVE SentCounted'
  <2>1. UNCHANGED <<mailer, received, unwritten>>
    BY <1>3 DEF QueueRead, queue, MailAbandoned
  <2>2. ASSUME NEW m \in Msg, Told(m) PROVE Told(m)'
    <3>1. CASE In(m, {"SENT"})
      <4>1. In(m, Final)
        BY <3>1 DEF In, Final
      <4>2. QED
        BY <3>1, <4>1, EndedStep DEF Told, In, Written
    <3>2. QED
      BY <2>1, <2>2, <3>1 DEF Told, SentBy
  <2>3. QED
    BY <1>1, <2>1, <2>2, MailCountKept
<1>4. ASSUME NEW n \in MailNode, reclaim_abandoned(n) \/ process_pending(n) \/ claim_message(n) \/ Deadline(n) PROVE SentCounted'
  <2>1. mailer[n].at # "write" /\ UNCHANGED <<received, unwritten>>
    BY <1>4 DEF reclaim_abandoned, process_pending, claim_message, Deadline
  <2>2. \A o \in MailNode : o # n => mailer'[o] = mailer[o]
    BY <1>1, <1>4 DEF MailTypeOK, reclaim_abandoned, process_pending, claim_message, Deadline
  <2>3. QED
    BY <1>1, <2>1, <2>2, ToldKept, MailCountKept
<1>5. ASSUME NEW n \in MailNode, deliver_record(n) PROVE SentCounted'
  <2>1. PICK m \in Msg : mailer[n].at = "dial" /\ m = mailer[n].msg
    BY <1>5 DEF deliver_record, MailCore, PassesHold
  <2>2. PICK o \in Outcome :
          /\ mailer' = [mailer EXCEPT ![n] = [@ EXCEPT !.at = "write", !.outcome = o]]
          /\ received' = IF o \in {"sent", "timed_out"} THEN [received EXCEPT ![m] = @ + 1] ELSE received
          /\ unwritten' = IF o = "timed_out" THEN [unwritten EXCEPT ![m] = @ + 1] ELSE unwritten
    BY <1>5, <2>1 DEF deliver_record
  <2>3. \A k \in MailNode : k # n => mailer'[k] = mailer[k]
    BY <1>1, <2>2 DEF MailTypeOK
  <2>4. ~Told(m)
    BY <2>1, NotTold DEF SentBy
  <2>5. mailer'[n].outcome = o /\ mailer'[n].at = "write" /\ mailer'[n].msg = m
    BY <1>1, <2>1, <2>2 DEF MailTypeOK, MailPass
  <2>6. o = "sent" => Told(m)'
    BY <2>5 DEF Told, SentBy
  <2>7. ASSUME NEW k \in Msg, k # m PROVE (Told(k) => Told(k)') /\ received'[k] = received[k] /\ unwritten'[k] = unwritten[k]
    BY <1>1, <2>1, <2>2, <2>3, <2>7, ToldKept DEF MailTypeOK
  <2>8. received'[m] <= IF Told(m)' THEN 1 + unwritten'[m] ELSE unwritten'[m]
    <3>1. received[m] <= unwritten[m] /\ received[m] \in Nat /\ unwritten[m] \in Nat
      BY <1>1, <2>1, <2>4 DEF SentCounted
    <3>2. received'[m] = (IF o \in {"sent", "timed_out"} THEN received[m] + 1 ELSE received[m]) /\ unwritten'[m] = IF o = "timed_out" THEN unwritten[m] + 1 ELSE unwritten[m]
      BY <1>1, <2>1, <2>2 DEF MailTypeOK
    <3>3. QED
      BY <2>6, <3>1, <3>2
  <2>9. QED
    BY <1>1, <2>7, <2>8 DEF SentCounted
<1>6. ASSUME NEW n \in MailNode, write_down(n) PROVE SentCounted'
  <2>1. PICK m \in Msg : m = mailer[n].msg
    BY <1>6, WriteDownCore
  <2>2. /\ In(m, {"SENDING"}) /\ mail'[m] # NoMail /\ mail'[m].status = Ended(m, mailer[n].outcome)
        /\ \A k \in Msg : k # m => mail'[k] = mail[k]
        /\ \A k \in MailNode : k # n => mailer'[k] = mailer[k]
    BY <1>6, <2>1, WriteDownCore
  <2>3. mailer[n].at = "write" /\ UNCHANGED <<received, unwritten>>
    BY <1>6 DEF write_down
  <2>4. mailer[n].outcome = "sent" => In(m, {"SENT"})'
    BY <2>2 DEF Ended, In, Written
  <2>5. Told(m) => Told(m)'
    BY <2>1, <2>3, <2>4, NotTold DEF Told, SentBy
  <2>6. ASSUME NEW k \in Msg, k # m, Told(k) PROVE Told(k)'
    BY <2>1, <2>2, <2>6 DEF Told, SentBy, In, Written
  <2>7. QED
    BY <1>1, <2>3, <2>5, <2>6, MailCountKept
<1>7. ASSUME NEW n \in MailNode, WriteRefused(n) \/ MailerDies(n) PROVE SentCounted'
  <2>1. mailer[n] \in MailPass /\ mailer[n].at # "idle" /\ UNCHANGED <<mail, received>> /\ unwritten' = Unwritten(n)
    BY <1>1, <1>7 DEF WriteRefused, MailerDies, MailTypeOK
  <2>2. \A o \in MailNode : o # n => mailer'[o] = mailer[o]
    BY <1>1, <1>7 DEF MailTypeOK, WriteRefused, MailerDies
  <2>3. CASE mailer[n].at # "write"
    BY <1>1, <2>1, <2>2, <2>3, ToldKept, MailCountKept DEF Unwritten
  <2>4. CASE mailer[n].at = "write"
    <3>1. PICK m \in Msg : m = mailer[n].msg
      BY <2>4 DEF MailCore, PassesHold
    <3>2. ASSUME NEW k \in Msg, k # m PROVE (Told(k) => Told(k)') /\ unwritten'[k] = unwritten[k]
      <4>1. Told(k) => Told(k)'
        BY <2>1, <2>2, <3>1, <3>2 DEF Told, SentBy, In, Written
      <4>2. unwritten'[k] = unwritten[k]
        BY <1>1, <2>1, <3>1, <3>2 DEF Unwritten, MailTypeOK
      <4>3. QED
        BY <4>1, <4>2
    <3>3. received'[m] <= unwritten'[m]
      <4>1. CASE SentBy(n, m)
        <5>1. unwritten'[m] = unwritten[m] + 1
          BY <1>1, <2>1, <3>1, <4>1 DEF Unwritten, SentBy, MailTypeOK
        <5>2. received[m] <= 1 + unwritten[m]
          BY <1>1, <3>1, <4>1 DEF SentCounted, Told
        <5>3. QED
          BY <1>1, <2>1, <3>1, <5>1, <5>2
      <4>2. CASE ~SentBy(n, m)
        <5>1. unwritten'[m] = unwritten[m]
          BY <2>1, <2>4, <3>1, <4>2 DEF Unwritten, SentBy
        <5>2. received[m] <= unwritten[m]
          BY <2>4, <3>1, <4>2, NotTold DEF SentCounted
        <5>3. QED
          BY <2>1, <5>1, <5>2
      <4>3. QED
        BY <4>1, <4>2
    <3>4. received'[m] \in Nat /\ unwritten'[m] \in Nat
      <4>1. received[m] \in Nat /\ unwritten[m] \in Nat /\ unwritten[m] + 1 \in Nat
        BY <1>1, <3>1
      <4>2. unwritten'[m] \in {unwritten[m], unwritten[m] + 1}
        BY <1>1, <2>1, <3>1 DEF Unwritten, MailTypeOK
      <4>3. QED
        BY <2>1, <4>1, <4>2
    <3>5. QED
      BY <1>1, <2>1, <3>2, <3>3, <3>4 DEF SentCounted
  <2>5. QED
    BY <2>3, <2>4
<1>8. QED
  BY <1>2, <1>3, <1>4, <1>5, <1>6, <1>7 DEF MailNext, Pass

-----------------------------------------------------------------------------
(* The theorems.                                                           *)

\* What the strengthening gives: a message has one sender and leaves again only unrecorded.
LEMMA MailGives == MailIInv => MailInv
<1> SUFFICES ASSUME MailIInv PROVE MailInv
  OBVIOUS
<1>1. \A m \in Msg : received[m] \in Nat /\ unwritten[m] \in Nat
  BY DEF MailIInv, MailCore, MailTypeOK
<1>2. ReceivedOnce
  BY <1>1 DEF MailIInv, SentCounted, ReceivedOnce
<1>3. QED
  BY <1>2 DEF MailIInv, MailCore, MailInv

\* The queue: however passes overlap, die and lose results, a message has one sender, leaves again only where its row never learnt that it left, and is never parked where no pass reads.
THEOREM OneSend == MailSpec => []MailInv
<1>1. MailInit => MailIInv
  BY MailCoreInit DEF MailIInv, SentCounted, MailInit
<1>2. MailIInv /\ [MailNext]_mailVars => MailIInv'
  BY MailCoreStep, CountStep DEF MailIInv
<1>3. QED
  BY <1>1, <1>2, MailGives, PTL DEF MailSpec

\* As a message ended it stays: no late result, reclaim or claim moves a row that is settled.
THEOREM EndedForGood == MailSpec => EndedStays
<1>1. MailInit => MailCore
  BY MailCoreInit
<1>2. MailCore /\ [MailNext]_mailVars => MailCore'
  BY MailCoreStep
<1>3. MailCore /\ [MailNext]_mailVars => [\A m \in Msg : In(m, Final) => (mail'[m] # NoMail /\ mail'[m].status = mail[m].status)]_mailVars
  BY EndedStep
<1>4. QED
  BY <1>1, <1>2, <1>3, PTL DEF MailSpec, EndedStays

-----------------------------------------------------------------------------
(* App events.                                                             *)

Working == {"settle", "dispatch"}

\* An id names one row: no two stored ones, no two staged ones, and none of each.
IdsName ==
  /\ \A u, v \in Uuid : (Stored(u) /\ Stored(v) /\ event[u].id = event[v].id) => u = v
  /\ \A r \in Report, u, v \in Uuid : (Staged(r, u) /\ Stored(v)) => event[v].id # report[r].staged[u]
  /\ \A q, r \in Report, u, v \in Uuid : (Staged(q, u) /\ Staged(r, v) /\ report[q].staged[u] = report[r].staged[v]) => q = r /\ u = v

\* Every id in sight was given, and one that is only staged is in nobody's hands.
IdsGiven ==
  /\ \A u \in Uuid : Stored(u) => event[u].id <= eventIds
  /\ \A p \in EventPass : pass[p].id <= eventIds
  /\ \A id \in trimmed : id <= eventIds
  /\ \A r \in Report, u \in Uuid : Staged(r, u) => /\ report[r].staged[u] <= eventIds
                                                  /\ report[r].staged[u] \notin trimmed
                                                  /\ \A p \in EventPass : pass[p].id # report[r].staged[u]

\* What a request staged is not stored, no other request staged it, and it is exactly what the request counted.
StagedAlone ==
  /\ \A r \in Report, u \in Uuid : Staged(r, u) => ~Stored(u)
  /\ \A q, r \in Report, u \in Uuid : (Staged(q, u) /\ Staged(r, u)) => q = r
  /\ \A r \in Report : report[r].at = "answered" \/ \A u \in Uuid : u \in report[r].accepted <=> Staged(r, u)
  /\ \A r \in Report : report[r].at = "answered" => report[r].staged = NothingStaged

\* The row a pass holds stays as the claim left it.
HeldWorks == \A p \in EventPass : pass[p].at \in Working => \A u \in OfId(pass[p].id) : event[u].status = "processing" /\ ~event[u].stale

\* A row that was not read to its end has left nothing on the log.
UnreadUnlogged == \A u \in Uuid : event[u] = NoEvent \/ event[u].status # "processed" => logged[u] <= gone[u]

Rows == EventsTypeOK /\ IdsName /\ IdsGiven /\ StagedAlone

EventsIInv == Rows /\ HeldWorks /\ UnreadUnlogged /\ AcceptedOnce /\ OnePassPerEvent /\ LoggedOnce /\ TrimsOnlySpent
-----------------------------------------------------------------------------
(* Rows and ids.                                                           *)

\* A stored row has the fields of the table, and no such row is taken for the absence of one.
LEMMA RowIsStored == \A row \in AppEventRow : row # NoEvent
<1>1. SUFFICES ASSUME NEW row \in AppEventRow, row = NoEvent PROVE FALSE  OBVIOUS
<1>2. DOMAIN row = {"id", "status", "attempts", "stale"}  BY DEF AppEventRow
<1>3. DOMAIN row = {"id"}  BY <1>1 DEF NoEvent
<1> QED  BY <1>2, <1>3

LEMMA StoredRow ==
  ASSUME EventsTypeOK, NEW u \in Uuid, Stored(u)
  PROVE  event[u] \in AppEventRow /\ event[u].id \in Nat
<1>1. event[u] \in AppEventRow  BY DEF EventsTypeOK, Stored
<1> QED  BY <1>1 DEF AppEventRow

\* A step that stores nothing, stages nothing, and hands out only ids of stored rows leaves the ids as they were.
LEMMA IdsKept ==
  ASSUME EventsTypeOK, IdsName, IdsGiven, StagedAlone,
         UNCHANGED <<report, eventIds>>,
         \A u \in Uuid : Stored(u)' => Stored(u) /\ event'[u].id = event[u].id,
         \A p \in EventPass : pass'[p].id = pass[p].id \/ pass'[p].id = 0 \/ \E u \in Uuid : Stored(u) /\ pass'[p].id = event[u].id,
         \A id \in trimmed' : id \in trimmed \/ \E u \in Uuid : Stored(u) /\ id = event[u].id
  PROVE  IdsName' /\ IdsGiven' /\ StagedAlone'
<1>0. \A r \in Report, u \in Uuid : Staged(r, u)' <=> Staged(r, u)  BY DEF Staged
<1>1. IdsName'
  <2>1. \A u, v \in Uuid : (Stored(u)' /\ Stored(v)' /\ event'[u].id = event'[v].id) => u = v  BY DEF IdsName
  <2>2. \A r \in Report, u, v \in Uuid : (Staged(r, u)' /\ Stored(v)') => event'[v].id # report'[r].staged[u]  BY <1>0 DEF IdsName
  <2>3. \A q, r \in Report, u, v \in Uuid : (Staged(q, u)' /\ Staged(r, v)' /\ report'[q].staged[u] = report'[r].staged[v]) => q = r /\ u = v
    BY <1>0 DEF IdsName
  <2> QED  BY <2>1, <2>2, <2>3 DEF IdsName
<1>2. IdsGiven'
  <2>0. eventIds \in Nat  BY DEF EventsTypeOK
  <2>1. \A u \in Uuid : Stored(u)' => event'[u].id <= eventIds'  BY DEF IdsGiven
  <2>2. \A p \in EventPass : pass'[p].id <= eventIds'
    <3>1. SUFFICES ASSUME NEW p \in EventPass PROVE pass'[p].id <= eventIds  OBVIOUS
    <3>2. CASE pass'[p].id = pass[p].id  BY <3>2 DEF IdsGiven
    <3>3. CASE pass'[p].id = 0  BY <3>3, <2>0
    <3>4. CASE \E u \in Uuid : Stored(u) /\ pass'[p].id = event[u].id  BY <3>4 DEF IdsGiven
    <3> QED  BY <3>2, <3>3, <3>4
  <2>3. \A id \in trimmed' : id <= eventIds'  BY DEF IdsGiven
  <2>4. ASSUME NEW r \in Report, NEW u \in Uuid, Staged(r, u)
        PROVE  /\ report[r].staged[u] <= eventIds /\ report[r].staged[u] \notin trimmed'
               /\ \A p \in EventPass : pass'[p].id # report[r].staged[u]
    <3>1. report[r].staged[u] <= eventIds /\ report[r].staged[u] # 0  BY <2>4 DEF IdsGiven, Staged
    <3>2. \A v \in Uuid : Stored(v) => event[v].id # report[r].staged[u]  BY <2>4 DEF IdsName
    <3>3. report[r].staged[u] \notin trimmed'  BY <2>4, <3>2 DEF IdsGiven
    <3>4. \A p \in EventPass : pass'[p].id # report[r].staged[u]
      <4>1. SUFFICES ASSUME NEW p \in EventPass PROVE pass'[p].id # report[r].staged[u]  OBVIOUS
      <4>2. pass[p].id # report[r].staged[u]  BY <2>4 DEF IdsGiven
      <4>3. CASE pass'[p].id = pass[p].id  BY <4>3, <4>2
      <4>4. CASE pass'[p].id = 0  BY <4>4, <3>1
      <4>5. CASE \E v \in Uuid : Stored(v) /\ pass'[p].id = event[v].id  BY <4>5, <3>2
      <4> QED  BY <4>3, <4>4, <4>5
    <3> QED  BY <3>1, <3>3, <3>4
  <2>5. \A r \in Report, u \in Uuid : Staged(r, u)' => /\ report'[r].staged[u] <= eventIds' /\ report'[r].staged[u] \notin trimmed'
                                                      /\ \A p \in EventPass : pass'[p].id # report'[r].staged[u]
    BY <2>4, <1>0
  <2> QED  BY <2>1, <2>2, <2>3, <2>5 DEF IdsGiven
<1>3. StagedAlone'
  <2>1. \A r \in Report, u \in Uuid : Staged(r, u)' => ~Stored(u)'  BY <1>0 DEF StagedAlone
  <2>2. \A q, r \in Report, u \in Uuid : (Staged(q, u)' /\ Staged(r, u)') => q = r  BY <1>0 DEF StagedAlone
  <2>3. \A r \in Report : report'[r].at = "answered" \/ \A u \in Uuid : u \in report'[r].accepted <=> Staged(r, u)'  BY <1>0 DEF StagedAlone
  <2>4. \A r \in Report : report'[r].at = "answered" => report'[r].staged = NothingStaged'  BY DEF StagedAlone, NothingStaged
  <2> QED  BY <2>1, <2>2, <2>3, <2>4 DEF StagedAlone
<1> QED  BY <1>1, <1>2, <1>3

\* Rows an event was given: the one it has, and those that were deleted.
Given(u) == gone[u] + (IF Stored(u) THEN 1 ELSE 0)

\* While no request is answered, and no row is taken off the count, an event is counted as before.
LEMMA CountKept ==
  ASSUME AcceptedOnce, report' = report, \A u \in Uuid : Given(u)' = Given(u)
  PROVE  AcceptedOnce'
BY DEF AcceptedOnce, Given

\* A step that takes up no event and leaves the held rows their state leaves each of them to its pass.
LEMMA HeldKept ==
  ASSUME EventsTypeOK, HeldWorks, OnePassPerEvent,
         \A p \in EventPass : pass'[p].at \in Working => pass[p].at \in Working /\ pass'[p].id = pass[p].id,
         \A p \in EventPass : pass'[p].at \in Working =>
           \A u \in Uuid : (Stored(u)' /\ event'[u].id = pass[p].id) =>
             Stored(u) /\ event[u].id = pass[p].id /\ event'[u].status = event[u].status /\ event'[u].stale = event[u].stale
  PROVE  HeldWorks' /\ OnePassPerEvent'
<1>1. ASSUME NEW p \in EventPass, pass'[p].at \in Working, NEW u \in Uuid, Stored(u)', event'[u].id = pass'[p].id
      PROVE  u \in OfId(pass[p].id) /\ event'[u].status = event[u].status /\ event'[u].stale = event[u].stale
  <2>1. pass'[p].id = pass[p].id  BY <1>1
  <2> QED  BY <1>1, <2>1 DEF OfId
<1>2. HeldWorks'
  <2>1. SUFFICES ASSUME NEW p \in EventPass, pass'[p].at \in Working, NEW u \in Uuid, Stored(u)', event'[u].id = pass'[p].id
                 PROVE  event'[u].status = "processing" /\ ~event'[u].stale
    BY DEF HeldWorks, OfId
  <2>2. u \in OfId(pass[p].id) /\ event'[u].status = event[u].status /\ event'[u].stale = event[u].stale  BY <1>1, <2>1
  <2>3. pass[p].at \in Working  BY <2>1
  <2> QED  BY <2>2, <2>3 DEF HeldWorks
<1>3. OnePassPerEvent'
  <2>1. SUFFICES ASSUME NEW p \in EventPass, NEW q \in EventPass, p # q, pass'[p].at \in Working, pass'[q].at \in Working, pass'[p].id = pass'[q].id,
                        NEW u \in Uuid, Stored(u)', event'[u].id = pass'[p].id
                 PROVE  FALSE
    BY DEF OnePassPerEvent, OfId, Working
  <2>2. OfId(pass[p].id) = {}  BY <2>1 DEF OnePassPerEvent, Working
  <2> QED  BY <1>1, <2>1, <2>2
<1> QED  BY <1>2, <1>3

\* A step that touches no row that is spent leaves the page of the retention good.
LEMMA PageKept ==
  ASSUME TrimsOnlySpent,
         trimmed' \subseteq trimmed,
         \A u \in Uuid : Stored(u)' => Stored(u) /\ event'[u].id = event[u].id /\ (Spent(event[u]) => event'[u] = event[u])
  PROVE  TrimsOnlySpent'
<1>1. SUFFICES ASSUME NEW id \in trimmed', NEW u \in OfId(id)' PROVE Spent(event'[u]) /\ ~TakeableEvent(event'[u])
  BY DEF TrimsOnlySpent, Spent, TakeableEvent, Abandoned
<1>2. u \in Uuid /\ Stored(u)' /\ event'[u].id = id /\ id \in trimmed  BY <1>1 DEF OfId
<1>3. u \in OfId(id)  BY <1>2 DEF OfId
<1>4. Spent(event[u]) /\ ~TakeableEvent(event[u])  BY <1>2, <1>3 DEF TrimsOnlySpent
<1> QED  BY <1>2, <1>4

\* A step that writes nothing on the log, deletes nothing and opens no row that was read leaves the log in step with the rows.
LEMMA LogKept ==
  ASSUME UnreadUnlogged, LoggedOnce, logged' = logged, gone' = gone,
         \A u \in Uuid : (Stored(u)' <=> Stored(u)) /\ (event[u] # NoEvent /\ event[u].status = "processed" => event'[u].status = "processed")
  PROVE  UnreadUnlogged' /\ LoggedOnce'
<1>1. UnreadUnlogged'  BY DEF UnreadUnlogged, Stored, NoEvent
<1>2. LoggedOnce'  BY DEF LoggedOnce
<1> QED  BY <1>1, <1>2

\* A row that is settled in any way, or taken, keeps the shape of a row, its id and its name.
LEMMA Rewritten ==
  ASSUME EventsTypeOK, NEW u \in Uuid, Stored(u), NEW s \in AppEventStatus, NEW a \in 0..EventAttempts, NEW t \in BOOLEAN
  PROVE  /\ [event[u] EXCEPT !.status = s, !.attempts = a, !.stale = t] \in AppEventRow
         /\ [event[u] EXCEPT !.status = s] \in AppEventRow
         /\ [event[u] EXCEPT !.stale = t] \in AppEventRow
<1>1. event[u] \in AppEventRow  BY StoredRow
<1> QED  BY <1>1 DEF AppEventRow

-----------------------------------------------------------------------------
(* A pass that only moves on.                                              *)

\* A step of passes alone, that takes up no event, keeps everything.
LEMMA PassMoves ==
  ASSUME EventsIInv,
         UNCHANGED <<event, eventIds, report, trimmed, logged, gone>>,
         pass' \in [EventPass -> PassRow], eventDeaths' \in 0..MaxEventDeaths,
         \A p \in EventPass : pass'[p].id = pass[p].id \/ pass'[p].id = 0,
         \A p \in EventPass : pass'[p].at \in Working => pass[p].at \in Working /\ pass'[p].id = pass[p].id
  PROVE  EventsIInv'
<1> USE DEF EventsIInv, Rows
<1>1. EventsTypeOK'  BY DEF EventsTypeOK
<1>2. \A u \in Uuid : Stored(u)' <=> Stored(u)  BY DEF Stored
<1>3. IdsName' /\ IdsGiven' /\ StagedAlone'  BY <1>2, IdsKept
<1>4. HeldWorks' /\ OnePassPerEvent'  BY <1>2, HeldKept
<1>5. UnreadUnlogged' /\ LoggedOnce'  BY <1>2, LogKept
<1>6. AcceptedOnce'  BY <1>2, CountKept DEF Given
<1>7. TrimsOnlySpent'  BY <1>2, PageKept
<1> QED  BY <1>1, <1>3, <1>4, <1>5, <1>6, <1>7

LEMMA ListingKeeps == ASSUME EventsIInv, NEW p \in EventPass, ProcessPending(p) PROVE EventsIInv'
<1> DEFINE ids == {event[u].id : u \in {v \in Uuid : Stored(v) /\ TakeableEvent(event[v])}}
           new == [pass[p] EXCEPT !.at = "claim", !.todo = ids]
<1>1. EventsTypeOK  BY DEF EventsIInv, Rows
<1>2. pass[p] \in PassRow  BY <1>1 DEF EventsTypeOK
<1>3. ids \in SUBSET Nat  BY <1>1, StoredRow
<1>4. new \in PassRow  BY <1>2, <1>3 DEF PassRow
<1>5. new.at = "claim" /\ new.id = pass[p].id  BY <1>2 DEF PassRow
<1>6. pass' = [pass EXCEPT ![p] = new]  BY DEF ProcessPending
<1>7. eventDeaths' \in 0..MaxEventDeaths  BY <1>1 DEF ProcessPending, EventsTypeOK
<1> HIDE DEF new
<1>8. pass \in [EventPass -> PassRow]  BY <1>1 DEF EventsTypeOK
<1> QED  BY <1>4, <1>5, <1>6, <1>7, <1>8, PassMoves DEF ProcessPending, Working

LEMMA IdlePassIsOne == IdlePass \in PassRow /\ IdlePass.at = "idle" /\ IdlePass.id = 0
BY DEF IdlePass, PassRow

LEMMA EndingKeeps == ASSUME EventsIInv, NEW p \in EventPass, PassEnds(p) PROVE EventsIInv'
<1>1. EventsTypeOK  BY DEF EventsIInv, Rows
<1>2. pass \in [EventPass -> PassRow] /\ eventDeaths' \in 0..MaxEventDeaths  BY <1>1 DEF PassEnds, EventsTypeOK
<1>3. pass' = [pass EXCEPT ![p] = IdlePass]  BY DEF PassEnds
<1> QED  BY <1>2, <1>3, IdlePassIsOne, PassMoves DEF PassEnds, Working

LEMMA DyingKeeps == ASSUME EventsIInv, NEW p \in EventPass, PassDies(p) PROVE EventsIInv'
<1>1. EventsTypeOK  BY DEF EventsIInv, Rows
<1>2. pass \in [EventPass -> PassRow] /\ eventDeaths' \in 0..MaxEventDeaths  BY <1>1, AppEventsAssumption DEF PassDies, EventsTypeOK
<1>3. pass' = [pass EXCEPT ![p] = IdlePass]  BY DEF PassDies
<1> QED  BY <1>2, <1>3, IdlePassIsOne, PassMoves DEF PassDies, Working

LEMMA ReleasedRow ==
  ASSUME EventsTypeOK, NEW p \in EventPass
  PROVE  Released(p) \in PassRow /\ Released(p).at = "claim" /\ Released(p).id = 0
<1>1. pass[p] \in PassRow  BY DEF EventsTypeOK
<1> QED  BY <1>1 DEF Released, PassRow

LEMMA ReadingKeeps == ASSUME EventsIInv, NEW p \in EventPass, SettleReads(p) PROVE EventsIInv'
<1> DEFINE dispatching == [pass[p] EXCEPT !.at = "dispatch"]
           new == IF OfId(pass[p].id) = {} THEN Released(p) ELSE dispatching
<1>1. EventsTypeOK  BY DEF EventsIInv, Rows
<1>2. pass[p] \in PassRow  BY <1>1 DEF EventsTypeOK
<1>3. dispatching \in PassRow /\ dispatching.at = "dispatch" /\ dispatching.id = pass[p].id  BY <1>2 DEF PassRow
<1>4. new \in PassRow /\ (new.id = pass[p].id \/ new.id = 0) /\ (new.at \in Working => new.id = pass[p].id)
  <2> HIDE DEF dispatching
  <2> QED  BY <1>1, <1>3, ReleasedRow DEF Working
<1>5. pass' = [pass EXCEPT ![p] = new]  BY DEF SettleReads
<1>6. pass \in [EventPass -> PassRow] /\ eventDeaths' \in 0..MaxEventDeaths  BY <1>1 DEF SettleReads, EventsTypeOK
<1>7. pass[p].at \in Working  BY DEF SettleReads, PassAt, Working
<1> HIDE DEF new
<1> QED  BY <1>4, <1>5, <1>6, <1>7, PassMoves DEF SettleReads

-----------------------------------------------------------------------------
(* A pass that settles the event it holds.                                 *)

\* The row a pass settles is its own: no other pass held it, and no page of the retention had it.
LEMMA Settling ==
  ASSUME EventsIInv, NEW p \in EventPass, PassAt(p, "dispatch"), NEW how \in [Uuid -> AppEventStatus],
         event' = [u \in Uuid |-> IF u \in OfId(pass[p].id) THEN [event[u] EXCEPT !.status = how[u]] ELSE event[u]],
         pass' = [pass EXCEPT ![p] = Released(p)],
         logged' \in [Uuid -> Nat],
         UNCHANGED <<eventIds, report, trimmed, gone, eventDeaths>>
  PROVE  /\ Rows' /\ HeldWorks' /\ OnePassPerEvent' /\ AcceptedOnce' /\ TrimsOnlySpent'
         /\ \A u \in Uuid : Stored(u)' <=> Stored(u)
         /\ \A u \in OfId(pass[p].id) : Stored(u) /\ event[u].status = "processing" /\ event'[u].status = how[u]
         /\ \A u \in Uuid \ OfId(pass[p].id) : event'[u] = event[u]
<1> USE DEF EventsIInv, Rows
<1>1. ASSUME NEW u \in OfId(pass[p].id)
      PROVE  /\ u \in Uuid /\ Stored(u) /\ event[u] \in AppEventRow /\ event[u].status = "processing"
             /\ event'[u] = [event[u] EXCEPT !.status = how[u]] /\ event'[u] \in AppEventRow /\ event'[u] # NoEvent
             /\ event'[u].id = event[u].id /\ event'[u].status = how[u]
  <2>1. u \in Uuid /\ Stored(u) /\ event[u] \in AppEventRow  BY <1>1, StoredRow DEF OfId
  <2>2. event[u].status = "processing"  BY <1>1 DEF HeldWorks, Working, PassAt
  <2>3. event'[u] = [event[u] EXCEPT !.status = how[u]]  BY <1>1, <2>1
  <2>4. event'[u] \in AppEventRow /\ event'[u].id = event[u].id /\ event'[u].status = how[u]  BY <2>1, <2>3 DEF AppEventRow
  <2> QED  BY <2>1, <2>2, <2>3, <2>4, RowIsStored
<1>2. \A u \in Uuid \ OfId(pass[p].id) : event'[u] = event[u]  OBVIOUS
<1>3. \A u \in Uuid : (Stored(u)' <=> Stored(u)) /\ (Stored(u) => event'[u].id = event[u].id)
  BY <1>1, <1>2 DEF Stored, NoEvent
<1>4. pass \in [EventPass -> PassRow] /\ pass' \in [EventPass -> PassRow]  BY ReleasedRow DEF EventsTypeOK
<1>5. EventsTypeOK'
  <2>1. event' \in [Uuid -> AppEventRow \cup {NoEvent}]  BY <1>1, <1>2 DEF EventsTypeOK, NoEvent
  <2> QED  BY <2>1, <1>4 DEF EventsTypeOK
<1>6. \A q \in EventPass : q # p => pass'[q] = pass[q]  BY <1>4
<1>7. pass'[p].id = 0 /\ pass'[p].at = "claim"  BY <1>4, ReleasedRow
<1>8. IdsName' /\ IdsGiven' /\ StagedAlone'
  <2>1. \A q \in EventPass : pass'[q].id = pass[q].id \/ pass'[q].id = 0  BY <1>6, <1>7
  <2> QED  BY <2>1, <1>3, IdsKept
<1>9. HeldWorks' /\ OnePassPerEvent'
  <2>1. ASSUME NEW q \in EventPass, pass'[q].at \in Working PROVE q # p /\ pass'[q] = pass[q]  BY <2>1, <1>6, <1>7 DEF Working
  <2>2. ASSUME NEW q \in EventPass, pass'[q].at \in Working, NEW u \in Uuid, Stored(u)', event'[u].id = pass[q].id
        PROVE  Stored(u) /\ event[u].id = pass[q].id /\ event'[u].status = event[u].status /\ event'[u].stale = event[u].stale
    <3>1. Stored(u) /\ event[u].id = pass[q].id  BY <2>2, <1>3
    <3>2. u \in OfId(pass[q].id)  BY <3>1 DEF OfId
    <3>3. u \notin OfId(pass[p].id)
      <4>1. SUFFICES ASSUME u \in OfId(pass[p].id) PROVE FALSE  OBVIOUS
      <4>2. pass[q].id = pass[p].id  BY <4>1, <3>1 DEF OfId
      <4>3. pass[p].at \in Working /\ pass[q].at \in Working /\ p # q  BY <2>1, <2>2 DEF PassAt, Working
      <4>4. OfId(pass[p].id) = {}  BY <4>2, <4>3 DEF OnePassPerEvent, Working
      <4> QED  BY <4>1, <4>4
    <3> QED  BY <3>1, <3>3, <1>2
  <2> QED  BY <2>1, <2>2, HeldKept
<1>10. AcceptedOnce'  BY <1>3, CountKept DEF Given
<1>11. TrimsOnlySpent'
  <2>1. \A u \in Uuid : Spent(event[u]) => u \notin OfId(pass[p].id)  BY <1>1 DEF Spent
  <2> QED  BY <2>1, <1>2, <1>3, PageKept
<1> QED  BY <1>1, <1>2, <1>3, <1>5, <1>8, <1>9, <1>10, <1>11

LEMMA SettlingKeeps == ASSUME EventsIInv, NEW p \in EventPass, SettleDone(p) PROVE EventsIInv'
<1> DEFINE how == [u \in Uuid |-> IF u \in ReadUuid THEN "processed" ELSE "ignored"]
           mine == OfId(pass[p].id)
<1>0. EventsTypeOK /\ gone \in [Uuid -> Nat] /\ logged \in [Uuid -> Nat]  BY DEF EventsIInv, Rows, EventsTypeOK
<1>1. how \in [Uuid -> AppEventStatus]  BY DEF AppEventStatus
<1>2. event' = [u \in Uuid |-> IF u \in OfId(pass[p].id) THEN [event[u] EXCEPT !.status = how[u]] ELSE event[u]]  BY DEF SettleDone
<1>3. logged' = [u \in Uuid |-> IF u \in mine \cap ReadUuid THEN logged[u] + 1 ELSE logged[u]]  BY DEF SettleDone
<1>4. logged' \in [Uuid -> Nat]  BY <1>0, <1>3
<1>5. how = [u \in Uuid |-> IF u \in ReadUuid THEN "processed" ELSE "ignored"]  OBVIOUS
<1> HIDE DEF how
<1>6. /\ Rows' /\ HeldWorks' /\ OnePassPerEvent' /\ AcceptedOnce' /\ TrimsOnlySpent'
      /\ \A u \in Uuid : Stored(u)' <=> Stored(u)
      /\ \A u \in mine : Stored(u) /\ event[u].status = "processing" /\ event'[u].status = how[u]
      /\ \A u \in Uuid \ mine : event'[u] = event[u]
  BY <1>1, <1>2, <1>4, Settling DEF SettleDone
<1> HIDE DEF mine
<1>7. gone' = gone  BY DEF SettleDone
<1>8. \A u \in Uuid : u \in mine => logged[u] <= gone[u]  BY <1>6 DEF EventsIInv, UnreadUnlogged
<1>9. UnreadUnlogged'
  <2>1. SUFFICES ASSUME NEW u \in Uuid, event'[u] = NoEvent \/ event'[u].status # "processed" PROVE logged'[u] <= gone'[u]
    BY DEF UnreadUnlogged, NoEvent
  <2>2. CASE u \in mine
    <3>1. event'[u] # NoEvent  BY <2>2, <1>6 DEF Stored, NoEvent
    <3>2. u \notin ReadUuid  BY <2>1, <2>2, <3>1, <1>5, <1>6
    <3> QED  BY <2>2, <3>2, <1>3, <1>7, <1>8
  <2>3. CASE u \notin mine
    <3>1. event'[u] = event[u] /\ logged'[u] = logged[u]  BY <2>3, <1>3, <1>6
    <3> QED  BY <2>1, <3>1, <1>7 DEF EventsIInv, UnreadUnlogged
  <2> QED  BY <2>2, <2>3
<1>10. LoggedOnce'
  <2>1. SUFFICES ASSUME NEW u \in Uuid PROVE logged'[u] <= gone'[u] + (IF Stored(u)' THEN 1 ELSE 0)  BY DEF LoggedOnce
  <2>2. CASE u \in mine
    <3>1. Stored(u)' /\ logged[u] <= gone[u]  BY <2>2, <1>6, <1>8
    <3>2. logged'[u] <= logged[u] + 1  BY <1>3, <1>0
    <3> QED  BY <3>1, <3>2, <1>0, <1>4, <1>7
  <2>3. CASE u \notin mine
    <3>1. logged'[u] = logged[u] /\ (Stored(u)' <=> Stored(u))  BY <2>3, <1>3, <1>6
    <3> QED  BY <3>1, <1>7 DEF EventsIInv, LoggedOnce
  <2> QED  BY <2>2, <2>3
<1> QED  BY <1>6, <1>9, <1>10 DEF EventsIInv

LEMMA FailingKeeps == ASSUME EventsIInv, NEW p \in EventPass, SettleFails(p) PROVE EventsIInv'
<1> DEFINE how == [u \in Uuid |-> "failed"]
<1>1. how \in [Uuid -> AppEventStatus]  BY DEF AppEventStatus
<1>2. event' = [u \in Uuid |-> IF u \in OfId(pass[p].id) THEN [event[u] EXCEPT !.status = how[u]] ELSE event[u]]  BY DEF SettleFails
<1>3. logged' \in [Uuid -> Nat]  BY DEF SettleFails, EventsIInv, Rows, EventsTypeOK
<1> HIDE DEF how
<1>4. /\ Rows' /\ HeldWorks' /\ OnePassPerEvent' /\ AcceptedOnce' /\ TrimsOnlySpent'
      /\ \A u \in Uuid : Stored(u)' <=> Stored(u)
      /\ \A u \in OfId(pass[p].id) : Stored(u) /\ event[u].status = "processing" /\ event'[u].status = how[u]
      /\ \A u \in Uuid \ OfId(pass[p].id) : event'[u] = event[u]
  BY <1>1, <1>2, <1>3, Settling DEF SettleFails
<1>5. UnreadUnlogged' /\ LoggedOnce'
  <2>1. logged' = logged /\ gone' = gone  BY DEF SettleFails
  <2>2. \A u \in Uuid : event[u] # NoEvent /\ event[u].status = "processed" => event'[u].status = "processed"  BY <1>4
  <2> QED  BY <2>1, <2>2, <1>4, LogKept DEF EventsIInv
<1> QED  BY <1>4, <1>5 DEF EventsIInv

-----------------------------------------------------------------------------
(* Rows that are closed, that age and that are taken.                      *)

LEMMA ClosingKeeps == ASSUME EventsIInv, NEW p \in EventPass, CloseExhausted(p) PROVE EventsIInv'
<1> USE DEF EventsIInv, Rows
<1> DEFINE closes(u) == Stored(u) /\ Abandoned(event[u]) /\ event[u].attempts >= EventAttempts
<1>1. \A u \in Uuid : event'[u] = IF closes(u) THEN [event[u] EXCEPT !.status = "failed"] ELSE event[u]  BY DEF CloseExhausted
<1>2. ASSUME NEW u \in Uuid, closes(u)
      PROVE  /\ event[u] \in AppEventRow /\ event'[u] \in AppEventRow /\ event'[u] # NoEvent /\ event'[u].id = event[u].id
             /\ event[u].status = "processing" /\ event[u].stale
  <2>1. event[u] \in AppEventRow  BY <1>2, StoredRow
  <2>2. event'[u] = [event[u] EXCEPT !.status = "failed"]  BY <1>1, <1>2
  <2>3. event'[u] \in AppEventRow /\ event'[u].id = event[u].id  BY <2>1, <2>2 DEF AppEventRow, AppEventStatus
  <2>4. event[u].status = "processing" /\ event[u].stale  BY <1>2 DEF Abandoned
  <2> QED  BY <2>1, <2>3, <2>4, RowIsStored
<1>3. \A u \in Uuid : ~closes(u) => event'[u] = event[u]  BY <1>1
<1>4. \A u \in Uuid : (Stored(u)' <=> Stored(u)) /\ (Stored(u) => event'[u].id = event[u].id)  BY <1>2, <1>3 DEF Stored, NoEvent
<1>5. /\ event' \in [Uuid -> AppEventRow \cup {NoEvent}]
      /\ pass' \in [EventPass -> PassRow]
      /\ \A q \in EventPass : pass'[q].id = pass[q].id /\ (pass'[q].at \in Working => pass[q].at \in Working /\ pass'[q] = pass[q])
  <2>1. \A u \in Uuid : event'[u] \in AppEventRow \cup {NoEvent}  BY <1>2, <1>3 DEF EventsTypeOK
  <2>2. event' \in [Uuid -> AppEventRow \cup {NoEvent}]  BY <2>1 DEF CloseExhausted
  <2> DEFINE new == [pass[p] EXCEPT !.at = "list"]
  <2>3. pass[p] \in PassRow /\ pass \in [EventPass -> PassRow]  BY DEF EventsTypeOK
  <2>4. new \in PassRow /\ new.id = pass[p].id /\ new.at = "list"  BY <2>3 DEF PassRow
  <2>5. pass' = [pass EXCEPT ![p] = new]  BY DEF CloseExhausted
  <2> HIDE DEF new
  <2> QED  BY <2>2, <2>3, <2>4, <2>5 DEF Working
<1>6. UNCHANGED <<eventIds, report, trimmed, logged, gone, eventDeaths>>  BY DEF CloseExhausted
<1>7. EventsTypeOK'  BY <1>5, <1>6 DEF EventsTypeOK
<1>8. IdsName' /\ IdsGiven' /\ StagedAlone'  BY <1>4, <1>5, <1>6, IdsKept
<1> HIDE DEF closes
<1>9. HeldWorks' /\ OnePassPerEvent'
  <2>1. ASSUME NEW q \in EventPass, pass'[q].at \in Working, NEW u \in Uuid, Stored(u)', event'[u].id = pass[q].id
        PROVE  Stored(u) /\ event[u].id = pass[q].id /\ event'[u].status = event[u].status /\ event'[u].stale = event[u].stale
    <3>1. Stored(u) /\ event[u].id = pass[q].id  BY <2>1, <1>4
    <3>2. ~event[u].stale  BY <2>1, <3>1, <1>5 DEF HeldWorks, OfId
    <3> QED  BY <3>1, <3>2, <1>2, <1>3
  <2> QED  BY <2>1, <1>5, HeldKept
<1>10. UnreadUnlogged' /\ LoggedOnce'  BY <1>2, <1>3, <1>4, <1>6, LogKept
<1>11. AcceptedOnce'  BY <1>4, <1>6, CountKept DEF Given
<1>12. TrimsOnlySpent'
  <2>1. \A u \in Uuid : Spent(event[u]) => ~closes(u)  BY <1>2 DEF Spent
  <2> QED  BY <2>1, <1>3, <1>4, <1>6, PageKept
<1> QED  BY <1>7, <1>8, <1>9, <1>10, <1>11, <1>12

LEMMA AgeingKeeps == ASSUME EventsIInv, NEW v \in Uuid, EventAgesOut(v) PROVE EventsIInv'
<1> USE DEF EventsIInv, Rows
<1>1. Stored(v) /\ event[v] \in AppEventRow /\ event[v].status = "processing"  BY StoredRow DEF EventAgesOut
<1> DEFINE new == [event[v] EXCEPT !.stale = TRUE]
<1>2. new \in AppEventRow /\ new.id = event[v].id /\ new.status = event[v].status  BY <1>1 DEF AppEventRow
<1>3. event' = [event EXCEPT ![v] = new] /\ event \in [Uuid -> AppEventRow \cup {NoEvent}]  BY DEF EventAgesOut, EventsTypeOK
<1>4. UNCHANGED <<eventIds, report, pass, trimmed, logged, gone, eventDeaths>>  BY DEF EventAgesOut
<1> HIDE DEF new
<1>5. event' \in [Uuid -> AppEventRow \cup {NoEvent}] /\ event'[v] = new /\ \A u \in Uuid \ {v} : event'[u] = event[u]  BY <1>2, <1>3
<1>6. \A u \in Uuid : (Stored(u)' <=> Stored(u)) /\ (Stored(u) => event'[u].id = event[u].id /\ event'[u].status = event[u].status)
  BY <1>1, <1>2, <1>5, RowIsStored DEF Stored, NoEvent
<1>7. EventsTypeOK'  BY <1>4, <1>5 DEF EventsTypeOK
<1>8. IdsName' /\ IdsGiven' /\ StagedAlone'  BY <1>4, <1>6, IdsKept
<1>9. HeldWorks' /\ OnePassPerEvent'
  <2>1. \A q \in EventPass : pass[q].at \in Working => pass[q].id # event[v].id  BY DEF EventAgesOut, Working
  <2>2. ASSUME NEW q \in EventPass, pass'[q].at \in Working, NEW u \in Uuid, Stored(u)', event'[u].id = pass[q].id
        PROVE  Stored(u) /\ event[u].id = pass[q].id /\ event'[u].status = event[u].status /\ event'[u].stale = event[u].stale
    <3>1. Stored(u) /\ event[u].id = pass[q].id  BY <2>2, <1>6
    <3>2. u # v  BY <2>1, <2>2, <3>1, <1>4
    <3> QED  BY <3>1, <3>2, <1>5
  <2> QED  BY <2>2, <1>4, HeldKept
<1>10. UnreadUnlogged' /\ LoggedOnce'
  <2>1. \A u \in Uuid : event[u] # NoEvent /\ event[u].status = "processed" => event'[u].status = "processed"  BY <1>6 DEF Stored
  <2> QED  BY <2>1, <1>4, <1>6, LogKept
<1>11. AcceptedOnce'  BY <1>4, <1>6, CountKept DEF Given
<1>12. TrimsOnlySpent'
  <2>1. ~Spent(event[v])  BY <1>1 DEF Spent
  <2> QED  BY <2>1, <1>4, <1>5, <1>6, PageKept
<1> QED  BY <1>7, <1>8, <1>9, <1>10, <1>11, <1>12

\* The claim takes a row nobody holds, and the id of the claim names no other.
LEMMA ClaimingKeeps == ASSUME EventsIInv, NEW p \in EventPass, ClaimEvent(p) PROVE EventsIInv'
<1> USE DEF EventsIInv, Rows
<1>1. PICK id : id = Min(pass[p].todo)  OBVIOUS
<1> DEFINE taken == {u \in OfId(id) : TakeableEvent(event[u])}
           skipped == [pass[p] EXCEPT !.todo = pass[p].todo \ {id}]
           new == IF taken # {} THEN HoldsEvent(p, id) ELSE skipped
<1>2. /\ \A u \in Uuid : event'[u] = IF u \in taken THEN [event[u] EXCEPT !.status = "processing", !.attempts = @ + 1, !.stale = FALSE] ELSE event[u]
      /\ pass' = [pass EXCEPT ![p] = new] /\ pass[p].at = "claim"
      /\ event' = [u \in Uuid |-> event'[u]]
  BY <1>1 DEF ClaimEvent, PassAt
<1>3. UNCHANGED <<eventIds, report, trimmed, logged, gone, eventDeaths>>  BY DEF ClaimEvent
<1>4. ASSUME NEW u \in taken
      PROVE  /\ u \in Uuid /\ Stored(u) /\ event[u] \in AppEventRow /\ event[u].id = id /\ id \in Nat /\ TakeableEvent(event[u])
             /\ event'[u] \in AppEventRow /\ event'[u] # NoEvent /\ event'[u].id = id /\ event'[u].status = "processing" /\ ~event'[u].stale
  <2>1. u \in Uuid /\ Stored(u) /\ event[u] \in AppEventRow /\ event[u].id = id /\ TakeableEvent(event[u])  BY <1>4, StoredRow DEF OfId
  <2>2. event[u].attempts + 1 \in 0..EventAttempts  BY <2>1, AppEventsAssumption DEF AppEventRow, TakeableEvent
  <2>3. event'[u] = [event[u] EXCEPT !.status = "processing", !.attempts = event[u].attempts + 1, !.stale = FALSE]  BY <1>2, <1>4, <2>1
  <2>4. event'[u] \in AppEventRow /\ event'[u].id = id /\ event'[u].status = "processing" /\ ~event'[u].stale
    BY <2>1, <2>2, <2>3 DEF AppEventRow, AppEventStatus
  <2>5. id \in Nat  BY <2>1 DEF AppEventRow
  <2> QED  BY <2>1, <2>4, <2>5, RowIsStored
<1>5. \A u \in Uuid \ taken : event'[u] = event[u]  BY <1>2
<1>6. \A u \in Uuid : (Stored(u)' <=> Stored(u)) /\ (Stored(u) => event'[u].id = event[u].id)  BY <1>4, <1>5 DEF Stored, NoEvent
<1>7. \A u \in taken : ~(event[u].status = "processing" /\ ~event[u].stale)  BY <1>4 DEF TakeableEvent, Abandoned
<1>8. taken # {} => OfId(id) = taken
  <2>1. SUFFICES ASSUME NEW u \in taken, NEW v \in OfId(id) PROVE v = u  OBVIOUS
  <2>2. v \in Uuid /\ Stored(v) /\ event[v].id = id  BY <2>1 DEF OfId
  <2> QED  BY <2>2, <1>4 DEF IdsName
<1>9. /\ new \in PassRow /\ new.at \in {"claim", "settle"}
      /\ taken # {} => new.id = id
      /\ taken = {} => new.id = pass[p].id /\ new.at = "claim"
  <2>1. pass[p] \in PassRow  BY DEF EventsTypeOK
  <2>2. pass[p].todo \ {id} \in SUBSET Nat  BY <2>1 DEF PassRow
  <2>3. skipped \in PassRow /\ skipped.id = pass[p].id /\ skipped.at = "claim"  BY <2>1, <2>2, <1>2 DEF PassRow
  <2>4. taken # {} => HoldsEvent(p, id) \in PassRow /\ HoldsEvent(p, id).id = id /\ HoldsEvent(p, id).at = "settle"
    <3>1. SUFFICES ASSUME taken # {} PROVE HoldsEvent(p, id) \in PassRow /\ HoldsEvent(p, id).id = id /\ HoldsEvent(p, id).at = "settle"  OBVIOUS
    <3>2. id \in Nat  BY <3>1, <1>4
    <3> QED  BY <3>2, <2>2 DEF HoldsEvent, PassRow
  <2> HIDE DEF skipped
  <2> QED  BY <2>3, <2>4
<1> HIDE DEF new, taken
<1>10. pass \in [EventPass -> PassRow]  BY DEF EventsTypeOK
<1>11. pass' \in [EventPass -> PassRow] /\ pass'[p] = new /\ \A q \in EventPass : q # p => pass'[q] = pass[q]  BY <1>2, <1>9, <1>10
<1>12. EventsTypeOK'
  <2>1. \A u \in Uuid : event'[u] \in AppEventRow \cup {NoEvent}  BY <1>4, <1>5 DEF EventsTypeOK
  <2>2. event' \in [Uuid -> AppEventRow \cup {NoEvent}]  BY <1>2, <2>1
  <2> QED  BY <2>2, <1>3, <1>11 DEF EventsTypeOK
<1>13. IdsName' /\ IdsGiven' /\ StagedAlone'
  <2>1. pass'[p].id = pass[p].id \/ \E u \in Uuid : Stored(u) /\ pass'[p].id = event[u].id  BY <1>4, <1>9, <1>11
  <2> QED  BY <2>1, <1>3, <1>6, <1>11, IdsKept
<1>14. UNCHANGED <<logged, gone>> /\ UnreadUnlogged' /\ LoggedOnce'
  <2>1. \A u \in taken : event[u].status # "processed"  BY <1>4 DEF TakeableEvent, Abandoned
  <2> QED  BY <2>1, <1>3, <1>5, <1>6, LogKept
<1>15. AcceptedOnce'  BY <1>3, <1>6, CountKept DEF Given
<1>16. TrimsOnlySpent'
  <2>1. \A u \in taken : ~Spent(event[u])  BY <1>4, AppEventsAssumption DEF Spent, TakeableEvent, Abandoned, AppEventRow
  <2> QED  BY <2>1, <1>3, <1>5, <1>6, PageKept
<1>17. ASSUME NEW q \in EventPass, q # p, pass'[q].at \in Working
       PROVE  /\ pass[q].at \in Working /\ pass'[q].id = pass[q].id
              /\ \A u \in Uuid : (Stored(u)' /\ event'[u].id = pass'[q].id) => u \in OfId(pass[q].id)
              /\ \A u \in OfId(pass[q].id) : u \notin taken /\ event'[u] = event[u]
  <2>1. pass'[q] = pass[q]  BY <1>11, <1>17
  <2>2. \A u \in OfId(pass[q].id) : u \in Uuid /\ u \notin taken  BY <2>1, <1>7, <1>17 DEF HeldWorks, OfId
  <2>3. \A u \in Uuid : (Stored(u)' /\ event'[u].id = pass'[q].id) => u \in OfId(pass[q].id)  BY <2>1, <1>6 DEF OfId
  <2> QED  BY <2>1, <2>2, <2>3, <1>5, <1>17
<1>18. \A u \in Uuid : (Stored(u)' /\ event'[u].id = id) <=> (Stored(u) /\ event[u].id = id)  BY <1>6
<1>19. HeldWorks'
  <2>1. SUFFICES ASSUME NEW q \in EventPass, pass'[q].at \in Working
                 PROVE  \A u \in Uuid : (Stored(u)' /\ event'[u].id = pass'[q].id) => event'[u].status = "processing" /\ ~event'[u].stale
    BY DEF HeldWorks, OfId
  <2>2. CASE q # p  BY <2>1, <2>2, <1>17 DEF HeldWorks
  <2>3. CASE q = p
    <3>1. taken # {} /\ pass'[q].id = id  BY <2>1, <2>3, <1>9, <1>11 DEF Working
    <3>2. \A u \in Uuid : (Stored(u)' /\ event'[u].id = pass'[q].id) => u \in OfId(id)  BY <2>3, <3>1, <1>18 DEF OfId
    <3> QED  BY <3>1, <3>2, <1>4, <1>8
  <2> QED  BY <2>2, <2>3
<1>20. OnePassPerEvent'
  <2>1. ASSUME NEW q \in EventPass, q # p, pass'[q].at \in Working, pass'[p].at \in Working PROVE pass'[q].id # pass'[p].id
    <3>1. taken # {} /\ pass'[p].id = id  BY <2>1, <1>9, <1>11 DEF Working
    <3>2. PICK u \in taken : TRUE  BY <3>1
    <3>3. u \in Uuid /\ Stored(u) /\ event[u].id = id  BY <3>2, <1>4
    <3>4. u \notin OfId(pass[q].id)  BY <2>1, <3>2, <1>17
    <3> QED  BY <2>1, <3>1, <3>3, <3>4, <1>17 DEF OfId
  <2>2. ASSUME NEW q \in EventPass, NEW s \in EventPass, q # s, q # p, s # p, pass'[q].at \in Working, pass'[s].at \in Working, pass'[q].id = pass'[s].id
        PROVE  \A u \in Uuid : ~(Stored(u)' /\ event'[u].id = pass'[q].id)
    <3>1. OfId(pass[q].id) = {}  BY <2>2, <1>17 DEF OnePassPerEvent, Working
    <3> QED  BY <2>2, <3>1, <1>17
  <2>3. SUFFICES ASSUME NEW q \in EventPass, NEW s \in EventPass, q # s, pass'[q].at \in Working, pass'[s].at \in Working, pass'[q].id = pass'[s].id
                 PROVE  \A u \in Uuid : ~(Stored(u)' /\ event'[u].id = pass'[q].id)
    BY DEF OnePassPerEvent, OfId, Working
  <2> QED  BY <2>1, <2>2, <2>3
<1> QED  BY <1>12, <1>13, <1>14, <1>15, <1>16, <1>19, <1>20

-----------------------------------------------------------------------------
(* What takes rows away.                                                   *)

LEMMA PageReads == ASSUME EventsIInv, TrimReads PROVE EventsIInv'
<1> USE DEF EventsIInv, Rows
<1>1. UNCHANGED <<event, eventIds, report, pass, logged, gone, eventDeaths>>  BY DEF TrimReads
<1>2. \A id \in trimmed' : \E u \in Uuid : Stored(u) /\ Spent(event[u]) /\ id = event[u].id  BY DEF TrimReads
<1>3. \A u \in Uuid : Stored(u)' <=> Stored(u)  BY <1>1 DEF Stored
<1>4. EventsTypeOK'
  <2>1. trimmed' \subseteq Nat  BY <1>2, StoredRow
  <2> QED  BY <2>1, <1>1 DEF EventsTypeOK
<1>5. IdsName' /\ IdsGiven' /\ StagedAlone'  BY <1>1, <1>2, <1>3, IdsKept
<1>6. HeldWorks' /\ OnePassPerEvent'  BY <1>1, <1>3, HeldKept
<1>7. UnreadUnlogged' /\ LoggedOnce'  BY <1>1, <1>3, LogKept
<1>8. AcceptedOnce'  BY <1>1, <1>3, CountKept DEF Given
<1>9. TrimsOnlySpent'
  <2>1. SUFFICES ASSUME NEW id \in trimmed', NEW v \in OfId(id) PROVE Spent(event[v]) /\ ~TakeableEvent(event[v])
    BY <1>1 DEF TrimsOnlySpent, OfId, Stored
  <2>2. PICK u \in Uuid : Stored(u) /\ Spent(event[u]) /\ id = event[u].id  BY <2>1, <1>2
  <2>3. v \in Uuid /\ Stored(v) /\ event[v].id = id  BY <2>1 DEF OfId
  <2>4. u = v  BY <2>2, <2>3 DEF IdsName
  <2>5. event[v] \in AppEventRow  BY <2>3, StoredRow
  <2> QED  BY <2>2, <2>4, <2>5, AppEventsAssumption DEF Spent, TakeableEvent, Abandoned, AppEventRow
<1> QED  BY <1>4, <1>5, <1>6, <1>7, <1>8, <1>9

\* Deleting rows that are there moves each from the stored ones to the deleted ones.
LEMMA DeletingKeeps ==
  ASSUME EventsIInv, NEW us \in SUBSET Uuid, \A u \in us : Stored(u), Without(us),
         trimmed' \subseteq trimmed, UNCHANGED <<eventIds, report, pass, logged, eventDeaths>>
  PROVE  EventsIInv'
<1> USE DEF EventsIInv, Rows
<1>1. \A u \in Uuid : event'[u] = IF u \in us THEN NoEvent ELSE event[u]  BY DEF Without
<1>2. \A u \in Uuid : gone'[u] = IF u \in us THEN gone[u] + 1 ELSE gone[u]  BY DEF Without
<1>3. \A u \in Uuid : Stored(u)' => Stored(u) /\ event'[u] = event[u] /\ u \notin us  BY <1>1 DEF Stored
<1>4. \A u \in Uuid : gone[u] \in Nat /\ logged[u] \in Nat  BY DEF EventsTypeOK
<1>5. \A u \in Uuid : Given(u)' = Given(u)
  <2>1. SUFFICES ASSUME NEW u \in Uuid PROVE Given(u)' = Given(u)  OBVIOUS
  <2>2. CASE u \in us
    <3>1. Stored(u) /\ ~Stored(u)'  BY <2>2, <1>1 DEF Stored, NoEvent
    <3> QED  BY <2>2, <3>1, <1>2, <1>4 DEF Given
  <2>3. CASE u \notin us
    <3>1. Stored(u)' <=> Stored(u)  BY <2>3, <1>1 DEF Stored, NoEvent
    <3> QED  BY <2>3, <3>1, <1>2 DEF Given
  <2> QED  BY <2>2, <2>3
<1>6. EventsTypeOK'
  <2>1. event' \in [Uuid -> AppEventRow \cup {NoEvent}] /\ gone' \in [Uuid -> Nat]  BY DEF EventsTypeOK, Without, NoEvent
  <2> QED  BY <2>1 DEF EventsTypeOK
<1>7. IdsName' /\ IdsGiven' /\ StagedAlone'  BY <1>3, IdsKept
<1>8. HeldWorks' /\ OnePassPerEvent'  BY <1>3, HeldKept
<1>9. AcceptedOnce'  BY <1>5, CountKept
<1>10. LoggedOnce'  BY <1>5 DEF LoggedOnce, Given
<1>11. UnreadUnlogged'
  <2>1. SUFFICES ASSUME NEW u \in Uuid, event'[u] = NoEvent \/ event'[u].status # "processed" PROVE logged[u] <= gone'[u]
    BY DEF UnreadUnlogged, NoEvent
  <2>2. CASE u \in us
    <3>1. logged[u] <= gone[u] + 1  BY <2>2, <1>4 DEF LoggedOnce
    <3> QED  BY <3>1, <2>2, <1>2
  <2>3. CASE u \notin us  BY <2>1, <2>3, <1>1, <1>2 DEF UnreadUnlogged
  <2> QED  BY <2>2, <2>3
<1>12. TrimsOnlySpent'  BY <1>3, PageKept
<1> QED  BY <1>6, <1>7, <1>8, <1>9, <1>10, <1>11, <1>12

LEMMA TrimmingKeeps == ASSUME EventsIInv, trim_where PROVE EventsIInv'
<1> DEFINE us == UNION {OfId(id) : id \in trimmed}
<1>1. us \in SUBSET Uuid /\ \A u \in us : Stored(u)  BY DEF OfId
<1>2. Without(us) /\ trimmed' \subseteq trimmed /\ UNCHANGED <<eventIds, report, pass, logged, eventDeaths>>  BY DEF trim_where
<1> QED  BY <1>1, <1>2, DeletingKeeps

LEMMA ForgettingKeeps == ASSUME EventsIInv, NEW us \in SUBSET Uuid, forget_behaviour(us) PROVE EventsIInv'
BY DeletingKeeps DEF forget_behaviour

-----------------------------------------------------------------------------
(* Reporting a batch.                                                      *)

LEMMA KnowingKeeps == ASSUME EventsIInv, NEW r \in Report, known_uuids(r) PROVE EventsIInv'
<1> USE DEF EventsIInv, Rows
<1> DEFINE stored == {u \in Uuid : Stored(u)}
           new == [report[r] EXCEPT !.at = "insert", !.known = stored]
<1>1. report[r] \in ReportRow /\ report \in [Report -> ReportRow]  BY DEF EventsTypeOK
<1>2. stored \in SUBSET Uuid  OBVIOUS
<1>3. new \in ReportRow /\ new.at = "insert" /\ new.staged = report[r].staged /\ new.accepted = report[r].accepted
  <2> HIDE DEF stored
  <2> QED  BY <1>1, <1>2 DEF ReportRow
<1>4. report' = [report EXCEPT ![r] = new] /\ report[r].at = "known"  BY DEF known_uuids
<1>5. UNCHANGED <<event, eventIds, pass, trimmed, logged, gone, eventDeaths>>  BY DEF known_uuids
<1> HIDE DEF new
<1>6. /\ report' \in [Report -> ReportRow] /\ report'[r].at = "insert"
      /\ \A q \in Report : report'[q].staged = report[q].staged /\ report'[q].accepted = report[q].accepted /\ (report'[q].at = "answered" <=> report[q].at = "answered")
  BY <1>1, <1>3, <1>4
<1>7. \A u \in Uuid : (Stored(u)' <=> Stored(u)) /\ \A q \in Report : Staged(q, u)' <=> Staged(q, u)  BY <1>5, <1>6 DEF Stored, Staged
<1>8. EventsTypeOK'  BY <1>5, <1>6 DEF EventsTypeOK
<1>9. IdsName'
  <2>1. \A u, v \in Uuid : (Stored(u)' /\ Stored(v)' /\ event'[u].id = event'[v].id) => u = v  BY <1>5, <1>7 DEF IdsName
  <2>2. \A q \in Report, u, v \in Uuid : (Staged(q, u)' /\ Stored(v)') => event'[v].id # report'[q].staged[u]  BY <1>5, <1>6, <1>7 DEF IdsName
  <2>3. \A q, s \in Report, u, v \in Uuid : (Staged(q, u)' /\ Staged(s, v)' /\ report'[q].staged[u] = report'[s].staged[v]) => q = s /\ u = v
    BY <1>6, <1>7 DEF IdsName
  <2> QED  BY <2>1, <2>2, <2>3 DEF IdsName
<1>10. IdsGiven'
  <2>1. \A q \in Report, u \in Uuid : Staged(q, u)' => /\ report'[q].staged[u] <= eventIds' /\ report'[q].staged[u] \notin trimmed'
                                                      /\ \A p \in EventPass : pass'[p].id # report'[q].staged[u]
    BY <1>5, <1>6, <1>7 DEF IdsGiven
  <2>2. \A u \in Uuid : Stored(u)' => event'[u].id <= eventIds'  BY <1>5, <1>7 DEF IdsGiven
  <2> QED  BY <2>1, <2>2, <1>5 DEF IdsGiven
<1>11. StagedAlone'  BY <1>6, <1>7 DEF StagedAlone, NothingStaged
<1>12. HeldWorks' /\ OnePassPerEvent'  BY <1>5, <1>7, HeldKept
<1>13. UnreadUnlogged' /\ LoggedOnce'  BY <1>5, <1>7, LogKept
<1>14. AcceptedOnce'
  <2>1. \A u \in Uuid : {q \in Report : report'[q].at = "answered" /\ u \in report'[q].accepted} = {q \in Report : report[q].at = "answered" /\ u \in report[q].accepted}
    BY <1>6
  <2> QED  BY <2>1, <1>5, <1>7 DEF AcceptedOnce
<1>15. TrimsOnlySpent'  BY <1>5, <1>7, PageKept
<1> QED  BY <1>8, <1>9, <1>10, <1>11, <1>12, <1>13, <1>14, <1>15

\* A row is inserted under an id nobody was ever given, and a row that is there is passed over.
LEMMA InsertingKeeps == ASSUME EventsIInv, NEW r \in Report, IngestOne(r) PROVE EventsIInv'
<1> USE DEF EventsIInv, Rows
<1>1. PICK u : u = Head(report[r].left)  OBVIOUS
<1>2. report[r] \in ReportRow /\ report \in [Report -> ReportRow] /\ report[r].at = "insert" /\ report[r].left # <<>> /\ eventIds \in Nat
  BY DEF EventsTypeOK, IngestOne
<1>3. u \in Uuid /\ Tail(report[r].left) \in Seq(Uuid)  BY <1>1, <1>2 DEF ReportRow
<1>4. UNCHANGED <<event, pass, trimmed, logged, gone, eventDeaths>>  BY DEF IngestOne
<1> DEFINE fresh == u \notin report[r].known /\ ~Stored(u) /\ ~Staged(r, u)
           passed == [report[r] EXCEPT !.left = Tail(report[r].left)]
           new == IF fresh THEN StageEvent(report[r], u) ELSE passed
<1>5. /\ report' = [report EXCEPT ![r] = new] /\ eventIds' = IF fresh THEN eventIds + 1 ELSE eventIds
      /\ fresh => \A q \in Report : ~Staged(q, u)
  BY <1>1 DEF IngestOne
<1>6. /\ new \in ReportRow /\ new.at = "insert"
      /\ fresh => new.staged = [report[r].staged EXCEPT ![u] = eventIds + 1] /\ new.accepted = report[r].accepted \cup {u}
      /\ ~fresh => new.staged = report[r].staged /\ new.accepted = report[r].accepted
  <2>1. passed \in ReportRow /\ passed.at = "insert" /\ passed.staged = report[r].staged /\ passed.accepted = report[r].accepted
    BY <1>2, <1>3 DEF ReportRow
  <2>2. report[r].staged \in [Uuid -> Nat] /\ report[r].accepted \in SUBSET Uuid  BY <1>2 DEF ReportRow
  <2> DEFINE staged == [report[r].staged EXCEPT ![u] = eventIds + 1]
             accepted == report[r].accepted \cup {u}
             row == StageEvent(report[r], u)
  <2>3. staged \in [Uuid -> Nat] /\ accepted \in SUBSET Uuid  BY <2>2, <1>2, <1>3
  <2>4. row = [report[r] EXCEPT !.left = Tail(report[r].left), !.staged = staged, !.accepted = accepted]  BY DEF StageEvent
  <2>5. row \in ReportRow /\ row.at = "insert" /\ row.staged = staged /\ row.accepted = accepted
    <3> HIDE DEF staged, accepted, row
    <3> QED  BY <1>2, <1>3, <2>3, <2>4 DEF ReportRow
  <2> HIDE DEF passed, row
  <2> QED  BY <2>1, <2>5 DEF row
<1> HIDE DEF new
<1>7. report' \in [Report -> ReportRow] /\ report'[r] = new /\ \A q \in Report : q # r => report'[q] = report[q]  BY <1>2, <1>5, <1>6
<1>8. \A v \in Uuid : Stored(v)' <=> Stored(v)  BY <1>4 DEF Stored
<1>9. \A q \in Report : report'[q].at = "answered" <=> report[q].at = "answered"  BY <1>2, <1>6, <1>7
<1>10. \A q \in Report : report[q].at = "answered" => report'[q] = report[q]  BY <1>2, <1>7
<1>11. EventsTypeOK'  BY <1>4, <1>5, <1>7, <1>2 DEF EventsTypeOK
<1>12. HeldWorks' /\ OnePassPerEvent'  BY <1>4, <1>8, HeldKept
<1>13. UnreadUnlogged' /\ LoggedOnce'  BY <1>4, <1>8, LogKept
<1>14. AcceptedOnce'
  <2>1. \A v \in Uuid : {q \in Report : report'[q].at = "answered" /\ v \in report'[q].accepted} = {q \in Report : report[q].at = "answered" /\ v \in report[q].accepted}
    BY <1>9, <1>10
  <2> QED  BY <2>1, <1>4, <1>8 DEF AcceptedOnce
<1>15. TrimsOnlySpent'  BY <1>4, <1>8, PageKept
\* Only the new row is staged anew, under the next id.
<1>16. ASSUME NEW q \in Report, NEW v \in Uuid, Staged(q, v)'
       PROVE  \/ Staged(q, v) /\ report'[q].staged[v] = report[q].staged[v] /\ report[q].staged[v] <= eventIds
              \/ fresh /\ q = r /\ v = u /\ report'[q].staged[v] = eventIds + 1 /\ eventIds' = eventIds + 1
  <2>1. report[r].staged \in [Uuid -> Nat]  BY <1>2 DEF ReportRow
  <2>2. CASE report'[q].staged[v] = report[q].staged[v]  BY <1>16, <2>2 DEF Staged, IdsGiven
  <2>3. CASE report'[q].staged[v] # report[q].staged[v]
    <3>1. q = r /\ fresh  BY <2>3, <1>6, <1>7
    <3>2. report'[q].staged = [report[r].staged EXCEPT ![u] = eventIds + 1]  BY <3>1, <1>6, <1>7
    <3>3. v = u /\ report'[q].staged[v] = eventIds + 1  BY <2>1, <2>3, <3>1, <3>2
    <3> QED  BY <3>1, <3>3, <1>5
  <2> QED  BY <2>2, <2>3
<1>17. \A q \in Report, v \in Uuid : Staged(q, v) => Staged(q, v)' /\ report'[q].staged[v] = report[q].staged[v]
  <2>1. SUFFICES ASSUME NEW q \in Report, NEW v \in Uuid, Staged(q, v) PROVE report'[q].staged[v] = report[q].staged[v]  BY DEF Staged
  <2>2. report[r].staged \in [Uuid -> Nat]  BY <1>2 DEF ReportRow
  <2>3. CASE q = r /\ fresh
    <3>1. v # u  BY <2>1, <2>3
    <3>2. report'[q].staged = [report[r].staged EXCEPT ![u] = eventIds + 1]  BY <2>3, <1>6, <1>7
    <3> QED  BY <2>2, <2>3, <3>1, <3>2
  <2>4. CASE ~(q = r /\ fresh)  BY <2>4, <1>6, <1>7
  <2> QED  BY <2>3, <2>4
<1>18. (\A v \in Uuid : Stored(v) => event[v].id \in Nat /\ event[v].id <= eventIds) /\ eventIds <= eventIds'
  BY <1>2, <1>5, StoredRow DEF IdsGiven
<1> HIDE DEF fresh
<1>19. IdsName'
  <2>1. \A v, w \in Uuid : (Stored(v)' /\ Stored(w)' /\ event'[v].id = event'[w].id) => v = w  BY <1>4, <1>8 DEF IdsName
  <2>2. \A q \in Report, v, w \in Uuid : (Staged(q, v)' /\ Stored(w)') => event'[w].id # report'[q].staged[v]
    <3>1. SUFFICES ASSUME NEW q \in Report, NEW v \in Uuid, NEW w \in Uuid, Staged(q, v)', Stored(w) PROVE event[w].id # report'[q].staged[v]  BY <1>4, <1>8
    <3>2. CASE Staged(q, v) /\ report'[q].staged[v] = report[q].staged[v]  BY <3>1, <3>2 DEF IdsName
    <3>3. CASE report'[q].staged[v] = eventIds + 1  BY <3>1, <3>3, <1>2, <1>18
    <3> QED  BY <3>1, <3>2, <3>3, <1>16
  <2>3. \A q, s \in Report, v, w \in Uuid : (Staged(q, v)' /\ Staged(s, w)' /\ report'[q].staged[v] = report'[s].staged[w]) => q = s /\ v = w
    <3>1. SUFFICES ASSUME NEW q \in Report, NEW s \in Report, NEW v \in Uuid, NEW w \in Uuid, Staged(q, v)', Staged(s, w)', report'[q].staged[v] = report'[s].staged[w]
                   PROVE  q = s /\ v = w
      OBVIOUS
    <3>2. CASE Staged(q, v) /\ Staged(s, w)  BY <3>1, <3>2, <1>17 DEF IdsName
    <3>3. CASE ~Staged(q, v) /\ ~Staged(s, w)  BY <3>1, <3>3, <1>16
    <3>4. CASE Staged(q, v) /\ ~Staged(s, w)
      <4>1. report'[s].staged[w] = eventIds + 1  BY <3>1, <3>4, <1>16
      <4>2. report'[q].staged[v] = report[q].staged[v] /\ report[q].staged[v] <= eventIds  BY <3>4, <1>17 DEF IdsGiven
      <4>3. report[q].staged[v] \in Nat  BY <1>2 DEF ReportRow
      <4>4. report[q].staged[v] # eventIds + 1  BY <4>2, <4>3, <1>2
      <4> QED  BY <3>1, <4>1, <4>2, <4>4
    <3>5. CASE ~Staged(q, v) /\ Staged(s, w)
      <4>1. report'[q].staged[v] = eventIds + 1  BY <3>1, <3>5, <1>16
      <4>2. report'[s].staged[w] = report[s].staged[w] /\ report[s].staged[w] <= eventIds  BY <3>5, <1>17 DEF IdsGiven
      <4>3. report[s].staged[w] \in Nat  BY <1>2 DEF ReportRow
      <4>4. report[s].staged[w] # eventIds + 1  BY <4>2, <4>3, <1>2
      <4> QED  BY <3>1, <4>1, <4>2, <4>4
    <3> QED  BY <3>2, <3>3, <3>4, <3>5
  <2> QED  BY <2>1, <2>2, <2>3 DEF IdsName
<1>20. IdsGiven'
  <2>0. eventIds' \in Nat /\ (\A p \in EventPass : pass[p].id \in Nat /\ pass[p].id <= eventIds) /\ \A id \in trimmed : id \in Nat /\ id <= eventIds
    <3>1. \A p \in EventPass : pass[p].id \in Nat  BY DEF EventsTypeOK, PassRow
    <3> QED  BY <3>1, <1>11 DEF EventsTypeOK, IdsGiven
  <2>1. \A v \in Uuid : Stored(v)' => event'[v].id <= eventIds'  BY <1>2, <1>4, <1>8, <1>18, <2>0
  <2>2. \A p \in EventPass : pass'[p].id <= eventIds'  BY <1>2, <1>4, <1>18, <2>0
  <2>3. \A id \in trimmed' : id <= eventIds'  BY <1>2, <1>4, <1>18, <2>0
  <2>4. ASSUME NEW q \in Report, NEW v \in Uuid, Staged(q, v)'
        PROVE  /\ report'[q].staged[v] <= eventIds' /\ report'[q].staged[v] \notin trimmed
               /\ \A p \in EventPass : pass[p].id # report'[q].staged[v]
    <3>1. CASE Staged(q, v) /\ report'[q].staged[v] = report[q].staged[v] /\ report[q].staged[v] <= eventIds
      <4>1. report[q].staged[v] \in Nat  BY <1>2 DEF ReportRow
      <4>2. report[q].staged[v] \notin trimmed /\ \A p \in EventPass : pass[p].id # report[q].staged[v]  BY <3>1 DEF IdsGiven
      <4>3. report'[q].staged[v] <= eventIds'  BY <3>1, <4>1, <1>2, <1>18, <2>0
      <4> QED  BY <3>1, <4>2, <4>3
    <3>2. CASE report'[q].staged[v] = eventIds + 1 /\ eventIds' = eventIds + 1  BY <3>2, <1>2, <2>0
    <3> QED  BY <2>4, <3>1, <3>2, <1>16
  <2> QED  BY <2>1, <2>2, <2>3, <2>4, <1>4 DEF IdsGiven
<1>21. StagedAlone'
  <2>1. \A q \in Report, v \in Uuid : Staged(q, v)' => ~Stored(v)'  BY <1>8, <1>16 DEF StagedAlone, fresh
  <2>2. \A q, s \in Report, v \in Uuid : (Staged(q, v)' /\ Staged(s, v)') => q = s  BY <1>5, <1>16 DEF StagedAlone
  <2>3. \A q \in Report : report'[q].at = "answered" \/ \A v \in Uuid : v \in report'[q].accepted <=> Staged(q, v)'
    <3>1. SUFFICES ASSUME NEW q \in Report, report'[q].at # "answered", NEW v \in Uuid PROVE v \in report'[q].accepted <=> Staged(q, v)'  OBVIOUS
    <3>2. CASE q # r
      <4>1. report'[q] = report[q] /\ report[q].at # "answered"  BY <3>1, <3>2, <1>7
      <4> QED  BY <4>1 DEF StagedAlone, Staged
    <3>3. CASE q = r /\ ~fresh
      <4>1. report'[q].staged = report[q].staged /\ report'[q].accepted = report[q].accepted  BY <3>3, <1>6, <1>7
      <4> QED  BY <3>3, <4>1, <1>2 DEF StagedAlone, Staged
    <3>4. CASE q = r /\ fresh
      <4>1. report[r].staged \in [Uuid -> Nat] /\ eventIds + 1 # 0  BY <1>2 DEF ReportRow
      <4>2. report'[q].staged = [report[r].staged EXCEPT ![u] = eventIds + 1] /\ report'[q].accepted = report[r].accepted \cup {u}  BY <3>4, <1>6, <1>7
      <4>3. v \in report[r].accepted <=> Staged(r, v)  BY <1>2 DEF StagedAlone
      <4> QED  BY <1>3, <4>1, <4>2, <4>3 DEF Staged
    <3> QED  BY <3>2, <3>3, <3>4
  <2>4. \A q \in Report : report'[q].at = "answered" => report'[q].staged = NothingStaged'
    BY <1>9, <1>10 DEF StagedAlone, NothingStaged
  <2> QED  BY <2>1, <2>2, <2>3, <2>4 DEF StagedAlone
<1> QED  BY <1>11, <1>12, <1>13, <1>14, <1>15, <1>19, <1>20, <1>21

\* A batch lands: each row it staged takes the place of an absence, and the request joins those that count it.
LEMMA LandingKeeps == ASSUME EventsIInv, NEW r \in Report, ingest_events(r) PROVE EventsIInv'
<1> USE DEF EventsIInv, Rows
<1> DEFINE row(u) == [id |-> report[r].staged[u], status |-> "pending", attempts |-> 0, stale |-> FALSE]
           new == [report[r] EXCEPT !.at = "answered", !.staged = NothingStaged]
<1>1. report[r] \in ReportRow /\ report \in [Report -> ReportRow] /\ report[r].at = "insert"  BY DEF EventsTypeOK, ingest_events
<1>2. UNCHANGED <<eventIds, pass, trimmed, logged, gone, eventDeaths>>  BY DEF ingest_events
<1>3. ASSUME NEW u \in Uuid, Staged(r, u)
      PROVE  /\ ~Stored(u) /\ event'[u] \in AppEventRow /\ event'[u] # NoEvent /\ event'[u].id = report[r].staged[u]
             /\ event'[u].status = "pending" /\ u \in report[r].accepted /\ report[r].staged[u] \in Nat
  <2>1. event'[u] = row(u)  BY <1>3 DEF ingest_events
  <2>2. report[r].staged[u] \in Nat  BY <1>1 DEF ReportRow
  <2>3. event'[u] \in AppEventRow /\ event'[u].id = report[r].staged[u] /\ event'[u].status = "pending"
    BY <2>1, <2>2, AppEventsAssumption DEF AppEventRow, AppEventStatus
  <2>4. ~Stored(u) /\ u \in report[r].accepted  BY <1>1, <1>3 DEF StagedAlone
  <2> QED  BY <2>2, <2>3, <2>4, RowIsStored
<1>4. \A u \in Uuid : ~Staged(r, u) => event'[u] = event[u]  BY DEF ingest_events
<1>5. event' \in [Uuid -> AppEventRow \cup {NoEvent}]
  <2>1. \A u \in Uuid : event'[u] \in AppEventRow \cup {NoEvent}  BY <1>3, <1>4 DEF EventsTypeOK
  <2> QED  BY <2>1 DEF ingest_events
<1>6. NothingStaged \in [Uuid -> Nat] /\ NothingStaged' = NothingStaged /\ \A u \in Uuid : NothingStaged[u] = 0  BY DEF NothingStaged
<1>7. /\ report' \in [Report -> ReportRow] /\ report'[r].at = "answered" /\ report'[r].staged = NothingStaged /\ report'[r].accepted = report[r].accepted
      /\ \A q \in Report : q # r => report'[q] = report[q]
  <2>1. new \in ReportRow /\ new.at = "answered" /\ new.staged = NothingStaged /\ new.accepted = report[r].accepted
    BY <1>1, <1>6 DEF ReportRow
  <2>2. report' = [report EXCEPT ![r] = new]  BY DEF ingest_events
  <2> HIDE DEF new
  <2> QED  BY <1>1, <2>1, <2>2
<1>8. \A u \in Uuid : Stored(u)' <=> (Stored(u) \/ Staged(r, u))  BY <1>3, <1>4 DEF Stored, NoEvent
<1>9. \A q \in Report, u \in Uuid : Staged(q, u)' <=> (q # r /\ Staged(q, u))  BY <1>6, <1>7 DEF Staged
<1>10. EventsTypeOK'  BY <1>2, <1>5, <1>7 DEF EventsTypeOK
<1>11. ASSUME NEW u \in Uuid, Stored(u)'
       PROVE  \/ Stored(u) /\ ~Staged(r, u) /\ event'[u] = event[u]
              \/ ~Stored(u) /\ Staged(r, u) /\ event'[u].id = report[r].staged[u] /\ event'[u].status = "pending"
  BY <1>3, <1>4, <1>8, <1>11
<1>12. IdsName'
  <2>1. \A u, v \in Uuid : (Stored(u)' /\ Stored(v)' /\ event'[u].id = event'[v].id) => u = v
    <3>1. SUFFICES ASSUME NEW u \in Uuid, NEW v \in Uuid, Stored(u)', Stored(v)', event'[u].id = event'[v].id PROVE u = v  OBVIOUS
    <3>2. CASE Staged(r, u) /\ Staged(r, v)  BY <3>1, <3>2, <1>3 DEF IdsName
    <3>3. CASE Staged(r, u) /\ ~Staged(r, v)  BY <3>1, <3>3, <1>11, <1>3 DEF IdsName
    <3>4. CASE ~Staged(r, u) /\ Staged(r, v)  BY <3>1, <3>4, <1>11, <1>3 DEF IdsName
    <3>5. CASE ~Staged(r, u) /\ ~Staged(r, v)  BY <3>1, <3>5, <1>11 DEF IdsName
    <3> QED  BY <3>2, <3>3, <3>4, <3>5
  <2>2. \A q \in Report, u, v \in Uuid : (Staged(q, u)' /\ Stored(v)') => event'[v].id # report'[q].staged[u]
    <3>1. SUFFICES ASSUME NEW q \in Report, NEW u \in Uuid, NEW v \in Uuid, q # r, Staged(q, u), Stored(v)' PROVE event'[v].id # report[q].staged[u]
      BY <1>7, <1>9
    <3>2. CASE Staged(r, v)  BY <3>1, <3>2, <1>3 DEF IdsName
    <3>3. CASE ~Staged(r, v)  BY <3>1, <3>3, <1>11 DEF IdsName
    <3> QED  BY <3>2, <3>3
  <2>3. \A q, s \in Report, u, v \in Uuid : (Staged(q, u)' /\ Staged(s, v)' /\ report'[q].staged[u] = report'[s].staged[v]) => q = s /\ u = v
    BY <1>7, <1>9 DEF IdsName
  <2> QED  BY <2>1, <2>2, <2>3 DEF IdsName
<1>13. IdsGiven'
  <2>1. \A u \in Uuid : Stored(u)' => event'[u].id <= eventIds'  BY <1>2, <1>11 DEF IdsGiven
  <2>2. \A q \in Report, u \in Uuid : Staged(q, u)' => /\ report'[q].staged[u] <= eventIds' /\ report'[q].staged[u] \notin trimmed'
                                                      /\ \A p \in EventPass : pass'[p].id # report'[q].staged[u]
    BY <1>2, <1>7, <1>9 DEF IdsGiven
  <2> QED  BY <2>1, <2>2, <1>2 DEF IdsGiven
<1>14. StagedAlone'
  <2>1. \A q \in Report, u \in Uuid : Staged(q, u)' => ~Stored(u)'  BY <1>8, <1>9 DEF StagedAlone
  <2>2. \A q, s \in Report, u \in Uuid : (Staged(q, u)' /\ Staged(s, u)') => q = s  BY <1>9 DEF StagedAlone
  <2>3. \A q \in Report : report'[q].at = "answered" \/ \A u \in Uuid : u \in report'[q].accepted <=> Staged(q, u)'
    BY <1>7, <1>9 DEF StagedAlone
  <2>4. \A q \in Report : report'[q].at = "answered" => report'[q].staged = NothingStaged'  BY <1>6, <1>7 DEF StagedAlone
  <2> QED  BY <2>1, <2>2, <2>3, <2>4 DEF StagedAlone
<1>15. HeldWorks' /\ OnePassPerEvent'
  <2>1. ASSUME NEW p \in EventPass, NEW u \in Uuid, Stored(u)', event'[u].id = pass[p].id PROVE Stored(u) /\ event'[u] = event[u]
    BY <2>1, <1>11 DEF IdsGiven
  <2> QED  BY <2>1, <1>2, HeldKept
<1>16. UnreadUnlogged'
  <2>1. SUFFICES ASSUME NEW u \in Uuid, event'[u] = NoEvent \/ event'[u].status # "processed" PROVE logged[u] <= gone[u]
    BY <1>2 DEF UnreadUnlogged, NoEvent
  <2>2. logged[u] \in Nat /\ gone[u] \in Nat  BY DEF EventsTypeOK
  <2>3. CASE Staged(r, u)  BY <2>2, <2>3, <1>3 DEF LoggedOnce
  <2>4. CASE ~Staged(r, u)  BY <2>1, <2>4, <1>4 DEF UnreadUnlogged
  <2> QED  BY <2>3, <2>4
<1>17. LoggedOnce'
  <2>1. \A u \in Uuid : logged[u] \in Nat /\ gone[u] \in Nat  BY DEF EventsTypeOK
  <2> QED  BY <2>1, <1>2, <1>8 DEF LoggedOnce
<1>18. AcceptedOnce'
  <2>1. SUFFICES ASSUME NEW u \in Uuid
                 PROVE  Cardinality({q \in Report : report'[q].at = "answered" /\ u \in report'[q].accepted}) <= gone'[u] + (IF Stored(u)' THEN 1 ELSE 0)
    BY DEF AcceptedOnce
  <2> DEFINE before == {q \in Report : report[q].at = "answered" /\ u \in report[q].accepted}
             after == {q \in Report : report'[q].at = "answered" /\ u \in report'[q].accepted}
  <2>2. IsFiniteSet(before) /\ Cardinality(before) \in Nat  BY AppEventsAssumption, FS_Subset, FS_CardinalityType
  <2>3. Cardinality(before) <= gone[u] + (IF Stored(u) THEN 1 ELSE 0)  BY DEF AcceptedOnce
  <2>4. gone[u] \in Nat /\ gone'[u] = gone[u]  BY <1>2 DEF EventsTypeOK
  <2>5. u \in report[r].accepted <=> Staged(r, u)  BY <1>1 DEF StagedAlone
  <2>6. CASE Staged(r, u)
    <3>1. after = before \cup {r} /\ r \notin before  BY <2>5, <2>6, <1>1, <1>7
    <3>2. ~Stored(u) /\ Stored(u)'  BY <2>6, <1>3, <1>8
    <3> HIDE DEF before, after
    <3>3. Cardinality(after) = Cardinality(before) + 1  BY <2>2, <3>1, FS_AddElement
    <3> QED  BY <2>2, <2>3, <2>4, <3>2, <3>3 DEF after
  <2>7. CASE ~Staged(r, u)
    <3>1. after = before  BY <2>5, <2>7, <1>1, <1>7
    <3>2. Stored(u)' <=> Stored(u)  BY <2>7, <1>8
    <3> HIDE DEF before, after
    <3> QED  BY <2>3, <2>4, <3>1, <3>2 DEF after
  <2> QED  BY <2>6, <2>7
<1>19. TrimsOnlySpent'
  <2>1. SUFFICES ASSUME NEW id \in trimmed, NEW u \in Uuid, Stored(u)', event'[u].id = id PROVE Spent(event'[u]) /\ ~TakeableEvent(event'[u])
    BY <1>2 DEF TrimsOnlySpent, OfId, Spent, TakeableEvent, Abandoned, Stored
  <2>2. Stored(u) /\ event'[u] = event[u]  BY <2>1, <1>11 DEF IdsGiven
  <2> QED  BY <2>1, <2>2 DEF TrimsOnlySpent, OfId
<1> QED  BY <1>10, <1>12, <1>13, <1>14, <1>15, <1>16, <1>17, <1>18, <1>19

-----------------------------------------------------------------------------
(* The queue.                                                              *)

LEMMA EventsBegin == EventsInit => EventsIInv
<1>1. SUFFICES ASSUME EventsInit PROVE EventsIInv  OBVIOUS
<1>2. \A u \in Uuid : event[u] = NoEvent /\ ~Stored(u) /\ logged[u] = 0 /\ gone[u] = 0  BY <1>1 DEF EventsInit, Stored
<1>3. \A p \in EventPass : pass[p] = IdlePass  BY <1>1 DEF EventsInit
<1>4. NothingStaged \in [Uuid -> Nat] /\ \A u \in Uuid : NothingStaged[u] = 0  BY DEF NothingStaged
<1>5. \A r \in Report : Arriving(r) \in ReportRow /\ Arriving(r).at = "known" /\ Arriving(r).staged = NothingStaged /\ Arriving(r).accepted = {}
  <2>1. \A r \in Report : BatchOf[r] \in Seq(Uuid)  BY AppEventsAssumption
  <2> QED  BY <2>1, <1>4 DEF Arriving, ReportRow
<1>6. report \in [Report -> ReportRow] /\ \A r \in Report : report[r].at = "known" /\ report[r].accepted = {} /\ \A u \in Uuid : ~Staged(r, u)
  BY <1>1, <1>4, <1>5 DEF EventsInit, Staged
<1>7. EventsTypeOK
  <2>1. event \in [Uuid -> AppEventRow \cup {NoEvent}] /\ eventIds \in Nat /\ trimmed \subseteq Nat /\ logged \in [Uuid -> Nat] /\ gone \in [Uuid -> Nat]
    BY <1>1 DEF EventsInit
  <2>2. pass \in [EventPass -> PassRow] /\ eventDeaths \in 0..MaxEventDeaths  BY <1>1, IdlePassIsOne, AppEventsAssumption DEF EventsInit
  <2> QED  BY <2>1, <2>2, <1>6 DEF EventsTypeOK
<1>8. IdsName /\ StagedAlone  BY <1>2, <1>6 DEF IdsName, StagedAlone
<1>9. IdsGiven  BY <1>1, <1>2, <1>3, <1>6, IdlePassIsOne DEF IdsGiven, EventsInit
<1>10. HeldWorks /\ OnePassPerEvent  BY <1>3, IdlePassIsOne DEF HeldWorks, OnePassPerEvent, Working
<1>11. UnreadUnlogged /\ LoggedOnce  BY <1>2 DEF UnreadUnlogged, LoggedOnce
<1>12. AcceptedOnce
  <2>1. \A u \in Uuid : {r \in Report : report[r].at = "answered" /\ u \in report[r].accepted} = {}  BY <1>6
  <2> QED  BY <2>1, <1>2, FS_EmptySet DEF AcceptedOnce
<1>13. TrimsOnlySpent  BY <1>1 DEF EventsInit, TrimsOnlySpent
<1> QED  BY <1>7, <1>8, <1>9, <1>10, <1>11, <1>12, <1>13 DEF EventsIInv, Rows

LEMMA EventsStay == EventsIInv /\ UNCHANGED eventVars => EventsIInv'
<1>1. SUFFICES ASSUME EventsIInv, UNCHANGED eventVars PROVE EventsIInv'  OBVIOUS
<1>2. UNCHANGED <<event, eventIds, report, pass, trimmed, logged, gone, eventDeaths>>  BY <1>1 DEF eventVars
<1> QED  BY <1>1, <1>2, PassMoves DEF EventsIInv, Rows, EventsTypeOK

LEMMA EventsGoOn == EventsIInv /\ EventsNext => EventsIInv'
<1>1. SUFFICES ASSUME EventsIInv, EventsNext PROVE EventsIInv'  OBVIOUS
<1>2. CASE \E r \in Report : ReportStep(r)  BY <1>1, <1>2, KnowingKeeps, InsertingKeeps, LandingKeeps DEF ReportStep
<1>3. CASE \E p \in EventPass : PassStep(p) \/ PassDies(p)
  BY <1>1, <1>3, ClosingKeeps, ListingKeeps, ClaimingKeeps, EndingKeeps, ReadingKeeps, SettlingKeeps, FailingKeeps, DyingKeeps DEF PassStep
<1>4. CASE \E u \in Uuid : EventAgesOut(u)  BY <1>1, <1>4, AgeingKeeps
<1>5. CASE TrimReads \/ trim_where  BY <1>1, <1>5, PageReads, TrimmingKeeps
<1>6. CASE \E us \in SUBSET Uuid : forget_behaviour(us)  BY <1>1, <1>6, ForgettingKeeps
<1> QED  BY <1>1, <1>2, <1>3, <1>4, <1>5, <1>6 DEF EventsNext

\* However many requests replay a batch, passes overlap and die, accounts are erased and pages are trimmed: AppEventService counts, reads and
\* logs an event once for each row it was given, two passes never work on one, and the retention trims only what nobody may read again.
THEOREM OnceForEachRow == EventsSpec => []EventsInv
<1>1. EventsIInv => EventsInv  BY DEF EventsIInv, Rows, EventsInv
<1>2. EventsIInv /\ [EventsNext]_eventVars => EventsIInv'  BY EventsStay, EventsGoOn
<1> QED  BY <1>1, <1>2, EventsBegin, PTL DEF EventsSpec

=============================================================================
