----------------------------- MODULE EmailQueue -----------------------------
(***************************************************************************)
(* services/email_service.py and its job: a message is written down by the *)
(* request that causes it and dialled later by a pass, which claims it     *)
(* with a conditional update, dials, and writes down how it ended.  A node *)
(* that dies in between leaves the claim, which runs out and is handed     *)
(* back.                                                                   *)
(*                                                                         *)
(* A step is what runs up to a commit, up to a read acted on later, or up  *)
(* to the dial, which no transaction undoes.                               *)
(***************************************************************************)
EXTENDS Integers, FiniteSets

CONSTANTS
  MailNode,     \* processes that run the mail job
  Msg,          \* messages requests want sent
  Address, To,  \* To \in [Msg -> Address]
  NoMail,
  MAIL_ATTEMPTS,
  BATCH,        \* messages one pass reads
  MaxFaults     \* bound on crashes and on results the database refuses

\* A row of outbound_email, how it may end, and how one send may.
Status == {"PENDING", "SENDING", "SENT", "FAILED", "REFUSED"}
Final == {"SENT", "FAILED", "REFUSED"}
MailRow == [status : Status, attempts : Nat, created : Nat, stale : BOOLEAN]
Outcome == {"sent", "timed_out", "error", "refused"}

ASSUME EmailAssumption ==
  /\ To \in [Msg -> Address]
  /\ NoMail \notin Msg \cup MailRow
  /\ MAIL_ATTEMPTS \in Nat \ {0} /\ BATCH \in Nat \ {0} /\ MaxFaults \in Nat

VARIABLES
  writer,       \* [Msg -> what the request queueing it has done]
  mail,         \* [Msg -> its outbound_email row, None before it is written]
  suppressed,   \* addresses with an email_suppressed_address row
  mailer,       \* [MailNode -> its pass]
  received,     \* external: how often the reader got each message
  unwritten,    \* history: how often a message went out and its row never said so
  faults

mailVars == <<writer, mail, suppressed, mailer, received, unwritten, faults>>

MailPass == [at : {"idle", "list", "take", "dial", "write"}, batch : SUBSET Msg, msg : Msg \cup {NoMail},
            outcome : Outcome \cup {NoMail}, worked : BOOLEAN]
IdleMailer == [at |-> "idle", batch |-> {}, msg |-> NoMail, outcome |-> NoMail, worked |-> FALSE]

MailInit ==
  /\ writer = [m \in Msg |-> "new"]
  /\ mail = [m \in Msg |-> NoMail]
  /\ suppressed = {}
  /\ mailer = [n \in MailNode |-> IdleMailer]
  /\ received = [m \in Msg |-> 0] /\ unwritten = [m \in Msg |-> 0]
  /\ faults = 0

Written == {m \in Msg : mail[m] # NoMail}
In(m, statuses) == m \in Written /\ mail[m].status \in statuses

-----------------------------------------------------------------------------
(* queue: the suppression list is read, then the row is written.           *)

QueueRead(m) ==
  /\ writer[m] = "new"
  /\ writer' = [writer EXCEPT ![m] = IF To[m] \in suppressed THEN "REFUSED" ELSE "PENDING"]
  /\ UNCHANGED <<mail, suppressed, mailer, received, unwritten, faults>>

queue(m) ==
  /\ writer[m] \in {"PENDING", "REFUSED"}
  /\ mail' = [mail EXCEPT ![m] = [status |-> writer[m], attempts |-> 0, created |-> Cardinality(Written), stale |-> FALSE]]
  /\ writer' = [writer EXCEPT ![m] = "done"]
  /\ UNCHANGED <<suppressed, mailer, received, unwritten, faults>>

-----------------------------------------------------------------------------
(* The pass: reclaim, read a batch, then claim and send one at a time.     *)

Stranded(m) == In(m, {"SENDING"}) /\ mail[m].stale

Reclaimed(m) == [mail[m] EXCEPT !.status = IF mail[m].attempts >= MAIL_ATTEMPTS THEN "FAILED" ELSE "PENDING"]

\* Variant: the job sends and never reclaims.
reclaim_abandoned_Skipped(n) ==
  /\ mailer[n].at = "idle"
  /\ mailer' = [mailer EXCEPT ![n] = [IdleMailer EXCEPT !.at = "list"]]
  /\ UNCHANGED <<writer, mail, suppressed, received, unwritten, faults>>

\* The job starts with the reclaim, one write over the table.
reclaim_abandoned(n) ==
  /\ mailer[n].at = "idle"
  /\ mail' = [m \in Msg |-> IF Stranded(m) THEN Reclaimed(m) ELSE mail[m]]
  /\ mailer' = [mailer EXCEPT ![n] = [IdleMailer EXCEPT !.at = "list"]]
  /\ UNCHANGED <<writer, suppressed, received, unwritten, faults>>

Waiting == {m \in Msg : In(m, {"PENDING"}) /\ mail[m].attempts < MAIL_ATTEMPTS}

Before(m, among) == {o \in among : mail[o].created < mail[m].created}

\* The oldest BATCH messages that wait.
process_pending(n) ==
  /\ mailer[n].at = "list"
  /\ LET batch == {m \in Waiting : Cardinality(Before(m, Waiting)) < BATCH}
     IN mailer' = [mailer EXCEPT ![n] = IF batch = {} THEN IdleMailer ELSE [@ EXCEPT !.at = "take", !.batch = batch]]
  /\ UNCHANGED <<writer, mail, suppressed, received, unwritten, faults>>

\* The pass after its next message, which ends once the batch does.
Onwards(s, rest) == IF rest = {} THEN IdleMailer ELSE [s EXCEPT !.at = "take", !.batch = rest, !.msg = NoMail, !.outcome = NoMail]

\* The update that claims a message, and the pass that made it.
ClaimedRow(row) == [row EXCEPT !.status = "SENDING", !.attempts = @ + 1, !.stale = FALSE]
HoldingPass(s, m) == [s EXCEPT !.at = "dial", !.msg = m, !.batch = @ \ {m}, !.worked = TRUE]

\* Variant: the batch said the message waits, and the update does not ask again.
claim_message_Unconditional(n) ==
  /\ mailer[n].at = "take"
  /\ \E m \in mailer[n].batch :
       /\ Before(m, mailer[n].batch) = {}
       /\ mail' = [mail EXCEPT ![m] = ClaimedRow(@)]
       /\ mailer' = [mailer EXCEPT ![n] = HoldingPass(@, m)]
  /\ UNCHANGED <<writer, suppressed, received, unwritten, faults>>

claim_message(n) ==
  /\ mailer[n].at = "take"
  /\ \E m \in mailer[n].batch :
       /\ Before(m, mailer[n].batch) = {}
       /\ IF In(m, {"PENDING"})
          THEN /\ mail' = [mail EXCEPT ![m] = ClaimedRow(@)]
               /\ mailer' = [mailer EXCEPT ![n] = HoldingPass(@, m)]
          ELSE /\ mailer' = [mailer EXCEPT ![n] = Onwards(@, @.batch \ {m})]
               /\ UNCHANGED mail
  /\ UNCHANGED <<writer, suppressed, received, unwritten, faults>>

\* The time left no longer holds one full send.  The first one of a pass always fits.
Deadline(n) ==
  /\ mailer[n].at = "take" /\ mailer[n].worked
  /\ mailer' = [mailer EXCEPT ![n] = IdleMailer]
  /\ UNCHANGED <<writer, mail, suppressed, received, unwritten, faults>>

\* One send.  A server that took the message and answered too late leaves it delivered and the send failed.
deliver_record(n) ==
  /\ mailer[n].at = "dial"
  /\ \E o \in Outcome :
       /\ mailer' = [mailer EXCEPT ![n] = [@ EXCEPT !.at = "write", !.outcome = o]]
       /\ LET m == mailer[n].msg
          IN /\ received' = IF o \in {"sent", "timed_out"} THEN [received EXCEPT ![m] = @ + 1] ELSE received
             /\ unwritten' = IF o = "timed_out" THEN [unwritten EXCEPT ![m] = @ + 1] ELSE unwritten
  /\ UNCHANGED <<writer, mail, suppressed, faults>>

\* How the message ended, as write_down and fail put it on the row.
Ended(m, o) ==
  CASE o = "sent" -> "SENT"
    [] o = "refused" -> "REFUSED"
    [] OTHER -> IF mail[m].attempts >= MAIL_ATTEMPTS THEN "FAILED" ELSE "PENDING"

\* One commit: the row, and with a refusal the address on the suppression list.
write_down(n) ==
  /\ mailer[n].at = "write"
  /\ LET m == mailer[n].msg
         o == mailer[n].outcome
     IN /\ mail' = [mail EXCEPT ![m] = [@ EXCEPT !.status = Ended(m, o), !.stale = FALSE]]
        /\ suppressed' = IF o = "refused" THEN suppressed \cup {To[m]} ELSE suppressed
  /\ mailer' = [mailer EXCEPT ![n] = Onwards(@, @.batch)]
  /\ UNCHANGED <<writer, received, unwritten, faults>>

\* A message went out and nothing will say so.
Unwritten(n) == IF mailer[n].at = "write" /\ mailer[n].outcome = "sent" THEN [unwritten EXCEPT ![mailer[n].msg] = @ + 1] ELSE unwritten

\* The database refuses the result: it is rolled back, the claim stays, and the pass goes on.
WriteRefused(n) ==
  /\ mailer[n].at = "write" /\ faults < MaxFaults
  /\ faults' = faults + 1
  /\ unwritten' = Unwritten(n)
  /\ mailer' = [mailer EXCEPT ![n] = Onwards(@, @.batch)]
  /\ UNCHANGED <<writer, mail, suppressed, received>>

\* The process dies, or the job is cut off.
MailerDies(n) ==
  /\ mailer[n].at # "idle" /\ faults < MaxFaults
  /\ faults' = faults + 1
  /\ unwritten' = Unwritten(n)
  /\ mailer' = [mailer EXCEPT ![n] = IdleMailer]
  /\ UNCHANGED <<writer, mail, suppressed, received>>

Sending(n, m) == mailer[n].at \in {"dial", "write"} /\ mailer[n].msg = m

\* Thirty minutes pass over a claim.  The job has 110 seconds, so whoever made the claim is gone.
MailAbandoned(m) ==
  /\ In(m, {"SENDING"}) /\ ~mail[m].stale
  /\ \A n \in MailNode : ~Sending(n, m)
  /\ mail' = [mail EXCEPT ![m] = [@ EXCEPT !.stale = TRUE]]
  /\ UNCHANGED <<writer, suppressed, mailer, received, unwritten, faults>>

Pass(n) == reclaim_abandoned(n) \/ process_pending(n) \/ claim_message(n) \/ deliver_record(n) \/ write_down(n)

MailNext ==
  \/ \E m \in Msg : QueueRead(m) \/ queue(m) \/ MailAbandoned(m)
  \/ \E n \in MailNode : Pass(n) \/ Deadline(n) \/ WriteRefused(n) \/ MailerDies(n)

MailSpec == MailInit /\ [][MailNext]_mailVars

\* The cron starts the job every two minutes, and time passes over what it left.
MailFairSpec == MailSpec /\ (\A n \in MailNode : WF_mailVars(Pass(n))) /\ (\A m \in Msg : WF_mailVars(queue(m)) /\ WF_mailVars(MailAbandoned(m)))

-----------------------------------------------------------------------------
(* What must hold.                                                         *)

\* The rows and the passes have the shape the code gives them.
MailTypeOK ==
  /\ writer \in [Msg -> {"new", "PENDING", "REFUSED", "done"}]
  /\ mail \in [Msg -> MailRow \cup {NoMail}]
  /\ suppressed \subseteq Address
  /\ mailer \in [MailNode -> MailPass]
  /\ received \in [Msg -> Nat] /\ unwritten \in [Msg -> Nat] /\ faults \in Nat

\* Two passes never hold one message, claims that ran out and were handed back included.
OneSender == \A m \in Msg : \A n, o \in MailNode : (Sending(n, m) /\ Sending(o, m)) => n = o

\* A reader gets a message again only where the time before went out and the row was kept from saying so.
ReceivedOnce == \A m \in Msg : received[m] <= 1 + unwritten[m]

\* No message waits where the queue no longer reads: one that is PENDING has an attempt left.
WaitingIsRead == \A m \in Msg : In(m, {"PENDING"}) => m \in Waiting

\* How a message ended is never taken back: no late result, reclaim or claim moves a row that is settled.
EndedStays == [][\A m \in Msg : In(m, Final) => (mail'[m] # NoMail /\ mail'[m].status = mail[m].status)]_mailVars

\* Every message that was written down is sent, refused or given up, whatever passes die or fail.
EveryMessageEnds == \A m \in Msg : (writer[m] # "new") ~> In(m, Final)

\* However passes overlap and results are lost, a message has one sender, leaves again only where its row never learnt that it left, and is never parked where no pass reads.
MailInv == MailTypeOK /\ OneSender /\ ReceivedOnce /\ WaitingIsRead

\* A message that was queued ends, and as it ended it stays, whatever a late sender writes.
EveryMessageEndsOnce == EveryMessageEnds /\ EndedStays
=============================================================================
