----------------------------- MODULE Newsletter -----------------------------
(***************************************************************************)
(* NewsletterSubscriptionService, the form of the site and the routes of   *)
(* the API: one address of one brand, which anybody may submit and only    *)
(* the address itself may confirm.  Submits arrive together, die between   *)
(* their commits, and cross the answers of the address.                    *)
(***************************************************************************)
EXTENDS Integers

CONSTANTS
  Submit,      \* submits of the form
  AddressClick, \* answers sent from the links of a letter
  MaxHours,    \* bound on the hours that pass
  MaxSubmitDeaths

ASSUME NewsletterAssumption == MaxHours \in Nat /\ MaxSubmitDeaths \in Nat

VARIABLES
  subscription,  \* the row, NoSubscription while there is none
  submit,        \* [Submit -> where the request is and the status it read]
  click,         \* [AddressClick -> where the answer is and what it says]
  hour,
  letters,       \* hours a letter was queued in, one entry for each letter
  submitDeaths

newsletterVars == <<subscription, submit, click, hour, letters, submitDeaths>>

NewsletterStatus == {"pending", "confirmed", "unsubscribed"}
Never == -2
NoSubscription == [invited_at |-> Never]

NewsletterInit ==
  /\ subscription = NoSubscription
  /\ submit = [s \in Submit |-> [at |-> "look", status |-> "pending", claimed |-> Never]]
  /\ click = [c \in AddressClick |-> [at |-> "read", wants |-> "confirmed"]]
  /\ hour = 0 /\ letters = [h \in 0..MaxHours |-> 0] /\ submitDeaths = 0

SubmitAt(s, at) == submit[s].at = at
SubmitGoes(s, at) == submit' = [submit EXCEPT ![s].at = at]

\* insert_or_read looks for the row of the address.
SubscribeLooks(s) ==
  /\ SubmitAt(s, "look")
  /\ submit' = [submit EXCEPT ![s] = IF subscription = NoSubscription THEN [@ EXCEPT !.at = "insert"] ELSE [@ EXCEPT !.at = "decide", !.status = subscription.status]]
  /\ UNCHANGED <<subscription, click, hour, letters, submitDeaths>>

\* One insert gets in, and the others are handed the row it wrote.
SubscribeInserts(s) ==
  /\ SubmitAt(s, "insert")
  /\ subscription' = IF subscription = NoSubscription THEN [status |-> "pending", invited_at |-> Never] ELSE subscription
  /\ submit' = [submit EXCEPT ![s].at = "decide", ![s].status = subscription'.status]
  /\ UNCHANGED <<click, hour, letters, submitDeaths>>

\* An address that confirmed is not asked again, by the status that was read.
SubscribeDecides(s) ==
  /\ SubmitAt(s, "decide")
  /\ SubmitGoes(s, IF submit[s].status = "confirmed" THEN "done" ELSE "claim")
  /\ UNCHANGED <<subscription, click, hour, letters, submitDeaths>>

Invitable == subscription.invited_at < hour

\* Variant: the window is read here, and the claim is written after it, whatever happened in between.
claim_invitation_Reads(s) ==
  /\ submit[s].at \in {"claim", "claim read"}
  /\ IF SubmitAt(s, "claim") THEN SubmitGoes(s, IF Invitable THEN "claim read" ELSE "done") /\ UNCHANGED subscription
     ELSE subscription' = [subscription EXCEPT !.invited_at = hour] /\ submit' = [submit EXCEPT ![s].at = "queue", ![s].claimed = hour]
  /\ UNCHANGED <<click, hour, letters, submitDeaths>>

\* The right to write to the address is one conditional update, taken once an interval.
claim_invitation(s) ==
  /\ SubmitAt(s, "claim")
  /\ IF Invitable
     THEN subscription' = [subscription EXCEPT !.invited_at = hour] /\ submit' = [submit EXCEPT ![s].at = "queue", ![s].claimed = hour]
     ELSE SubmitGoes(s, "done") /\ UNCHANGED subscription
  /\ UNCHANGED <<click, hour, letters, submitDeaths>>

\* The letter is written down, counted for the hour it was claimed in.
QueuesLetter(s) ==
  /\ SubmitAt(s, "queue")
  /\ letters' = [letters EXCEPT ![submit[s].claimed] = @ + 1]
  /\ SubmitGoes(s, "done")
  /\ UNCHANGED <<subscription, click, hour, submitDeaths>>

SubmitDies(s) ==
  /\ submit[s].at \in {"claim", "queue"} /\ submitDeaths < MaxSubmitDeaths
  /\ submitDeaths' = submitDeaths + 1
  /\ SubmitGoes(s, "dead")
  /\ UNCHANGED <<subscription, click, hour, letters>>

LettersSent == \E h \in 0..MaxHours : letters[h] > 0

\* The link of a letter only asks; the answer sent from its page finds the row by the token of the letter.
AnswerReads(c, wants) ==
  /\ click[c].at = "read" /\ LettersSent
  /\ click' = [click EXCEPT ![c] = [at |-> "settle", wants |-> wants]]
  /\ UNCHANGED <<subscription, submit, hour, letters, submitDeaths>>

\* The answer writes its own columns of the row.
SettlesAnswer(c) ==
  /\ click[c].at = "settle"
  /\ subscription' = [subscription EXCEPT !.status = click[c].wants]
  /\ click' = [click EXCEPT ![c].at = "done"]
  /\ UNCHANGED <<submit, hour, letters, submitDeaths>>

\* INVITATION_INTERVAL passes.
HourPasses ==
  /\ hour < MaxHours
  /\ hour' = hour + 1
  /\ UNCHANGED <<subscription, submit, click, letters, submitDeaths>>

Subscribes(s) == SubscribeLooks(s) \/ SubscribeInserts(s) \/ SubscribeDecides(s) \/ claim_invitation(s) \/ QueuesLetter(s) \/ SubmitDies(s)

NewsletterNext ==
  \/ \E s \in Submit : Subscribes(s)
  \/ \E c \in AddressClick : SettlesAnswer(c) \/ \E wants \in {"confirmed", "unsubscribed"} : AnswerReads(c, wants)
  \/ HourPasses

-----------------------------------------------------------------------------
(* What must hold.                                                         *)

\* The row and the requests have the shape the code gives them.
NewsletterTypeOK ==
  /\ subscription = NoSubscription \/ subscription \in [status : NewsletterStatus, invited_at : {Never} \cup 0..MaxHours]
  /\ \A s \in Submit : submit[s].at \in {"look", "insert", "decide", "claim", "claim read", "queue", "done", "dead"}
  /\ \A c \in AddressClick : click[c].at \in {"read", "settle", "done"}
  /\ hour \in 0..MaxHours /\ submitDeaths \in 0..MaxSubmitDeaths

\* However many submits arrive together, an address is written to once an interval at most.
OneLetterAnHour == \A h \in 0..MaxHours : letters[h] <= 1
=============================================================================
