----------------------------- MODULE Idempotency -----------------------------
(***************************************************************************)
(* helpers/idempotency.py: one key of one account, and the calls that      *)
(* carry it.  A call looks for the row, inserts it, and works; the unique  *)
(* key settles two that looked together, a conditional update settles two  *)
(* that found the same dead claim.                                         *)
(*                                                                         *)
(* A step is what a call does up to a commit, or up to a read it acts on   *)
(* later.  The work is a checkout: it leaves a payment open at the gateway *)
(* and answers its address, which the model names by the call that did it. *)
(***************************************************************************)
EXTENDS Integers, FiniteSets

CONSTANTS
  Call,        \* requests that carry the key
  Endpoint,    \* routes that take a key
  EndpointOf,  \* [Call -> Endpoint]
  None,        \* NULL
  MaxCrashes   \* bound on the calls that die

\* A row of client_request.
Row == [id : Nat, endpoint : Endpoint, answer : Call \cup {None}, stale : BOOLEAN]

ASSUME IdempotencyAssumption ==
  /\ EndpointOf \in [Call -> Endpoint]
  /\ None \notin Call \cup Row
  /\ MaxCrashes \in Nat

VARIABLES
  row,      \* client_request for the key, None while there is none
  rows,     \* how many rows the key has had, which numbers them
  call,     \* [Call -> where the call is, the row it works for and the answer it gave]
  opened,   \* external: the calls that left a payment open
  crashes

vars == <<row, rows, call, opened, crashes>>

Places == {"look", "insert", "read", "take_over", "work", "settle", "give_back", "answered", "refused", "failed", "dead"}
CallState == [at : Places, id : Nat, answer : Call \cup {None}]

Init ==
  /\ row = None /\ rows = 0
  /\ call = [c \in Call |-> [at |-> "look", id |-> 0, answer |-> None]]
  /\ opened = {} /\ crashes = 0

At(c, at) == call[c].at = at

Goto(c, at) == call' = [call EXCEPT ![c] = [@ EXCEPT !.at = at]]

\* What a call does with the row it read.
Meet(c) ==
  /\ IF row.endpoint # EndpointOf[c] THEN Goto(c, "refused")
     ELSE IF row.answer # None
     THEN call' = [call EXCEPT ![c] = [at |-> "answered", id |-> row.id, answer |-> row.answer]]
     ELSE call' = [call EXCEPT ![c] = [@ EXCEPT !.at = "take_over", !.id = row.id]]
  /\ UNCHANGED <<row, rows, opened, crashes>>

\* insert_or_read looks before it writes.
Look(c) ==
  /\ At(c, "look")
  /\ IF row # None THEN Meet(c) ELSE Goto(c, "insert") /\ UNCHANGED <<row, rows, opened, crashes>>

\* The unique key lets one insert in; the others are left to read the row the winner wrote.
InsertRow(c) ==
  /\ At(c, "insert")
  /\ IF row = None
     THEN /\ row' = [id |-> rows + 1, endpoint |-> EndpointOf[c], answer |-> None, stale |-> FALSE]
          /\ rows' = rows + 1
          /\ call' = [call EXCEPT ![c] = [@ EXCEPT !.at = "work", !.id = rows + 1]]
     ELSE Goto(c, "read") /\ UNCHANGED <<row, rows>>
  /\ UNCHANGED <<opened, crashes>>

\* The winner may have given the key back in between, which is a conflict.
ReadAgain(c) ==
  /\ At(c, "read")
  /\ IF row # None THEN Meet(c) ELSE Goto(c, "refused") /\ UNCHANGED <<row, rows, opened, crashes>>

\* Variant: the window was read, and the claim does not ask again.
take_over_Unconditional(c) ==
  /\ At(c, "take_over")
  /\ IF row # None /\ row.id = call[c].id /\ row.answer = None
     THEN row' = [row EXCEPT !.stale = FALSE] /\ Goto(c, "work")
     ELSE Goto(c, "refused") /\ UNCHANGED row
  /\ UNCHANGED <<rows, opened, crashes>>

take_over(c) ==
  /\ At(c, "take_over")
  /\ IF row # None /\ row.id = call[c].id /\ row.answer = None /\ row.stale
     THEN row' = [row EXCEPT !.stale = FALSE] /\ Goto(c, "work")
     ELSE Goto(c, "refused") /\ UNCHANGED row
  /\ UNCHANGED <<rows, opened, crashes>>

WorkDone(c) ==
  /\ At(c, "work")
  /\ opened' = opened \cup {c}
  /\ Goto(c, "settle")
  /\ UNCHANGED <<row, rows, crashes>>

WorkFailed(c) ==
  /\ At(c, "work")
  /\ Goto(c, "give_back")
  /\ UNCHANGED <<row, rows, opened, crashes>>

\* The row is deleted by the id the call took, unless it was answered.
give_back(c) ==
  /\ At(c, "give_back")
  /\ row' = IF row # None /\ row.id = call[c].id /\ row.answer = None THEN None ELSE row
  /\ Goto(c, "failed")
  /\ UNCHANGED <<rows, opened, crashes>>

\* The answer is written on the row the call took; an update that meets no row raises.
settle(c) ==
  /\ At(c, "settle")
  /\ IF row # None /\ row.id = call[c].id
     THEN /\ row' = [row EXCEPT !.answer = c]
          /\ call' = [call EXCEPT ![c] = [@ EXCEPT !.at = "answered", !.answer = c]]
     ELSE Goto(c, "failed") /\ UNCHANGED row
  /\ UNCHANGED <<rows, opened, crashes>>

Holding(c) == call[c].at \in {"work", "settle", "give_back"}

\* ABANDONED_AFTER passes over a claim: five minutes, and a checkout is cut off after fifteen seconds, so no call that holds the key lives through it.
Abandon ==
  /\ row # None
  /\ row.answer = None /\ ~row.stale
  /\ \A c \in Call : ~Holding(c)
  /\ row' = [row EXCEPT !.stale = TRUE]
  /\ UNCHANGED <<rows, call, opened, crashes>>

Crash(c) ==
  /\ Holding(c) /\ crashes < MaxCrashes
  /\ crashes' = crashes + 1
  /\ Goto(c, "dead")
  /\ UNCHANGED <<row, rows, opened>>

Step(c) == Look(c) \/ InsertRow(c) \/ ReadAgain(c) \/ take_over(c) \/ WorkDone(c) \/ WorkFailed(c) \/ give_back(c) \/ settle(c) \/ Crash(c)

Next == Abandon \/ \E c \in Call : Step(c)

Spec == Init /\ [][Next]_vars

-----------------------------------------------------------------------------
(* What must hold.                                                         *)

\* The row and the calls have the shape the code gives them.
TypeOK ==
  /\ row \in Row \cup {None} /\ rows \in Nat
  /\ call \in [Call -> CallState]
  /\ opened \subseteq Call /\ crashes \in Nat

\* Two calls never work for the key at once.
OneHolder == \A c, d \in Call : (Holding(c) /\ Holding(d)) => c = d

\* Every call that was answered was answered the same, and by the answer the key still carries.
SameAnswer == \A c \in Call : At(c, "answered") => (row # None /\ call[c].answer # None /\ row.answer = call[c].answer)

\* A second payment is opened only where the call before it died with the key.
OpenedOnce == Cardinality(opened) <= 1 + crashes

\* An answer comes from the route the call named.
AnswerOfItsRoute == \A c \in Call : At(c, "answered") => EndpointOf[call[c].answer] = EndpointOf[c]

\* Calls that carry one key are one write: one of them holds the key, the work is done once unless its doer died, and all are told one answer, by the route that did it.
IdempotencyInv == TypeOK /\ OneHolder /\ SameAnswer /\ OpenedOnce /\ AnswerOfItsRoute
=============================================================================
