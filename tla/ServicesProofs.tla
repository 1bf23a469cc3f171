---------------------------- MODULE ServicesProofs ----------------------------
(***************************************************************************)
(* Theorems about the parts that share no row with the rest: calls that    *)
(* carry one key, the balance of an account and its ledger, the start of   *)
(* copies of the process, the rotation of a secret key, the windows that   *)
(* ration requests, what a client asks of its own account, what a browser  *)
(* carries, is counted by and meets on its way, a listing read page after  *)
(* page, and the days a schedule falls on.                                 *)
(***************************************************************************)
EXTENDS Idempotency, Ledger, Rationed, Rotation, Startup, Visitors, Api, Browser, Listing, Calendar, FiniteSetTheorems, SequenceTheorems, WellFoundedInduction, TLAPS

-----------------------------------------------------------------------------
(* Calls that carry one key.                                               *)

\* Rows are numbered as they are inserted, and no call names one that never was.
Numbered ==
  /\ row # None => row.id <= rows
  /\ \A c \in Call : call[c].id <= rows

\* Who holds the key holds the row that is there, and it is neither answered nor abandoned.
HeldRow == \A c \in Call : Holding(c) => (row # None /\ row.id = call[c].id /\ row.answer = None /\ ~row.stale)

\* The row names the route of whoever holds it, may take it over, answered it or was answered by it.
RowOfRoute ==
  row # None =>
    /\ \A c \in Call : (call[c].at \in {"work", "settle", "give_back", "take_over"} /\ call[c].id = row.id) => row.endpoint = EndpointOf[c]
    /\ \A c \in Call : At(c, "answered") => row.endpoint = EndpointOf[c]
    /\ row.answer # None => EndpointOf[row.answer] = row.endpoint

\* A call that opened a payment is about to write it down, wrote it down, or died.
OpenedBy == \A c \in opened : At(c, "settle") \/ At(c, "dead") \/ (At(c, "answered") /\ call[c].answer = c)

Alive == \E c \in opened : ~At(c, "dead")

\* The payments opened are those of calls that died, and one more while its call is alive.
OpenedCount ==
  /\ IsFiniteSet(opened)
  /\ Cardinality(opened) <= IF Alive THEN 1 + crashes ELSE crashes

IdempotencyIInv == TypeOK /\ Numbered /\ OneHolder /\ HeldRow /\ SameAnswer /\ RowOfRoute /\ OpenedBy /\ OpenedCount

\* What a step may rest on besides the counting.
Core == TypeOK /\ Numbered /\ OneHolder /\ HeldRow /\ SameAnswer /\ RowOfRoute

-----------------------------------------------------------------------------
\* A write on one call leaves the others.
LEMMA CallWrite ==
  ASSUME NEW c \in Call, NEW new \in CallState, call \in [Call -> CallState], call' = [call EXCEPT ![c] = new]
  PROVE  call' \in [Call -> CallState] /\ call'[c] = new /\ \A d \in Call : d # c => call'[d] = call[d]
OBVIOUS

\* Goto moves one call and keeps the row it works for and the answer it gave.
LEMMA GotoCall ==
  ASSUME NEW c \in Call, NEW at \in Places, TypeOK, Goto(c, at)
  PROVE  /\ call' \in [Call -> CallState]
         /\ call'[c].at = at /\ call'[c].id = call[c].id /\ call'[c].answer = call[c].answer
         /\ \A d \in Call : d # c => call'[d] = call[d]
<1> DEFINE new == [call[c] EXCEPT !.at = at]
<1>1. call \in [Call -> CallState] /\ call[c] \in CallState
  BY DEF TypeOK
<1>2. new \in CallState /\ new.at = at /\ new.id = call[c].id /\ new.answer = call[c].answer
  BY <1>1 DEF CallState
<1>3. call' = [call EXCEPT ![c] = new]
  BY DEF Goto
<1> HIDE DEF new
<1>4. QED
  BY <1>1, <1>2, <1>3, CallWrite

\* A call that meets a row is refused, answered what the row carries, or left to take the claim over.
LEMMA MeetCall ==
  ASSUME NEW c \in Call, TypeOK, row # None, Meet(c)
  PROVE  /\ call' \in [Call -> CallState]
         /\ \A d \in Call : d # c => call'[d] = call[d]
         /\ \/ call'[c].at = "refused" /\ call'[c].id = call[c].id
            \/ /\ call'[c].at = "answered" /\ call'[c].id = row.id /\ call'[c].answer = row.answer
               /\ row.answer # None /\ row.endpoint = EndpointOf[c]
            \/ call'[c].at = "take_over" /\ call'[c].id = row.id /\ row.endpoint = EndpointOf[c]
<1>1. call \in [Call -> CallState] /\ call[c] \in CallState /\ row \in Row
  BY DEF TypeOK
<1>2. CASE row.endpoint # EndpointOf[c]
  BY <1>2, GotoCall DEF Meet, Places
<1>3. CASE row.endpoint = EndpointOf[c] /\ row.answer # None
  <2> DEFINE new == [at |-> "answered", id |-> row.id, answer |-> row.answer]
  <2>1. new \in CallState /\ new.at = "answered" /\ new.id = row.id /\ new.answer = row.answer
    BY <1>1 DEF CallState, Row, Places
  <2>2. call' = [call EXCEPT ![c] = new]
    BY <1>3 DEF Meet
  <2> HIDE DEF new
  <2>3. QED
    BY <1>1, <1>3, <2>1, <2>2, CallWrite
<1>4. CASE row.endpoint = EndpointOf[c] /\ row.answer = None
  <2> DEFINE new == [call[c] EXCEPT !.at = "take_over", !.id = row.id]
  <2>1. new \in CallState /\ new.at = "take_over" /\ new.id = row.id
    BY <1>1 DEF CallState, Row, Places
  <2>2. call' = [call EXCEPT ![c] = new]
    BY <1>4 DEF Meet
  <2> HIDE DEF new
  <2>3. QED
    BY <1>1, <1>4, <2>1, <2>2, CallWrite
<1>5. QED
  BY <1>2, <1>3, <1>4

-----------------------------------------------------------------------------
(* The row, the calls and who holds what, step by step.                    *)

LEMMA CoreInit == Init => Core
BY IdempotencyAssumption DEF Init, Core, TypeOK, CallState, Places, Numbered, OneHolder, HeldRow, SameAnswer, RowOfRoute, Holding, At

\* A call that only reads moves itself.
LEMMA MeetKeepsCore ==
  ASSUME NEW c \in Call, Core, row # None, ~Holding(c), ~At(c, "answered"), Meet(c)
  PROVE  Core'
<1>1. UNCHANGED <<row, rows, opened, crashes>>
  BY DEF Meet
<1>2. TypeOK' /\ ~Holding(c)'
  BY <1>1, MeetCall DEF Core, TypeOK, Holding
<1>3. Numbered'
  BY <1>1, MeetCall DEF Core, Numbered
<1>4. (OneHolder /\ HeldRow)'
  BY <1>1, <1>2, MeetCall DEF Core, OneHolder, HeldRow, Holding
<1>5. SameAnswer'
  BY <1>1, MeetCall DEF Core, SameAnswer, At
<1>6. RowOfRoute'
  BY <1>1, MeetCall DEF Core, RowOfRoute, At
<1>7. QED
  BY <1>2, <1>3, <1>4, <1>5, <1>6 DEF Core

\* A call that gives up, dies or goes on without touching the row moves itself.
LEMMA GotoKeepsCore ==
  ASSUME NEW c \in Call, NEW at \in {"insert", "read", "refused", "failed", "dead", "settle", "give_back"}, Core, Goto(c, at), UNCHANGED <<row, rows>>,
         opened' \subseteq Call, crashes' \in Nat,
         at \in {"settle", "give_back"} => At(c, "work")
  PROVE  Core'
<1>1. at \in Places
  BY DEF Places
<1>2. TypeOK' /\ Numbered'
  BY <1>1, GotoCall DEF Core, TypeOK, Numbered
<1>3. (OneHolder /\ HeldRow)'
  BY <1>1, GotoCall DEF Core, OneHolder, HeldRow, Holding, At
<1>4. SameAnswer'
  BY <1>1, GotoCall DEF Core, SameAnswer, At
<1>5. RowOfRoute'
  BY <1>1, GotoCall DEF Core, RowOfRoute, At
<1>6. QED
  BY <1>2, <1>3, <1>4, <1>5 DEF Core

LEMMA CoreStep == Core /\ [Next]_vars => Core'
<1> SUFFICES ASSUME Core, [Next]_vars PROVE Core'
  OBVIOUS
<1>1. CASE UNCHANGED vars
  BY <1>1 DEF vars, Core, TypeOK, Numbered, OneHolder, HeldRow, SameAnswer, RowOfRoute, Holding, At
<1>2. CASE Abandon
  <2>1. row \in Row /\ row' = [row EXCEPT !.stale = TRUE] /\ UNCHANGED <<rows, call, opened, crashes>> /\ \A c \in Call : ~Holding(c)
    BY <1>2, IdempotencyAssumption DEF Abandon, Core, TypeOK
  <2>2. row' \in Row /\ row'.id = row.id /\ row'.endpoint = row.endpoint /\ row'.answer = row.answer /\ row' # None /\ row # None
    BY <1>2, <2>1, IdempotencyAssumption DEF Row, Abandon
  <2>3. QED
    BY <2>1, <2>2 DEF Core, TypeOK, Numbered, OneHolder, HeldRow, SameAnswer, RowOfRoute, Holding, At
<1>3. ASSUME NEW c \in Call, Look(c) PROVE Core'
  <2>1. CASE row # None
    BY <1>3, <2>1, MeetKeepsCore DEF Look, At, Holding
  <2>2. CASE row = None
    BY <1>3, <2>2, GotoKeepsCore DEF Look, Core, TypeOK
  <2>3. QED
    BY <2>1, <2>2
<1>4. ASSUME NEW c \in Call, ReadAgain(c) PROVE Core'
  <2>1. CASE row # None
    BY <1>4, <2>1, MeetKeepsCore DEF ReadAgain, At, Holding
  <2>2. CASE row = None
    BY <1>4, <2>2, GotoKeepsCore DEF ReadAgain, Core, TypeOK
  <2>3. QED
    BY <2>1, <2>2
<1>5. ASSUME NEW c \in Call, InsertRow(c) PROVE Core'
  <2>1. CASE row # None
    BY <1>5, <2>1, GotoKeepsCore DEF InsertRow, Core, TypeOK
  <2>2. CASE row = None
    <3> DEFINE new == [call[c] EXCEPT !.at = "work", !.id = rows + 1]
    <3>1. call \in [Call -> CallState] /\ call[c] \in CallState /\ rows \in Nat /\ rows + 1 \in Nat /\ opened \subseteq Call /\ crashes \in Nat /\ EndpointOf[c] \in Endpoint
      BY IdempotencyAssumption DEF Core, TypeOK
    <3>2. new \in CallState /\ new.at = "work" /\ new.id = rows + 1
      BY <3>1 DEF CallState, Places
    <3>3. call' = [call EXCEPT ![c] = new] /\ row' = [id |-> rows + 1, endpoint |-> EndpointOf[c], answer |-> None, stale |-> FALSE] /\ rows' = rows + 1 /\ UNCHANGED <<opened, crashes>>
      BY <1>5, <2>2 DEF InsertRow
    <3> HIDE DEF new
    <3>4. call' \in [Call -> CallState] /\ call'[c] = new /\ \A d \in Call : d # c => call'[d] = call[d]
      BY <3>1, <3>2, <3>3, CallWrite
    <3>5. row' \in Row /\ row'.id = rows + 1 /\ row'.endpoint = EndpointOf[c] /\ row'.answer = None /\ ~row'.stale
      BY <3>1, <3>3, IdempotencyAssumption DEF Row
    <3>6. TypeOK' /\ Numbered'
      BY <2>2, <3>1, <3>2, <3>3, <3>4, <3>5 DEF Core, TypeOK, Numbered, CallState
    <3>7. \A d \in Call : ~Holding(d) /\ ~At(d, "answered")
      BY <2>2 DEF Core, HeldRow, SameAnswer
    <3>8. row' # None
      BY <3>3, IdempotencyAssumption, <3>5
    <3>9. (OneHolder /\ HeldRow /\ SameAnswer)'
      BY <3>2, <3>4, <3>5, <3>7, <3>8 DEF OneHolder, HeldRow, SameAnswer, Holding, At
    <3>10. RowOfRoute'
      BY <3>1, <3>2, <3>4, <3>5, <3>7 DEF RowOfRoute, Core, Numbered, CallState, At
    <3>11. QED
      BY <3>6, <3>9, <3>10 DEF Core
  <2>3. QED
    BY <2>1, <2>2
<1>6. ASSUME NEW c \in Call, take_over(c) PROVE Core'
  <2>1. CASE row # None /\ row.id = call[c].id /\ row.answer = None /\ row.stale
    <3>1. row \in Row /\ row' = [row EXCEPT !.stale = FALSE] /\ Goto(c, "work") /\ UNCHANGED <<rows, opened, crashes>>
      BY <1>6, <2>1 DEF take_over, Core, TypeOK
    <3>2. row' \in Row /\ row'.id = row.id /\ row'.endpoint = row.endpoint /\ row'.answer = row.answer /\ ~row'.stale /\ row' # None
      BY <3>1, IdempotencyAssumption DEF Row
    <3>3. /\ call' \in [Call -> CallState]
          /\ call'[c].at = "work" /\ call'[c].id = call[c].id /\ call'[c].answer = call[c].answer
          /\ \A d \in Call : d # c => call'[d] = call[d]
      BY <3>1, GotoCall DEF Core, Places
    <3>4. \A d \in Call : ~Holding(d) /\ ~At(d, "answered")
      BY <2>1 DEF Core, HeldRow, SameAnswer
    <3>5. TypeOK' /\ Numbered'
      BY <2>1, <3>1, <3>2, <3>3 DEF Core, TypeOK, Numbered
    <3>6. (OneHolder /\ HeldRow /\ SameAnswer)'
      BY <2>1, <3>2, <3>3, <3>4 DEF OneHolder, HeldRow, SameAnswer, Holding, At
    <3>7. RowOfRoute'
      BY <1>6, <2>1, <3>2, <3>3 DEF RowOfRoute, Core, take_over, At
    <3>8. QED
      BY <3>5, <3>6, <3>7 DEF Core
  <2>2. CASE ~(row # None /\ row.id = call[c].id /\ row.answer = None /\ row.stale)
    <3>1. Goto(c, "refused") /\ UNCHANGED <<row, rows, opened, crashes>>
      BY <1>6, <2>2 DEF take_over
    <3>2. QED
      BY <3>1, GotoKeepsCore DEF Core, TypeOK
  <2>3. QED
    BY <2>1, <2>2
<1>7. ASSUME NEW c \in Call, WorkDone(c) PROVE Core'
  BY <1>7, GotoKeepsCore DEF WorkDone, Core, TypeOK
<1>8. ASSUME NEW c \in Call, WorkFailed(c) PROVE Core'
  BY <1>8, GotoKeepsCore DEF WorkFailed, Core, TypeOK
<1>9. ASSUME NEW c \in Call, give_back(c) PROVE Core'
  <2>1. row # None /\ row.id = call[c].id /\ row.answer = None /\ \A d \in Call : d # c => ~Holding(d)
    BY <1>9 DEF give_back, At, Core, HeldRow, OneHolder, Holding
  <2>2. row' = None /\ Goto(c, "failed") /\ UNCHANGED <<rows, opened, crashes>>
    BY <1>9, <2>1 DEF give_back
  <2>3. /\ call' \in [Call -> CallState]
        /\ call'[c].at = "failed" /\ call'[c].id = call[c].id
        /\ \A d \in Call : d # c => call'[d] = call[d]
    BY <2>2, GotoCall DEF Core, Places
  <2>4. \A d \in Call : ~At(d, "answered")
    BY <2>1 DEF Core, SameAnswer
  <2>5. QED
    BY <2>1, <2>2, <2>3, <2>4 DEF Core, TypeOK, Numbered, OneHolder, HeldRow, SameAnswer, RowOfRoute, Holding, At
<1>10. ASSUME NEW c \in Call, settle(c) PROVE Core'
  <2> DEFINE new == [call[c] EXCEPT !.at = "answered", !.answer = c]
  <2>1. row # None /\ row.id = call[c].id /\ row.answer = None /\ (\A d \in Call : d # c => ~Holding(d)) /\ row.endpoint = EndpointOf[c]
    BY <1>10 DEF settle, At, Core, HeldRow, OneHolder, Holding, RowOfRoute
  <2>2. row' = [row EXCEPT !.answer = c] /\ call' = [call EXCEPT ![c] = new] /\ UNCHANGED <<rows, opened, crashes>>
    BY <1>10, <2>1 DEF settle
  <2>3. row \in Row /\ call \in [Call -> CallState] /\ call[c] \in CallState
    BY <2>1 DEF Core, TypeOK
  <2>4. new \in CallState /\ new.at = "answered" /\ new.answer = c /\ new.id = call[c].id
    BY <2>3 DEF CallState, Places
  <2> HIDE DEF new
  <2>5. call' \in [Call -> CallState] /\ call'[c] = new /\ \A d \in Call : d # c => call'[d] = call[d]
    BY <2>2, <2>3, <2>4, CallWrite
  <2>6. row' \in Row /\ row'.id = row.id /\ row'.endpoint = row.endpoint /\ row'.answer = c /\ row' # None /\ c # None
    BY <2>2, <2>3, IdempotencyAssumption DEF Row
  <2>7. \A d \in Call : ~At(d, "answered")
    BY <2>1 DEF Core, SameAnswer
  <2>8. TypeOK' /\ Numbered'
    BY <2>1, <2>2, <2>4, <2>5, <2>6 DEF Core, TypeOK, Numbered
  <2>9. (OneHolder /\ HeldRow /\ SameAnswer)'
    BY <2>1, <2>4, <2>5, <2>6, <2>7 DEF OneHolder, HeldRow, SameAnswer, Holding, At
  <2>10. RowOfRoute'
    BY <2>1, <2>4, <2>5, <2>6, <2>7 DEF RowOfRoute, Core, At
  <2>11. QED
    BY <2>8, <2>9, <2>10 DEF Core
<1>11. ASSUME NEW c \in Call, Crash(c) PROVE Core'
  BY <1>11, GotoKeepsCore DEF Crash, Core, TypeOK
<1>12. QED
  BY <1>1, <1>2, <1>3, <1>4, <1>5, <1>6, <1>7, <1>8, <1>9, <1>10, <1>11 DEF Next, Step

-----------------------------------------------------------------------------
(* What was opened, and how often.                                         *)

\* While a call does the work, every payment opened before it belongs to a call that died.
LEMMA OnlyTheDeadOpened ==
  ASSUME Core, OpenedBy, NEW c \in Call, At(c, "work")
  PROVE  c \notin opened /\ ~Alive
<1>1. row # None /\ row.answer = None /\ \A d \in Call : Holding(d) => d = c
  BY DEF Core, HeldRow, OneHolder, Holding, At
<1>2. \A d \in Call : ~At(d, "answered") /\ ~At(d, "settle")
  BY <1>1 DEF Core, SameAnswer, Holding, At
<1>3. opened \subseteq Call
  BY DEF Core, TypeOK
<1>4. QED
  BY <1>2, <1>3 DEF OpenedBy, Alive, At

\* The calls a step other than WorkDone and Crash moves either opened nothing or stay alive.
LEMMA MovedCall ==
  ASSUME Core, OpenedBy, NEW c \in Call, Step(c), ~WorkDone(c), ~Crash(c)
  PROVE  /\ UNCHANGED <<opened, crashes>>
         /\ \A d \in Call : d # c => call'[d] = call[d]
         /\ c \notin opened \/ (call'[c].at = "answered" /\ call'[c].answer = c /\ call[c].at = "settle")
<1>1. call \in [Call -> CallState] /\ call[c] \in CallState
  BY DEF Core, TypeOK
<1>2. CASE settle(c)
  <2>1. row # None /\ row.id = call[c].id
    BY <1>2 DEF settle, At, Core, HeldRow, Holding
  <2>2. QED
    BY <1>1, <1>2, <2>1 DEF settle, At, CallState
<1>3. CASE Look(c) \/ InsertRow(c) \/ ReadAgain(c) \/ take_over(c) \/ WorkFailed(c) \/ give_back(c)
  <2>1. call[c].at \in {"look", "insert", "read", "take_over", "work", "give_back"} /\ UNCHANGED <<opened, crashes>>
    BY <1>3 DEF Look, InsertRow, ReadAgain, take_over, WorkFailed, give_back, Meet, At
  <2>2. \A d \in Call : d # c => call'[d] = call[d]
    BY <1>1, <1>3 DEF Look, InsertRow, ReadAgain, take_over, WorkFailed, give_back, Meet, Goto
  <2>3. QED
    BY <2>1, <2>2 DEF OpenedBy, At
<1>4. QED
  BY <1>2, <1>3 DEF Step

\* A call opens at most one payment that no crash accounts for.
LEMMA CountStep ==
  ASSUME Core, OpenedBy, OpenedCount, [Next]_vars
  PROVE  (OpenedBy /\ OpenedCount)'
<1>0. call \in [Call -> CallState] /\ opened \subseteq Call /\ crashes \in Nat /\ IsFiniteSet(opened) /\ Cardinality(opened) \in Nat
  BY FS_CardinalityType DEF Core, TypeOK, OpenedCount
<1>1. CASE UNCHANGED vars
  BY <1>1 DEF vars, OpenedBy, OpenedCount, Alive, At
<1>2. CASE Abandon
  BY <1>2 DEF Abandon, OpenedBy, OpenedCount, Alive, At
<1>3. ASSUME NEW c \in Call, Step(c), ~WorkDone(c), ~Crash(c) PROVE (OpenedBy /\ OpenedCount)'
  <2>1. OpenedBy'
    BY <1>0, <1>3, MovedCall DEF OpenedBy, At
  <2>2. Alive' = Alive
    BY <1>0, <1>3, MovedCall DEF Alive, At
  <2>3. QED
    BY <1>3, <2>1, <2>2, MovedCall DEF OpenedCount
<1>4. ASSUME NEW c \in Call, WorkDone(c) PROVE (OpenedBy /\ OpenedCount)'
  <2>1. opened' = opened \cup {c} /\ crashes' = crashes /\ Goto(c, "settle") /\ At(c, "work")
    BY <1>4 DEF WorkDone
  <2>2. c \notin opened /\ ~Alive
    BY <2>1, OnlyTheDeadOpened
  <2>3. call'[c].at = "settle" /\ \A d \in Call : d # c => call'[d] = call[d]
    BY <2>1, GotoCall DEF Core, Places
  <2>4. OpenedBy' /\ Alive'
    BY <1>0, <2>1, <2>3 DEF OpenedBy, Alive, At
  <2>5. IsFiniteSet(opened') /\ Cardinality(opened') = Cardinality(opened) + 1
    BY <1>0, <2>1, <2>2, FS_AddElement
  <2>6. Cardinality(opened') <= 1 + crashes'
    BY <1>0, <2>1, <2>2, <2>5 DEF OpenedCount
  <2>7. QED
    BY <2>4, <2>5, <2>6 DEF OpenedCount
<1>5. ASSUME NEW c \in Call, Crash(c) PROVE (OpenedBy /\ OpenedCount)'
  <2>1. opened' = opened /\ crashes' = crashes + 1 /\ Goto(c, "dead")
    BY <1>5 DEF Crash
  <2>2. call'[c].at = "dead" /\ \A d \in Call : d # c => call'[d] = call[d]
    BY <2>1, GotoCall DEF Core, Places
  <2>3. OpenedBy'
    BY <1>0, <2>1, <2>2 DEF OpenedBy, At
  <2>4. Cardinality(opened') <= crashes'
    BY <1>0, <2>1 DEF OpenedCount
  <2>5. QED
    BY <1>0, <2>1, <2>3, <2>4 DEF OpenedCount
<1>6. QED
  BY <1>1, <1>2, <1>3, <1>4, <1>5 DEF Next

-----------------------------------------------------------------------------
\* Calls that carry one key are one write, for any number of calls, routes and deaths: OneHolder, SameAnswer, OpenedOnce and AnswerOfItsRoute hold of what once, claim, take_over, give_back and settle do.
THEOREM OneWrite == Spec => []IdempotencyInv
<1>1. Init => IdempotencyIInv
  BY CoreInit, FS_EmptySet DEF Init, Core, IdempotencyIInv, OpenedBy, OpenedCount, Alive
<1>2. IdempotencyIInv /\ [Next]_vars => IdempotencyIInv'
  BY CoreStep, CountStep DEF IdempotencyIInv, Core
<1>3. IdempotencyIInv => IdempotencyInv
  <2> SUFFICES ASSUME IdempotencyIInv PROVE IdempotencyInv
    OBVIOUS
  <2>1. OpenedOnce
    BY FS_CardinalityType DEF IdempotencyIInv, OpenedCount, OpenedOnce, TypeOK
  <2>2. AnswerOfItsRoute
    <3> SUFFICES ASSUME NEW c \in Call, At(c, "answered") PROVE EndpointOf[call[c].answer] = EndpointOf[c]
      BY DEF AnswerOfItsRoute
    <3> QED
      BY DEF IdempotencyIInv, SameAnswer, RowOfRoute
  <2>3. QED
    BY <2>1, <2>2 DEF IdempotencyIInv, IdempotencyInv
<1>4. QED
  BY <1>1, <1>2, <1>3, PTL DEF Spec

-----------------------------------------------------------------------------
(* The balance of one account and the ledger that explains it.             *)

\* What an account without a row holds.
Holds == IF balance = NoBalance THEN 0 ELSE balance

\* Who settles holds the row and read under its lock what the row says now: the column only moves in the hands of its holder.
SettlesUnderLock == \A m \in Mover : MoverAt(m, "settle") => holder = m /\ mover[m].held = Holds

\* A call asks for no number the arithmetic of the ledger does not know.
LedgerShape ==
  /\ movement \in [LedgerKey -> Movement] /\ foreign \in BOOLEAN
  /\ entries \in Seq(LedgerEntry)
  /\ balance \in Int /\ ledgerDeaths \in 0..MaxLedgerDeaths
  /\ holder \in Mover \cup {Nobody}
  /\ mover \in [Mover -> [at : MoverPlaces, held : Int]]

LedgerIInv == LedgerShape /\ SettlesUnderLock /\ LedgerAddsUp

-----------------------------------------------------------------------------
(* What a movement adds, and what a write of one call leaves.              *)

\* The sign of a movement is its direction, and an adjustment carries its own.
LEMMA SignedAmount ==
  ASSUME NEW v \in Movement
  PROVE  signed_amount(v) \in Int
<1>1. v.amount \in Int /\ v.type \in CreditTransactionType
  BY LedgerAssumption DEF Movement
<1>2. CASE v.type = "adjustment"
  BY <1>1, <1>2 DEF signed_amount
<1>3. CASE v.type = "credit"
  BY <1>1, <1>3 DEF signed_amount, DIRECTIONS
<1>4. CASE v.type \in {"debit", "reversal"}
  BY <1>1, <1>4 DEF signed_amount, DIRECTIONS
<1>5. QED
  BY <1>1, <1>2, <1>3, <1>4 DEF CreditTransactionType

\* A call writes where it is, and the others are where they were.
LEMMA MoverWrite ==
  ASSUME LedgerShape, NEW m \in Mover, NEW new \in [at : MoverPlaces, held : Int], mover' = [mover EXCEPT ![m] = new]
  PROVE  mover' \in [Mover -> [at : MoverPlaces, held : Int]] /\ mover'[m] = new /\ \A o \in Mover : o # m => mover'[o] = mover[o]
BY DEF LedgerShape

\* Going somewhere keeps what was read.
LEMMA GoesWrite ==
  ASSUME LedgerShape, NEW m \in Mover, NEW at \in MoverPlaces, MoverGoes(m, at)
  PROVE  /\ mover' \in [Mover -> [at : MoverPlaces, held : Int]] /\ \A o \in Mover : o # m => mover'[o] = mover[o]
         /\ mover'[m].at = at /\ mover'[m].held = mover[m].held
<1> DEFINE new == [mover[m] EXCEPT !.at = at]
<1>1. new \in [at : MoverPlaces, held : Int] /\ new.at = at /\ new.held = mover[m].held
  BY DEF LedgerShape
<1>2. mover' = [mover EXCEPT ![m] = new]
  BY DEF MoverGoes
<1> HIDE DEF new
<1>3. QED
  BY <1>1, <1>2, MoverWrite

\* A step that writes no row and lets nobody else's lock go keeps the invariant, when the call that took it does not settle.
LEMMA Elsewhere ==
  ASSUME LedgerIInv, NEW m \in Mover, UNCHANGED <<movement, foreign, entries, balance>>, ledgerDeaths' \in 0..MaxLedgerDeaths,
         mover' \in [Mover -> [at : MoverPlaces, held : Int]], \A o \in Mover : o # m => mover'[o] = mover[o],
         mover'[m].at # "settle", holder' \in Mover \cup {Nobody}, holder' = holder \/ holder \in {Nobody, m}
  PROVE  LedgerIInv'
<1>1. LedgerShape'
  BY DEF LedgerIInv, LedgerShape
<1>2. SettlesUnderLock'
  BY LedgerAssumption DEF LedgerIInv, SettlesUnderLock, MoverAt, Holds
<1>3. LedgerAddsUp'
  BY DEF LedgerIInv, LedgerAddsUp, BalanceBefore
<1>4. QED
  BY <1>1, <1>2, <1>3 DEF LedgerIInv

LEMMA EndsRow ==
  ASSUME LedgerIInv, NEW m \in Mover, Ends(m)
  PROVE  holder' \in Mover \cup {Nobody} /\ (holder' = holder \/ holder \in {Nobody, m})
BY DEF LedgerIInv, LedgerShape, Ends

-----------------------------------------------------------------------------
(* The steps.                                                              *)

\* The entry and the balance land together: the entry starts from the balance that was read under the lock, which is the one the last entry left.
LEMMA SettleAdds ==
  ASSUME LedgerIInv, NEW m \in Mover, MoveSettles(m)
  PROVE  LedgerIInv'
<1>1. PICK v \in Movement : v = movement[LedgerKeyOf[m]]
  BY LedgerAssumption DEF LedgerIInv, LedgerShape
<1> DEFINE after == mover[m].held + signed_amount(v)
           entry == [key |-> LedgerKeyOf[m], type |-> v.type, amount |-> signed_amount(v), balance_after |-> after]
<1>2. /\ MoverAt(m, "settle") /\ Ends(m) /\ UNCHANGED <<movement, foreign, ledgerDeaths>>
      /\ holder = m /\ mover[m].held = Holds /\ after \in Int /\ ledgerDeaths' \in 0..MaxLedgerDeaths
  BY <1>1, SignedAmount DEF MoveSettles, LedgerIInv, SettlesUnderLock, LedgerShape
<1>3. CASE UNCHANGED <<entries, balance>> /\ \E at \in {"answered", "refused"} : MoverGoes(m, at)
  <2>1. PICK at \in {"answered", "refused"} : MoverGoes(m, at)
    BY <1>3
  <2>2. mover' \in [Mover -> [at : MoverPlaces, held : Int]] /\ mover'[m].at # "settle" /\ \A o \in Mover : o # m => mover'[o] = mover[o]
    BY <2>1, GoesWrite DEF LedgerIInv, MoverPlaces
  <2>3. QED
    BY <1>2, <1>3, <2>2, EndsRow, Elsewhere
<1>4. CASE entries' = Append(entries, entry) /\ balance' = after /\ MoverGoes(m, "answered") /\ after >= 0 /\ after <= BIG_INTEGER_MAX
  <2>1. mover' \in [Mover -> [at : MoverPlaces, held : Int]] /\ mover'[m].at # "settle" /\ \A o \in Mover : o # m => mover'[o] = mover[o]
    BY <1>4, GoesWrite DEF LedgerIInv, MoverPlaces
  <2>2. entry \in LedgerEntry
    BY <1>1, <1>2, SignedAmount, LedgerAssumption DEF LedgerEntry, Movement
  <2>3. LedgerShape'
    BY <1>2, <1>4, <2>1, <2>2, EndsRow DEF LedgerIInv, LedgerShape
  <2>4. SettlesUnderLock'
    BY <1>2, <2>1 DEF LedgerIInv, SettlesUnderLock, MoverAt
  <2>5. LedgerAddsUp'
    <3> DEFINE n == Len(entries)
    <3> HIDE DEF after
    <3>1. entries \in Seq(LedgerEntry) /\ n \in Nat /\ DOMAIN entries = 1..n
      BY DEF LedgerIInv, LedgerShape
    <3>2. Len(entries') = n + 1 /\ DOMAIN entries' = 1..(n + 1) /\ entries'[n + 1] = entry /\ \A i \in 1..n : entries'[i] = entries[i]
      BY <1>4, <2>2, <3>1
    <3>3. after = BalanceBefore(n + 1) + signed_amount(v)
      <4>1. CASE n = 0
        <5>1. entries = <<>>
          BY <3>1, <4>1
        <5>2. Holds = 0
          BY <5>1 DEF LedgerIInv, LedgerAddsUp, Holds
        <5>3. QED
          BY <1>2, <4>1, <5>2 DEF BalanceBefore, after
      <4>2. CASE n # 0
        <5>1. entries # <<>> /\ Last(entries) = entries[n] /\ n \in DOMAIN entries
          BY <3>1, <4>2 DEF Last
        <5>2. balance = entries[n].balance_after /\ entries[n].balance_after \in 0..BIG_INTEGER_MAX
          BY <5>1 DEF LedgerIInv, LedgerAddsUp
        <5>3. Holds = entries[n].balance_after
          BY <5>2, LedgerAssumption DEF Holds, NoBalance
        <5>4. n + 1 # 1 /\ (n + 1) - 1 = n
          BY <3>1, <4>2
        <5>5. QED
          BY <1>2, <5>3, <5>4 DEF BalanceBefore, after
      <4>3. QED
        BY <4>1, <4>2
    <3>4. \A i \in 1..(n + 1) : BalanceBefore(i)' = BalanceBefore(i)
      BY <3>1, <3>2 DEF BalanceBefore
    <3>5. ASSUME NEW i \in DOMAIN entries'
          PROVE  /\ entries'[i].balance_after = BalanceBefore(i)' + entries'[i].amount
                 /\ entries'[i].balance_after \in 0..BIG_INTEGER_MAX
      <4>1. CASE i = n + 1
        BY <1>2, <1>4, <3>2, <3>3, <3>4, <4>1, LedgerAssumption
      <4>2. CASE i # n + 1
        <5>1. i \in 1..n
          BY <3>1, <3>2, <4>2
        <5>2. QED
          BY <3>1, <3>2, <3>4, <5>1 DEF LedgerIInv, LedgerAddsUp
      <4>3. QED
        BY <4>1, <4>2
    <3>6. entries' # <<>> /\ balance' = Last(entries').balance_after
      BY <1>4, <3>1, <3>2 DEF Last
    <3>7. QED
      BY <3>5, <3>6 DEF LedgerAddsUp
  <2>6. QED
    BY <2>3, <2>4, <2>5 DEF LedgerIInv
<1>5. \/ MoverGoes(m, "answered") /\ UNCHANGED <<entries, balance>>
      \/ MoverGoes(m, "refused") /\ UNCHANGED <<entries, balance>>
      \/ /\ ~(Unsigned(v) \/ after < 0 \/ after > BIG_INTEGER_MAX)
         /\ entries' = Append(entries, entry) /\ balance' = after /\ MoverGoes(m, "answered")
  BY <1>1 DEF MoveSettles
<1>6. ~(after < 0 \/ after > BIG_INTEGER_MAX) => after >= 0 /\ after <= BIG_INTEGER_MAX
  BY <1>2, LedgerAssumption
<1>7. QED
  BY <1>3, <1>4, <1>5, <1>6

LEMMA LedgerStarts ==
  ASSUME LedgerInit
  PROVE  LedgerIInv
<1> DEFINE first == [key |-> Earlier, type |-> "credit", amount |-> 1, balance_after |-> 1]
<1>1. (entries = <<>> /\ balance = NoBalance) \/ (entries = <<first>> /\ balance = 1)
  BY DEF LedgerInit
<1>2. first \in LedgerEntry
  BY DEF LedgerEntry, CreditTransactionType
<1>3. LedgerShape
  <2>1. \A e \in LedgerEntry : <<e>> \in Seq(LedgerEntry)
    OBVIOUS
  <2>2. entries \in Seq(LedgerEntry)
    <3> HIDE DEF first
    <3>1. CASE entries = <<first>>
      BY <1>2, <2>1, <3>1, Zenon
    <3>2. CASE entries = <<>>
      BY <3>2
    <3>3. QED
      BY <1>1, <3>1, <3>2
  <2>3. balance \in Int
    BY <1>1 DEF NoBalance
  <2>4. QED
    BY <2>2, <2>3, LedgerAssumption DEF LedgerInit, LedgerShape, MoverPlaces
<1>4. SettlesUnderLock
  BY DEF LedgerInit, SettlesUnderLock, MoverAt
<1>5. LedgerAddsUp
  <2>1. CASE entries = <<>> /\ balance = NoBalance
    BY <2>1 DEF LedgerAddsUp
  <2>2. CASE entries = <<first>> /\ balance = 1
    <3>1. DOMAIN entries = {1} /\ entries[1] = first /\ entries # <<>> /\ Last(entries) = first
      BY <2>2 DEF Last
    <3>2. QED
      BY <2>2, <3>1, LedgerAssumption DEF LedgerAddsUp, BalanceBefore
  <2>3. QED
    BY <1>1, <2>1, <2>2
<1>6. QED
  BY <1>3, <1>4, <1>5 DEF LedgerIInv

LEMMA LedgerSteps ==
  ASSUME LedgerIInv, [LedgerNext]_ledgerVars
  PROVE  LedgerIInv'
<1> USE DEF MoverPlaces
<1>1. LedgerShape /\ ledgerDeaths \in 0..MaxLedgerDeaths /\ holder \in Mover \cup {Nobody} /\ balance \in Int
  BY DEF LedgerIInv, LedgerShape
<1>2. ASSUME NEW m \in Mover, MoveReads(m) PROVE LedgerIInv'
  <2>1. PICK at \in {"answered", "refused", "look"} : MoverGoes(m, at)
    BY <1>2 DEF MoveReads
  <2>2. QED
    BY <1>1, <1>2, <2>1, GoesWrite, Elsewhere DEF MoveReads
<1>3. ASSUME NEW m \in Mover, HeldLooks(m) PROVE LedgerIInv'
  <2>1. CASE balance # NoBalance
    <3>1. mover' = [mover EXCEPT ![m] = [at |-> "lock", held |-> balance]] /\ UNCHANGED <<movement, foreign, entries, balance, holder, ledgerDeaths>>
      BY <1>3, <2>1 DEF HeldLooks
    <3>2. [at |-> "lock", held |-> balance] \in [at : MoverPlaces, held : Int]
      BY <1>1
    <3>3. mover' \in [Mover -> [at : MoverPlaces, held : Int]] /\ mover'[m].at = "lock" /\ \A o \in Mover : o # m => mover'[o] = mover[o]
      BY <1>1, <3>1, <3>2, MoverWrite
    <3>4. QED
      BY <1>1, <3>1, <3>3, Elsewhere
  <2>2. CASE balance = NoBalance
    <3>1. MoverGoes(m, "insert")
      BY <1>3, <2>2 DEF HeldLooks, MoverGoes
    <3>2. QED
      BY <1>1, <1>3, <3>1, GoesWrite, Elsewhere DEF HeldLooks
  <2>3. QED
    BY <2>1, <2>2
<1>4. ASSUME NEW m \in Mover, HeldInserts(m) PROVE LedgerIInv'
  <2>1. CASE balance # NoBalance
    <3>1. mover' = [mover EXCEPT ![m] = [at |-> "lock", held |-> balance]] /\ UNCHANGED <<movement, foreign, entries, balance, holder, ledgerDeaths>>
      BY <1>4, <2>1 DEF HeldInserts
    <3>2. [at |-> "lock", held |-> balance] \in [at : MoverPlaces, held : Int]
      BY <1>1
    <3>3. mover' \in [Mover -> [at : MoverPlaces, held : Int]] /\ mover'[m].at = "lock" /\ \A o \in Mover : o # m => mover'[o] = mover[o]
      BY <1>1, <3>1, <3>2, MoverWrite
    <3>4. QED
      BY <1>1, <3>1, <3>3, Elsewhere
  <2>2. CASE balance = NoBalance
    <3>1. MoverGoes(m, "lock") /\ holder' = m /\ holder = Nobody
      BY <1>4, <2>2 DEF HeldInserts
    <3>2. QED
      BY <1>1, <1>4, <3>1, GoesWrite, Elsewhere DEF HeldInserts
  <2>3. QED
    BY <2>1, <2>2
<1>5. ASSUME NEW m \in Mover, HeldLocks(m) PROVE LedgerIInv'
  <2>1. mover' = [mover EXCEPT ![m] = [at |-> "settle", held |-> Holds]] /\ holder' = m /\ holder \in {Nobody, m} /\ UNCHANGED <<movement, foreign, entries, balance, ledgerDeaths>>
    BY <1>5 DEF HeldLocks, Holds
  <2>2. Holds \in Int
    BY <1>1 DEF Holds
  <2>3. mover' \in [Mover -> [at : MoverPlaces, held : Int]] /\ mover'[m] = [at |-> "settle", held |-> Holds] /\ \A o \in Mover : o # m => mover'[o] = mover[o]
    BY <1>1, <2>1, <2>2, MoverWrite
  <2>4. LedgerShape'
    BY <2>1, <2>3 DEF LedgerIInv, LedgerShape
  <2>5. SettlesUnderLock'
    BY <2>1, <2>3, LedgerAssumption DEF LedgerIInv, SettlesUnderLock, MoverAt, Holds
  <2>6. LedgerAddsUp'
    BY <2>1 DEF LedgerIInv, LedgerAddsUp, BalanceBefore
  <2>7. QED
    BY <2>4, <2>5, <2>6 DEF LedgerIInv
<1>6. ASSUME NEW m \in Mover, MoveSettles(m) PROVE LedgerIInv'
  BY <1>6, SettleAdds
<1>7. ASSUME NEW m \in Mover, MoverDies(m) PROVE LedgerIInv'
  <2>1. ledgerDeaths' \in 0..MaxLedgerDeaths
    BY <1>1, <1>7, LedgerAssumption DEF MoverDies
  <2>2. MoverGoes(m, "dead") /\ Ends(m) /\ UNCHANGED <<movement, foreign, entries, balance>>
    BY <1>7 DEF MoverDies
  <2>3. QED
    BY <1>1, <2>1, <2>2, GoesWrite, EndsRow, Elsewhere
<1>8. CASE UNCHANGED ledgerVars
  BY <1>8 DEF ledgerVars, LedgerIInv, LedgerShape, SettlesUnderLock, MoverAt, Holds, LedgerAddsUp, BalanceBefore
<1>9. QED
  BY <1>2, <1>3, <1>4, <1>5, <1>6, <1>7, <1>8 DEF LedgerNext, Move

\* A call is refused where the currency or the range says so, and both look for its key first.
LEMMA RefusesOnlyNew ==
  ASSUME LedgerIInv, [LedgerNext]_ledgerVars, NEW m \in Mover, ~MoverAt(m, "refused"), mover'[m].at = "refused"
  PROVE  ~settled_by_key(LedgerKeyOf[m])
<1>1. LedgerShape
  BY DEF LedgerIInv
<1>2. ~UNCHANGED ledgerVars
  BY DEF ledgerVars, MoverAt
<1>3. PICK o \in Mover : Move(o)
  BY <1>2 DEF LedgerNext
<1>4. CASE MoveReads(o)
  BY <1>1, <1>4 DEF MoveReads, MoverGoes, MoverAt, LedgerShape
<1>5. CASE MoveSettles(o)
  BY <1>1, <1>5 DEF MoveSettles, MoverGoes, MoverAt, LedgerShape
<1>6. CASE HeldLooks(o)
  BY <1>1, <1>6 DEF HeldLooks, MoverAt, LedgerShape
<1>7. CASE HeldInserts(o)
  <2>1. MoverGoes(o, "lock") \/ mover' = [mover EXCEPT ![o] = [at |-> "lock", held |-> balance]]
    BY <1>7 DEF HeldInserts
  <2>2. QED
    BY <1>1, <2>1 DEF MoverGoes, MoverAt, LedgerShape
<1>8. CASE HeldLocks(o) \/ MoverDies(o)
  BY <1>1, <1>8 DEF HeldLocks, MoverDies, MoverGoes, MoverAt, LedgerShape
<1>9. QED
  BY <1>3, <1>4, <1>5, <1>6, <1>7, <1>8 DEF Move

-----------------------------------------------------------------------------
(* The theorem.                                                            *)

\* Movements of one account, its deliveries and its manual entries at once, wait for each other on the row of the balance (held): every entry follows from the one
\* before it within the range of the column, the balance is what the last one says, and a call whose key is in the ledger is answered and never refused (move).
THEOREM LedgerExplains == LedgerSpec => LedgerKeeps
<1>1. LedgerIInv => LedgerTypeOK /\ LedgerAddsUp
  BY DEF LedgerIInv, LedgerShape, LedgerTypeOK
<1>2. LedgerIInv /\ [LedgerNext]_ledgerVars =>
        [\A m \in Mover : (~MoverAt(m, "refused") /\ mover'[m].at = "refused") => ~settled_by_key(LedgerKeyOf[m])]_ledgerVars
  BY RefusesOnlyNew
<1>3. LedgerInit => LedgerIInv
  BY LedgerStarts
<1>4. LedgerIInv /\ [LedgerNext]_ledgerVars => LedgerIInv'
  BY LedgerSteps
<1>5. QED
  BY <1>1, <1>2, <1>3, <1>4, PTL DEF LedgerSpec, LedgerKeeps, RepeatIsAnswered

-----------------------------------------------------------------------------
(* Copies that start together, over a database that commits each table as  *)
(* it is created.                                                          *)

\* Only the copy that holds the lock looks and builds, and what it found missing is still missing: nobody else creates a table.
HolderBuilds ==
  \A c \in Copy :
    /\ copy[c].at \in {"look", "build"} => schemaLock = c
    /\ CopyAt(c, "build") => copy[c].missing = OwnedTables \ built
    /\ copy[c].at \in {"commit", "serves"} => built = OwnedTables
    /\ copy[c].wrote = {}

\* A pass of a job runs only in a copy that serves or is leaving.
PassInService == \A c \in Copy : copy[c].pass => copy[c].at \in {"serves", "stopping"}

StartupIInv == StartupTypeOK /\ HolderBuilds /\ PassInService /\ NobodyCollides

CopyRow == [at : CopyPlaces, missing : SUBSET OwnedTables, wrote : SUBSET OwnedTables, pass : BOOLEAN]

\* What a step of one copy has to leave for the whole to stay.
Fits(c, new) ==
  /\ built \subseteq built' /\ built' \subseteq OwnedTables /\ copyDeaths' \in 0..MaxCopyDeaths
  /\ schemaLock' \in Copy \cup {NoCopy}
  /\ \A d \in Copy \ {c} : schemaLock = d => schemaLock' = d /\ built' = built
  /\ new.at \in {"look", "build"} => schemaLock' = c
  /\ new.at = "build" => new.missing = OwnedTables \ built'
  /\ new.at \in {"commit", "serves"} => built' = OwnedTables
  /\ new.wrote = {} /\ (new.pass => new.at \in {"serves", "stopping"}) /\ new.at # "collided"

LEMMA CopySteps ==
  ASSUME StartupIInv, NEW c \in Copy, NEW new \in CopyRow, copy' = [copy EXCEPT ![c] = new], Fits(c, new)
  PROVE  StartupIInv'
<1> USE DEF StartupIInv, Fits
<1>1. copy \in [Copy -> CopyRow] /\ copy' \in [Copy -> CopyRow]  BY DEF StartupTypeOK, CopyRow
<1>2. copy'[c] = new /\ \A d \in Copy \ {c} : copy'[d] = copy[d]  BY <1>1
<1>3. StartupTypeOK'  BY <1>1 DEF StartupTypeOK, CopyRow
<1>4. HolderBuilds'
  <2>1. SUFFICES ASSUME NEW d \in Copy
                 PROVE  /\ copy'[d].at \in {"look", "build"} => schemaLock' = d
                        /\ copy'[d].at = "build" => copy'[d].missing = OwnedTables \ built'
                        /\ copy'[d].at \in {"commit", "serves"} => built' = OwnedTables
                        /\ copy'[d].wrote = {}
    BY DEF HolderBuilds, CopyAt
  <2>2. CASE d = c  BY <2>2, <1>2
  <2>3. CASE d # c
    <3>1. copy'[d] = copy[d] /\ d \in Copy \ {c}  BY <2>3, <1>2
    <3>2. copy[d].at \in {"look", "build"} => schemaLock = d  BY DEF HolderBuilds
    <3>3. copy[d].at = "build" => copy[d].missing = OwnedTables \ built  BY DEF HolderBuilds, CopyAt
    <3>4. copy[d].at \in {"commit", "serves"} => built = OwnedTables  BY DEF HolderBuilds
    <3>5. copy[d].at \in {"look", "build"} => schemaLock' = d /\ built' = built  BY <3>1, <3>2
    <3>6. copy[d].wrote = {}  BY DEF HolderBuilds
    <3> QED  BY <3>1, <3>3, <3>4, <3>5, <3>6
  <2> QED  BY <2>2, <2>3
<1>5. PassInService' /\ NobodyCollides'  BY <1>2 DEF PassInService, NobodyCollides, CopyAt
<1> QED  BY <1>3, <1>4, <1>5

LEMMA StartupBegins == StartupInit => StartupIInv
BY StartupAssumption DEF StartupInit, StartupIInv, StartupTypeOK, HolderBuilds, PassInService, NobodyCollides, CopyAt, Starting, CopyPlaces

LEMMA StartupGoesOn == Dialect = "mysql" /\ StartupIInv /\ [StartupNext]_startupVars => StartupIInv'
<1>1. SUFFICES ASSUME Dialect = "mysql", StartupIInv, [StartupNext]_startupVars PROVE StartupIInv'  OBVIOUS
<1>2. CASE UNCHANGED startupVars
  BY <1>1, <1>2 DEF startupVars, StartupIInv, StartupTypeOK, HolderBuilds, PassInService, NobodyCollides, CopyAt
<1>3. CASE StartupNext
  <2>1. PICK c \in Copy :
          \/ TakesLock(c) \/ GivesUp(c) \/ LooksForTables(c) \/ GivesLockBack(c) \/ CommitsSchema(c) \/ WorkerTurns(c) \/ CopyStops(c) \/ CopyLeaves(c) \/ CopyDies(c)
          \/ \E t \in OwnedTables : CreatesOne(c, t)
    BY <1>3 DEF StartupNext
  <2>2. /\ copy[c] \in CopyRow /\ copy[c].wrote = {} /\ built \subseteq OwnedTables /\ schemaLock \in Copy \cup {NoCopy} /\ copyDeaths \in 0..MaxCopyDeaths
        /\ copy[c].at \in {"look", "build"} => schemaLock = c
        /\ CopyAt(c, "build") => copy[c].missing = OwnedTables \ built
        /\ copy[c].at \in {"commit", "serves"} => built = OwnedTables
        /\ copy[c].pass => copy[c].at \in {"serves", "stopping"}
    BY <1>1 DEF StartupIInv, StartupTypeOK, HolderBuilds, PassInService, CopyRow
  \* A step that only takes the copy to another place.
  <2>3. ASSUME NEW at \in CopyPlaces, copy' = [copy EXCEPT ![c].at = at]
        PROVE  \E new \in CopyRow : copy' = [copy EXCEPT ![c] = new] /\ new.at = at /\ new.missing = copy[c].missing /\ new.wrote = {} /\ new.pass = copy[c].pass
    <3> DEFINE new == [copy[c] EXCEPT !.at = at]
    <3>1. new \in CopyRow /\ new.at = at /\ new.missing = copy[c].missing /\ new.wrote = {} /\ new.pass = copy[c].pass  BY <2>2 DEF CopyRow
    <3>2. copy' = [copy EXCEPT ![c] = new]  BY <2>3
    <3> HIDE DEF new
    <3> QED  BY <3>1, <3>2
  <2> USE <1>1, <2>2
  <2>4. CASE TakesLock(c)
    <3>1. PICK new \in CopyRow : copy' = [copy EXCEPT ![c] = new] /\ new.at = "look" /\ new.wrote = {} /\ new.pass = copy[c].pass
      BY <2>3, <2>4 DEF TakesLock, CopyPlaces
    <3>2. ~new.pass  BY <2>4, <3>1 DEF TakesLock, CopyAt
    <3>3. Fits(c, new)  BY <2>4, <3>1, <3>2, StartupAssumption DEF TakesLock, Fits
    <3> QED  BY <3>1, <3>3, CopySteps
  <2>5. CASE GivesUp(c)
    <3>1. PICK new \in CopyRow : copy' = [copy EXCEPT ![c] = new] /\ new.at = "gave up" /\ new.wrote = {} /\ new.pass = copy[c].pass
      BY <2>3, <2>5 DEF GivesUp, CopyPlaces
    <3>2. ~new.pass  BY <2>5, <3>1 DEF GivesUp, CopyAt
    <3>3. Fits(c, new)  BY <2>5, <3>1, <3>2 DEF GivesUp, Fits
    <3> QED  BY <3>1, <3>3, CopySteps
  <2>6. CASE LooksForTables(c)
    <3> DEFINE new == [copy[c] EXCEPT !.at = "build", !.missing = OwnedTables \ built]
    <3>1. copy' = [copy EXCEPT ![c] = new]  BY <2>6 DEF LooksForTables
    <3>2. new \in CopyRow /\ new.at = "build" /\ new.missing = OwnedTables \ built /\ new.wrote = {} /\ new.pass = copy[c].pass
      <4>1. OwnedTables \ built \in SUBSET OwnedTables  OBVIOUS
      <4> QED  BY <4>1 DEF CopyRow, CopyPlaces
    <3> HIDE DEF new
    <3>3. ~new.pass /\ schemaLock = c  BY <2>6, <3>2 DEF LooksForTables, CopyAt
    <3>4. Fits(c, new)  BY <2>6, <3>2, <3>3 DEF LooksForTables, Fits
    <3> QED  BY <3>1, <3>2, <3>4, CopySteps
  <2>7. CASE GivesLockBack(c)
    <3>1. PICK new \in CopyRow : copy' = [copy EXCEPT ![c] = new] /\ new.at = "commit" /\ new.wrote = {} /\ new.pass = copy[c].pass
      BY <2>3, <2>7 DEF GivesLockBack, CopyPlaces
    <3>2. ~new.pass /\ built = OwnedTables /\ schemaLock = c  BY <2>7, <3>1 DEF GivesLockBack, CopyAt
    <3>3. Fits(c, new)  BY <2>7, <3>1, <3>2 DEF GivesLockBack, Unlocks, Fits
    <3> QED  BY <3>1, <3>3, CopySteps
  <2>8. CASE CommitsSchema(c)
    <3> DEFINE new == [copy[c] EXCEPT !.at = "serves", !.wrote = {}]
    <3>1. copy' = [copy EXCEPT ![c] = new]  BY <2>8 DEF CommitsSchema
    <3>2. new \in CopyRow /\ new.at = "serves" /\ new.wrote = {}
      <4>1. {} \in SUBSET OwnedTables  OBVIOUS
      <4> QED  BY <4>1 DEF CopyRow, CopyPlaces
    <3> HIDE DEF new
    <3>3. built = OwnedTables /\ built' = built  BY <2>8 DEF CommitsSchema, CopyAt
    <3>4. Fits(c, new)  BY <2>8, <3>2, <3>3 DEF CommitsSchema, Fits
    <3> QED  BY <3>1, <3>2, <3>4, CopySteps
  <2>9. CASE WorkerTurns(c)
    <3> DEFINE new == [copy[c] EXCEPT !.pass = ~copy[c].pass]
    <3>1. copy' = [copy EXCEPT ![c] = new]  BY <2>9 DEF WorkerTurns
    <3>2. new \in CopyRow /\ new.at = copy[c].at /\ new.wrote = {}
      BY DEF CopyRow
    <3> HIDE DEF new
    <3>3. copy[c].at \in {"serves", "stopping"}  BY <2>9 DEF WorkerTurns
    <3>4. Fits(c, new)  BY <2>9, <3>2, <3>3 DEF WorkerTurns, Fits
    <3> QED  BY <3>1, <3>2, <3>4, CopySteps
  <2>10. CASE CopyStops(c)
    <3>1. PICK new \in CopyRow : copy' = [copy EXCEPT ![c] = new] /\ new.at = "stopping" /\ new.wrote = {} /\ new.pass = copy[c].pass
      BY <2>3, <2>10 DEF CopyStops, CopyPlaces
    <3>2. Fits(c, new)  BY <2>10, <3>1 DEF CopyStops, Fits
    <3> QED  BY <3>1, <3>2, CopySteps
  <2>11. CASE CopyLeaves(c)
    <3>1. PICK new \in CopyRow : copy' = [copy EXCEPT ![c] = new] /\ new.at = "stopped" /\ new.wrote = {} /\ new.pass = copy[c].pass
      BY <2>3, <2>11 DEF CopyLeaves, CopyPlaces
    <3>2. Fits(c, new)  BY <2>11, <3>1 DEF CopyLeaves, Fits
    <3> QED  BY <3>1, <3>2, CopySteps
  <2>12. CASE CopyDies(c)
    <3>1. copy' = [copy EXCEPT ![c] = Starting]  BY <2>12 DEF CopyDies
    <3>2. Starting \in CopyRow /\ Starting.at = "starts" /\ Starting.wrote = {} /\ ~Starting.pass
      BY DEF Starting, CopyRow, CopyPlaces
    <3>3. copyDeaths' \in 0..MaxCopyDeaths  BY <2>12, StartupAssumption DEF CopyDies
    <3>4. Fits(c, Starting)  BY <2>12, <3>2, <3>3 DEF CopyDies, Unlocks, Fits
    <3> QED  BY <3>1, <3>2, <3>4, CopySteps
  <2>13. ASSUME NEW t \in OwnedTables, CreatesOne(c, t) PROVE StartupIInv'
    <3> DEFINE new == [copy[c] EXCEPT !.missing = copy[c].missing \ {t}]
    <3>1. CopyAt(c, "build") /\ t \in copy[c].missing /\ t \notin built /\ schemaLock = c  BY <2>13 DEF CreatesOne, CopyAt
    <3>2. built' = built \cup {t} /\ UNCHANGED <<schemaLock, copyDeaths>>  BY <2>13, <3>1 DEF CreatesOne
    <3>3. copy' = [copy EXCEPT ![c].missing = copy[c].missing \ {t}, ![c].wrote = copy[c].wrote]  BY <2>13, <3>1 DEF CreatesOne
    <3>4. copy' = [copy EXCEPT ![c] = new]
      <4>1. new = [copy[c] EXCEPT !.missing = copy[c].missing \ {t}, !.wrote = copy[c].wrote]  BY DEF CopyRow
      <4> QED  BY <3>3, <4>1
    <3>5. new \in CopyRow /\ new.at = "build" /\ new.missing = copy[c].missing \ {t} /\ new.wrote = {} /\ new.pass = copy[c].pass
      <4>1. copy[c].missing \ {t} \in SUBSET OwnedTables  BY DEF CopyRow
      <4> QED  BY <3>1, <4>1 DEF CopyRow, CopyAt
    <3> HIDE DEF new
    <3>6. new.missing = OwnedTables \ built' /\ ~new.pass  BY <3>1, <3>2, <3>5 DEF CopyAt
    <3>7. Fits(c, new)  BY <3>1, <3>2, <3>5, <3>6 DEF Fits
    <3> QED  BY <3>4, <3>5, <3>7, CopySteps
  <2> QED  BY <2>1, <2>4, <2>5, <2>6, <2>7, <2>8, <2>9, <2>10, <2>11, <2>12, <2>13
<1> QED  BY <1>1, <1>2, <1>3

\* Over a database that commits each table as it is created, any number of copies may start together, die and be started again: none dies of a
\* table another created, each serves over the whole schema, and none leaves a pass of a job in half.
THEOREM OneBuilder == Dialect = "mysql" => (StartupSpec => []StartupInv)
<1> SUFFICES ASSUME Dialect = "mysql" PROVE StartupSpec => []StartupInv  OBVIOUS
<1>0. StartupIInv /\ [StartupNext]_startupVars => StartupIInv'  BY StartupGoesOn
<1>1. StartupIInv => StartupInv
  <2>1. StartupIInv => ServesWhole  BY DEF StartupIInv, HolderBuilds, PassInService, ServesWhole, CopyAt
  <2> QED  BY <2>1 DEF StartupIInv, StartupInv
<1> QED  BY <1>0, <1>1, StartupBegins, PTL DEF StartupSpec
-----------------------------------------------------------------------------
(* Replacing the key stored secrets are written with.                      *)

\* What ids are read in order for: numbers have a least one, and those below a bound have a greatest.
LEMMA HasLeast ==
  ASSUME NEW S \in SUBSET Nat, S # {}
  PROVE  \E least \in S : \A y \in S : least <= y
<1> DEFINE R == {ss \in Nat \X Nat : ss[1] < ss[2]}
<1>1. IsWellFoundedOn(R, Nat)  BY NatLessThanWellFounded DEF OpToRel
<1>2. \A x, y \in Nat : y < x => <<y, x>> \in R  OBVIOUS
<1> HIDE DEF R
<1>3. PICK x \in S : \A y \in S : ~ (<<y, x>> \in R)  BY <1>1, WFMin
<1>4. \A y \in S : ~(y < x)  BY <1>2, <1>3
<1> QED  BY <1>3, <1>4

LEMMA HasGreatest ==
  ASSUME NEW S \in SUBSET Nat, S # {}, NEW bound \in Nat, \A y \in S : y <= bound
  PROVE  Max(S) \in S /\ \A y \in S : y <= Max(S)
<1> DEFINE Above == {n \in Nat : \A y \in S : y <= n}
<1>1. PICK top \in Above : \A n \in Above : top <= n
  <2>1. Above \in SUBSET Nat /\ bound \in Above  OBVIOUS
  <2> QED  BY <2>1, HasLeast
<1>2. top \in S
  <2>1. SUFFICES ASSUME top \notin S PROVE FALSE  OBVIOUS
  <2>2. PICK y \in S : TRUE  OBVIOUS
  <2>3. y \in Nat /\ y <= top /\ y # top  BY <2>1, <1>1
  <2>4. top - 1 \in Above
    <3>1. \A z \in S : z \in Nat /\ z <= top /\ z # top  BY <2>1, <1>1
    <3> QED  BY <2>3, <3>1, <1>1
  <2> QED  BY <2>4, <1>1
<1>3. \A z \in S : z <= top  BY <1>1
<1> QED  BY <1>2, <1>3 DEF Max

\* What no longer needs the old key: an empty column, or one written with the new key.
OpensWithNew(s) == s = NoSecret \/ s.key = "new"

\* A row the rewrite is past is out of danger: it opens with the new key, or will once the rewrite commits.
PassedOver(i) == OpensWithNew(secret[i]) \/ WrittenBy(i) # {}

Secret == [key : {"none", "old", "new", "lost"}, value : 0..MaxSaves]
PageRow == [id : SecretRow, kept : Secret]
WrittenRow == [id : SecretRow, kept : [key : {"new"}, value : 0..MaxSaves]]
RewriteRow == [at : {"idle", "page", "row", "commit", "done"}, last : Nat, page : SUBSET PageRow, wrote : SUBSET WrittenRow]

RotationShape ==
  /\ secret \in [SecretRow -> Secret] /\ lastSaved \in [SecretRow -> 0..MaxSaves]
  /\ rewrite \in RewriteRow

\* What the rewrite wrote and did not commit is the secret of the row, which nobody saves meanwhile.
WritesNewest == \A w \in rewrite.wrote : w.kept.value = secret[w.id].value

\* An empty column of the page is still empty, or was saved with the new key.
EmptyOrSaved == \A record \in rewrite.page : record.kept = NoSecret => OpensWithNew(secret[record.id])

\* The rewrite passes over no row: what is behind its last id is in its page or out of danger, and nothing is left when it commits.
Sweeps ==
  /\ rewrite.at \in {"page", "row", "commit"} => \A i \in SecretRow : i <= rewrite.last => PassedOver(i) \/ \E record \in rewrite.page : record.id = i
  /\ rewrite.at = "page" => rewrite.page = {}
  /\ rewrite.at = "row" => rewrite.page # {}
  /\ rewrite.at = "commit" => rewrite.page = {} /\ \A i \in SecretRow : i <= rewrite.last
  /\ rewrite.at = "done" => rewrite.wrote = {} /\ \A i \in SecretRow : OpensWithNew(secret[i])
  /\ Len(keys) = 1 => rewrite.at = "done"

RotationIInv == RotationTypeOK /\ RotationShape /\ NewestSecretStays /\ WritesNewest /\ EmptyOrSaved /\ Sweeps

LEMMA RotationBegins == RotationInit => RotationIInv
<1>1. SUFFICES ASSUME RotationInit PROVE RotationIInv  OBVIOUS
<1>2. AtFirst \subseteq Secret /\ \A s \in AtFirst : s.value = 0  BY RotationAssumption DEF AtFirst, NoSecret, Secret
<1>3. Resting \in RewriteRow /\ Resting.at = "idle" /\ Resting.page = {} /\ Resting.wrote = {}
  <2>1. {} \in SUBSET PageRow /\ {} \in SUBSET WrittenRow  OBVIOUS
  <2> QED  BY <2>1 DEF Resting, RewriteRow
<1>4. secret \in [SecretRow -> Secret] /\ \A i \in SecretRow : secret[i].value = 0  BY <1>1, <1>2 DEF RotationInit
<1>5. lastSaved \in [SecretRow -> 0..MaxSaves] /\ \A i \in SecretRow : lastSaved[i] = 0  BY <1>1, RotationAssumption DEF RotationInit
<1>6. RotationShape  BY <1>1, <1>3, <1>4, <1>5 DEF RotationInit, RotationShape
<1>7. RotationTypeOK  BY <1>1, <1>3, <1>4, RotationAssumption DEF RotationInit, RotationTypeOK, Secret
<1>8. NewestSecretStays  BY <1>4, <1>5 DEF NewestSecretStays
<1>9. WritesNewest /\ EmptyOrSaved  BY <1>1, <1>3 DEF RotationInit, WritesNewest, EmptyOrSaved
<1>10. Sweeps  BY <1>1, <1>3 DEF RotationInit, Sweeps
<1> QED  BY <1>6, <1>7, <1>8, <1>9, <1>10 DEF RotationIInv

\* A step of the rewrite alone, which neither saves a secret nor changes the keys.
LEMMA RewriteSteps ==
  ASSUME RotationIInv, rewrite' \in RewriteRow, rewrites' \in 0..MaxRewrites, UNCHANGED <<secret, keys, saves, lastSaved>>,
         \A w \in rewrite'.wrote : w.kept.value = secret[w.id].value,
         \A record \in rewrite'.page : record.kept = NoSecret => OpensWithNew(secret[record.id]),
         Sweeps'
  PROVE  RotationIInv'
<1> USE DEF RotationIInv
<1>1. RotationTypeOK'  BY DEF RotationTypeOK, RewriteRow
<1>2. RotationShape'  BY DEF RotationShape, RewriteRow, PageRow, WrittenRow, Secret
<1>3. NewestSecretStays'  BY DEF NewestSecretStays
<1>4. WritesNewest' /\ EmptyOrSaved'  BY DEF WritesNewest, EmptyOrSaved, OpensWithNew, NoSecret
<1> QED  BY <1>1, <1>2, <1>3, <1>4

LEMMA RestingRow == Resting \in RewriteRow /\ Resting.at = "idle" /\ Resting.last = 0 /\ Resting.page = {} /\ Resting.wrote = {}
<1>1. {} \in SUBSET PageRow /\ {} \in SUBSET WrittenRow  OBVIOUS
<1> QED  BY <1>1 DEF Resting, RewriteRow

\* The rewrite goes back to rest, while both keys are there.
LEMMA RestKeeps ==
  ASSUME RotationIInv, rewrite' = Resting, rewrite.at # "done", UNCHANGED <<secret, keys, rewrites, saves, lastSaved>>
  PROVE  RotationIInv'
<1>1. Sweeps'  BY RestingRow DEF RotationIInv, Sweeps
<1>2. rewrites' \in 0..MaxRewrites  BY DEF RotationIInv, RotationTypeOK
<1> QED  BY <1>1, <1>2, RestingRow, RewriteSteps

LEMMA StartKeeps == ASSUME RotationIInv, RewriteStarts PROVE RotationIInv'
<1> DEFINE new == [Resting EXCEPT !.at = "page"]
<1>1. new \in RewriteRow /\ new.at = "page" /\ new.last = 0 /\ new.page = {} /\ new.wrote = {}  BY RestingRow DEF RewriteRow
<1>2. rewrite' = new /\ UNCHANGED <<secret, keys, saves, lastSaved>> /\ Len(keys) = 2  BY DEF RewriteStarts
<1> HIDE DEF new
<1>3. rewrites' \in 0..MaxRewrites  BY RotationAssumption DEF RewriteStarts, RotationIInv, RotationTypeOK
<1>4. \A i \in SecretRow : ~(i <= 0)  BY RotationAssumption
<1>5. Sweeps'  BY <1>1, <1>2, <1>4 DEF Sweeps
<1> QED  BY <1>1, <1>2, <1>3, <1>5, RewriteSteps

LEMMA RowIds == \A i \in SecretRow : i \in Nat /\ i # 0
<1>1. SecretRow \subseteq Nat \ {0}  BY RotationAssumption
<1> QED  BY <1>1

\* A page that comes back empty has nothing behind it, and one that does not leaves no row between the last id and its own.
LEMMA PageKeeps == ASSUME RotationIInv, ReadsPage PROVE RotationIInv'
<1> DEFINE ids == {i \in Beyond : Cardinality({j \in Beyond : j <= i}) <= BATCH_SIZE}
           closing == [rewrite EXCEPT !.at = "commit"]
           page == {[id |-> i, kept |-> secret[i]] : i \in ids}
           reading == [rewrite EXCEPT !.at = "row", !.page = page, !.last = Max(ids)]
<1>1. /\ rewrite \in RewriteRow /\ rewrite.at = "page" /\ rewrite.page = {} /\ Len(keys) # 1
      /\ secret \in [SecretRow -> Secret] /\ rewrites \in 0..MaxRewrites /\ rewrite.last \in Nat
      /\ \A w \in rewrite.wrote : w.kept.value = secret[w.id].value
      /\ \A i \in SecretRow : i <= rewrite.last => PassedOver(i)
  BY DEF RotationIInv, RotationShape, RotationTypeOK, Sweeps, WritesNewest, ReadsPage, RewriteAt, RewriteRow
<1>2. UNCHANGED <<secret, keys, rewrites, saves, lastSaved>>  BY DEF ReadsPage
<1>3. rewrite' = IF ids = {} THEN closing ELSE reading  BY DEF ReadsPage
<1>4. /\ Beyond \subseteq SecretRow /\ \A i \in Beyond : i \in Nat
      /\ \A i \in SecretRow : i \notin Beyond => i <= rewrite.last
  <2>1. \A i \in SecretRow : i \in Nat  BY RowIds
  <2>2. Beyond \subseteq SecretRow  BY DEF Beyond
  <2>3. \A i \in SecretRow : i \notin Beyond => ~(i > rewrite.last)  BY DEF Beyond
  <2>4. \A i \in SecretRow : i \notin Beyond => i <= rewrite.last  BY <1>1, <2>1, <2>3
  <2> QED  BY <2>1, <2>2, <2>4
\* What of the rest is up to an id is finite.
<1>5. \A i \in Beyond : IsFiniteSet({j \in Beyond : j <= i}) /\ Cardinality({j \in Beyond : j <= i}) \in Nat
  <2>1. SUFFICES ASSUME NEW i \in Beyond PROVE IsFiniteSet({j \in Beyond : j <= i})  BY FS_CardinalityType
  <2>2. IsFiniteSet(0..i)  BY <1>4, FS_Interval
  <2>3. \A j \in Beyond : j <= i => j \in 0..i  BY <1>4
  <2>4. {j \in Beyond : j <= i} \subseteq 0..i  BY <2>3
  <2> QED  BY <2>2, <2>4, FS_Subset
<1>6. CASE ids = {}
  <2>1. Beyond = {}
    <3>1. SUFFICES ASSUME Beyond # {} PROVE FALSE  OBVIOUS
    <3>2. PICK i \in Beyond : \A j \in Beyond : i <= j  BY <1>4, <3>1, HasLeast
    <3>3. {j \in Beyond : j <= i} = {i}
      <4>1. \A j \in Beyond : j <= i <=> j = i  BY <1>4, <3>2
      <4> QED  BY <3>2, <4>1
    <3>4. Cardinality({j \in Beyond : j <= i}) = 1  BY <3>3, FS_Singleton
    <3>5. i \in ids  BY <3>4, RotationAssumption
    <3> QED  BY <1>6, <3>5
  <2>2. closing \in RewriteRow /\ closing.at = "commit" /\ closing.last = rewrite.last /\ closing.page = {} /\ closing.wrote = rewrite.wrote
    BY <1>1 DEF RewriteRow
  <2>3. rewrite' = closing  BY <1>3, <1>6
  <2> HIDE DEF closing
  <2>4. \A i \in SecretRow : i <= rewrite'.last /\ PassedOver(i)'
    BY <1>1, <1>2, <1>4, <2>1, <2>2, <2>3 DEF PassedOver, WrittenBy, OpensWithNew, NoSecret
  <2>5. Sweeps'  BY <1>1, <1>2, <2>2, <2>3, <2>4 DEF Sweeps
  <2> QED  BY <1>1, <1>2, <2>2, <2>3, <2>5, RewriteSteps
<1>7. CASE ids # {}
  <2>1. ids \subseteq Beyond  OBVIOUS
  <2>2. PICK bound \in Nat : \A y \in ids : y <= bound  BY <1>4, <1>7, <2>1, RotationAssumption
  <2>3. Max(ids) \in ids /\ \A y \in ids : y <= Max(ids)  BY <1>4, <1>7, <2>1, <2>2, HasGreatest
  <2> DEFINE top == Max(ids)
  <2>4. top \in Nat /\ top \in Beyond  BY <2>1, <2>3, <1>4
  <2>5. \A i \in Beyond : i <= top => i \in ids
    <3>1. SUFFICES ASSUME NEW i \in Beyond, i <= top PROVE Cardinality({j \in Beyond : j <= i}) <= BATCH_SIZE  OBVIOUS
    <3> DEFINE few == {j \in Beyond : j <= i}
               all == {j \in Beyond : j <= top}
    <3>2. few \subseteq all
      <4>1. \A j \in Beyond : j <= i => j <= top  BY <3>1, <2>4, <1>4
      <4> QED  BY <4>1
    <3>3. IsFiniteSet(all) /\ Cardinality(few) \in Nat /\ Cardinality(all) \in Nat  BY <2>4, <1>5
    <3>4. Cardinality(all) <= BATCH_SIZE  BY <2>3
    <3> HIDE DEF few, all
    <3>5. Cardinality(few) <= Cardinality(all)  BY <3>2, <3>3, FS_Subset
    <3>6. Cardinality(few) <= BATCH_SIZE  BY <3>3, <3>4, <3>5, RotationAssumption
    <3> QED  BY <3>6 DEF few
  <2> HIDE DEF ids, top
  <2>6. page \in SUBSET PageRow
    <3>1. \A i \in ids : i \in SecretRow /\ secret[i] \in Secret  BY <2>1, <1>1, <1>4
    <3> QED  BY <3>1 DEF PageRow
  <2>7. \A record \in page : record.kept = secret[record.id]  OBVIOUS
  <2>8. \A i \in ids : \E record \in page : record.id = i
    <3>1. \A i \in ids : [id |-> i, kept |-> secret[i]] \in page  OBVIOUS
    <3> QED  BY <3>1
  <2>9. page # {}  BY <1>7
  <2> HIDE DEF page
  <2>10. reading \in RewriteRow /\ reading.at = "row" /\ reading.last = top /\ reading.page = page /\ reading.wrote = rewrite.wrote
    BY <1>1, <2>4, <2>6 DEF RewriteRow, top
  <2>11. rewrite' = reading  BY <1>3, <1>7 DEF ids, page
  <2> HIDE DEF reading
  <2>12. ASSUME NEW i \in SecretRow, i <= top PROVE PassedOver(i)' \/ \E record \in page : record.id = i
    <3>1. CASE i \in Beyond  BY <2>5, <2>8, <2>12, <3>1
    <3>2. CASE i \notin Beyond  BY <1>1, <1>2, <1>4, <2>10, <2>11, <3>2 DEF PassedOver, WrittenBy, OpensWithNew, NoSecret
    <3> QED  BY <3>1, <3>2
  <2>13. Sweeps'  BY <1>1, <1>2, <2>9, <2>10, <2>11, <2>12 DEF Sweeps
  <2>14. \A record \in rewrite'.page : record.kept = NoSecret => OpensWithNew(secret[record.id])  BY <2>7, <2>10, <2>11 DEF OpensWithNew
  <2> QED  BY <1>1, <1>2, <2>10, <2>11, <2>13, <2>14, RewriteSteps
<1> QED  BY <1>6, <1>7

\* The rewrite takes the rows of its page in order, and each is passed over or written.
LEMMA RowKeeps == ASSUME RotationIInv, rewrite_row PROVE RotationIInv'
<1>0. PICK record : record = NextRow  OBVIOUS
<1>1. /\ rewrite \in RewriteRow /\ rewrite.at = "row" /\ rewrite.page # {} /\ Len(keys) # 1 /\ keys[1] = "new"
      /\ secret \in [SecretRow -> Secret] /\ rewrites \in 0..MaxRewrites /\ rewrite.last \in Nat /\ rewrite.page \subseteq PageRow /\ rewrite.wrote \subseteq WrittenRow
      /\ \A w \in rewrite.wrote : w.kept.value = secret[w.id].value
      /\ \A other \in rewrite.page : other.kept = NoSecret => OpensWithNew(secret[other.id])
      /\ \A i \in SecretRow : i <= rewrite.last => PassedOver(i) \/ \E other \in rewrite.page : other.id = i
  BY DEF RotationIInv, RotationShape, RotationTypeOK, Sweeps, WritesNewest, EmptyOrSaved, rewrite_row, RewriteAt, RewriteRow
<1>2. UNCHANGED <<secret, keys, rewrites, saves, lastSaved>>  BY DEF rewrite_row
<1>3. record \in rewrite.page
  <2> DEFINE S == {other.id : other \in rewrite.page}
  <2>1. S \in SUBSET Nat /\ S # {}
    <3>1. \A other \in rewrite.page : other.id \in SecretRow  BY <1>1 DEF PageRow
    <3>2. \A other \in rewrite.page : other.id \in Nat  BY <3>1, RowIds
    <3> QED  BY <1>1, <3>2
  <2> HIDE DEF S
  <2>2. PICK least \in S : \A y \in S : least <= y  BY <2>1, HasLeast
  <2>3. \E first \in rewrite.page : \A other \in rewrite.page : first.id <= other.id  BY <2>2 DEF S
  <2> QED  BY <1>0, <2>3 DEF NextRow
<1>4. record.id \in SecretRow /\ record.kept \in Secret /\ record \in PageRow  BY <1>1, <1>3 DEF PageRow
<1>5. ASSUME NEW wrote \in SUBSET WrittenRow, \A w \in wrote : w.id = record.id /\ w.kept.value = secret[w.id].value,
             record.kept = NoSecret \/ wrote # {}, rewrite' = RowDone(wrote)
      PROVE  RotationIInv'
  <2> DEFINE place == IF rewrite.page = {record} THEN "page" ELSE "row"
             new == [rewrite EXCEPT !.page = rewrite.page \ {record}, !.wrote = rewrite.wrote \cup wrote, !.at = place]
  <2>1. rewrite' = new  BY <1>0, <1>5 DEF RowDone
  <2>2. /\ new \in RewriteRow /\ new.at \in {"page", "row"} /\ (new.at = "page" <=> rewrite.page = {record})
        /\ new.last = rewrite.last /\ new.page = rewrite.page \ {record} /\ new.wrote = rewrite.wrote \cup wrote
    <3>1. rewrite.page \ {record} \in SUBSET PageRow /\ rewrite.wrote \cup wrote \in SUBSET WrittenRow /\ place \in {"page", "row"}  BY <1>1
    <3>2. place = "page" <=> rewrite.page = {record}  OBVIOUS
    <3> HIDE DEF place
    <3> QED  BY <1>1, <3>1, <3>2 DEF RewriteRow
  <2> HIDE DEF new
  <2>3. ASSUME NEW i \in SecretRow, i <= rewrite.last PROVE PassedOver(i)' \/ \E other \in rewrite'.page : other.id = i
    <3>1. CASE PassedOver(i)
      <4>1. WrittenBy(i) \subseteq WrittenBy(i)'  BY <2>1, <2>2 DEF WrittenBy
      <4> QED  BY <1>2, <3>1, <4>1 DEF PassedOver, OpensWithNew, NoSecret
    <3>2. CASE i = record.id
      <4>1. CASE record.kept = NoSecret  BY <1>1, <1>2, <1>3, <3>2, <4>1 DEF PassedOver, OpensWithNew, NoSecret
      <4>2. CASE wrote # {}  BY <1>5, <2>1, <2>2, <3>2, <4>2 DEF PassedOver, WrittenBy
      <4> QED  BY <1>5, <4>1, <4>2
    <3>3. CASE ~PassedOver(i) /\ i # record.id
      <4>1. PICK other \in rewrite.page : other.id = i  BY <1>1, <2>3, <3>3
      <4>2. other \in rewrite'.page  BY <2>1, <2>2, <3>3, <4>1
      <4> QED  BY <4>1, <4>2
    <3> QED  BY <3>1, <3>2, <3>3
  <2>4. Sweeps'
    <3>1. rewrite'.at = "page" => rewrite'.page = {}  BY <2>1, <2>2
    <3>2. rewrite'.at = "row" => rewrite'.page # {}  BY <1>1, <2>1, <2>2
    <3>3. rewrite'.at \notin {"commit", "done"} /\ Len(keys') # 1  BY <1>1, <1>2, <2>1, <2>2
    <3>4. rewrite'.last = rewrite.last  BY <2>1, <2>2
    <3> QED  BY <2>3, <3>1, <3>2, <3>3, <3>4 DEF Sweeps
  <2>5. \A w \in rewrite'.wrote : w.kept.value = secret[w.id].value  BY <1>1, <1>5, <2>1, <2>2
  <2>6. \A other \in rewrite'.page : other.kept = NoSecret => OpensWithNew(secret[other.id])  BY <1>1, <2>1, <2>2
  <2> QED  BY <1>1, <1>2, <2>1, <2>2, <2>4, <2>5, <2>6, RewriteSteps
<1>6. CASE record.kept = NoSecret
  <2>1. rewrite' = RowDone({})  BY <1>0, <1>6 DEF rewrite_row
  <2> QED  BY <1>5, <1>6, <2>1
<1>7. CASE rewrite' = Resting  BY <1>1, <1>2, <1>7, RestKeeps
<1>8. CASE record.kept # NoSecret /\ rewrite' # Resting
  <2> DEFINE done == [id |-> record.id, kept |-> encrypt(record.kept.value)]
  <2>1. secret[record.id] = record.kept /\ rewrite' = RowDone({done})  BY <1>0, <1>8 DEF rewrite_row
  <2>2. done \in WrittenRow /\ done.id = record.id /\ done.kept.value = record.kept.value
    BY <1>1, <1>4 DEF WrittenRow, encrypt, Secret
  <2> HIDE DEF done
  <2> QED  BY <1>5, <2>1, <2>2
<1> QED  BY <1>6, <1>7, <1>8

LEMMA DeathKeeps == ASSUME RotationIInv, RewriteDies PROVE RotationIInv'
BY RestKeeps DEF RewriteDies

\* What the rewrite wrote is the newest secret of each row, and every row opens with the new key.
LEMMA CommitKeeps == ASSUME RotationIInv, RewriteCommits PROVE RotationIInv'
<1> DEFINE new == [Resting EXCEPT !.at = "done"]
           kept(i) == (CHOOSE w \in WrittenBy(i) : TRUE).kept
<1>1. /\ rewrite \in RewriteRow /\ rewrite.at = "commit" /\ rewrite.wrote \subseteq WrittenRow
      /\ secret \in [SecretRow -> Secret] /\ lastSaved \in [SecretRow -> 0..MaxSaves]
      /\ \A w \in rewrite.wrote : w.kept.value = secret[w.id].value
      /\ \A i \in SecretRow : PassedOver(i)
  BY DEF RotationIInv, RotationShape, Sweeps, WritesNewest, RewriteCommits, RewriteAt, RewriteRow
<1>2. new \in RewriteRow /\ new.at = "done" /\ new.page = {} /\ new.wrote = {}  BY RestingRow DEF RewriteRow
<1>3. rewrite' = new /\ UNCHANGED <<keys, rewrites, saves, lastSaved>>  BY DEF RewriteCommits
<1> HIDE DEF new
<1>4. secret' = [i \in SecretRow |-> IF WrittenBy(i) # {} THEN kept(i) ELSE secret[i]]  BY DEF RewriteCommits
<1>5. ASSUME NEW i \in SecretRow
      PROVE  secret'[i] \in Secret /\ secret'[i].value = secret[i].value /\ OpensWithNew(secret'[i])
  <2>1. CASE WrittenBy(i) = {}
    <3>1. secret'[i] = secret[i]  BY <1>4, <2>1
    <3> QED  BY <1>1, <2>1, <3>1 DEF PassedOver
  <2>2. CASE WrittenBy(i) # {}
    <3>1. PICK w \in WrittenBy(i) : secret'[i] = w.kept  BY <1>4, <2>2
    <3>2. w \in rewrite.wrote /\ w.id = i  BY <3>1 DEF WrittenBy
    <3>3. w.kept \in [key : {"new"}, value : 0..MaxSaves] /\ w.kept.value = secret[i].value  BY <1>1, <3>2 DEF WrittenRow
    <3> QED  BY <3>1, <3>3 DEF Secret, OpensWithNew
  <2> QED  BY <2>1, <2>2
<1>6. secret' \in [SecretRow -> Secret]  BY <1>4, <1>5
<1>7. RotationTypeOK'  BY <1>2, <1>3, <1>6 DEF RotationIInv, RotationTypeOK, Secret
<1>8. RotationShape'  BY <1>1, <1>2, <1>3, <1>6 DEF RotationShape, RewriteRow, PageRow, WrittenRow, Secret
<1>9. NewestSecretStays'  BY <1>3, <1>5 DEF RotationIInv, NewestSecretStays
<1>10. WritesNewest' /\ EmptyOrSaved'  BY <1>2, <1>3 DEF WritesNewest, EmptyOrSaved
<1>11. Sweeps'  BY <1>2, <1>3, <1>5 DEF Sweeps, OpensWithNew, NoSecret
<1> QED  BY <1>7, <1>8, <1>9, <1>10, <1>11 DEF RotationIInv

\* A secret of the panel is written with the new key, over a row the rewrite has not written.
LEMMA SaveKeeps == ASSUME RotationIInv, NEW i \in SecretRow, PanelSaves(i) PROVE RotationIInv'
<1> DEFINE new == encrypt(saves + 1)
<1>1. /\ rewrite \in RewriteRow /\ secret \in [SecretRow -> Secret] /\ lastSaved \in [SecretRow -> 0..MaxSaves] /\ keys[1] = "new"
      /\ saves \in 0..MaxSaves /\ saves + 1 \in 0..MaxSaves
  BY RotationAssumption DEF RotationIInv, RotationShape, RotationTypeOK, PanelSaves
<1>2. new \in Secret /\ new.value = saves + 1 /\ new.key = "new"  BY <1>1 DEF encrypt, Secret
<1>3. /\ secret' = [secret EXCEPT ![i] = new] /\ lastSaved' = [lastSaved EXCEPT ![i] = saves + 1] /\ saves' = saves + 1
      /\ UNCHANGED <<keys, rewrite, rewrites>> /\ WrittenBy(i) = {}
  BY DEF PanelSaves
<1> HIDE DEF new
<1>4. secret' \in [SecretRow -> Secret] /\ lastSaved' \in [SecretRow -> 0..MaxSaves]  BY <1>1, <1>2, <1>3
<1>5. secret'[i] = new /\ \A j \in SecretRow : j # i => secret'[j] = secret[j]  BY <1>1, <1>3
<1>6. \A j \in SecretRow : OpensWithNew(secret[j]) => OpensWithNew(secret'[j])  BY <1>2, <1>5 DEF OpensWithNew
<1>7. OpensWithNew(secret'[i])  BY <1>2, <1>5 DEF OpensWithNew
<1>8. RotationTypeOK'  BY <1>1, <1>3, <1>4 DEF RotationIInv, RotationTypeOK, Secret
<1>9. RotationShape'  BY <1>1, <1>3, <1>4 DEF RotationShape, RewriteRow, PageRow, WrittenRow, Secret
<1>10. NewestSecretStays'  BY <1>1, <1>2, <1>3, <1>5 DEF RotationIInv, NewestSecretStays
<1>11. WritesNewest'
  <2>1. \A w \in rewrite.wrote : w.id \in SecretRow /\ w.id # i  BY <1>1, <1>3 DEF WrittenBy, RewriteRow, WrittenRow
  <2> QED  BY <2>1, <1>3, <1>5 DEF RotationIInv, WritesNewest
<1>12. EmptyOrSaved'
  <2>1. \A record \in rewrite.page : record.id \in SecretRow  BY <1>1 DEF RewriteRow, PageRow
  <2> QED  BY <2>1, <1>3, <1>6 DEF RotationIInv, EmptyOrSaved, OpensWithNew, NoSecret
<1>13. Sweeps'
  <2>1. \A j \in SecretRow : PassedOver(j) => PassedOver(j)'  BY <1>3, <1>6 DEF PassedOver, WrittenBy, OpensWithNew, NoSecret
  <2> QED  BY <2>1, <1>3, <1>6 DEF RotationIInv, Sweeps, OpensWithNew, NoSecret
<1> QED  BY <1>8, <1>9, <1>10, <1>11, <1>12, <1>13 DEF RotationIInv

LEMMA LeavingKeeps == ASSUME RotationIInv, OldKeyLeaves PROVE RotationIInv'
<1>1. rewrite.at = "done" /\ keys' = <<"new">> /\ UNCHANGED <<secret, rewrite, rewrites, saves, lastSaved>>  BY DEF OldKeyLeaves, RewriteAt
<1>2. RotationTypeOK'  BY <1>1 DEF RotationIInv, RotationTypeOK
<1>3. RotationShape' /\ NewestSecretStays' /\ WritesNewest' /\ EmptyOrSaved'
  BY <1>1 DEF RotationIInv, RotationShape, NewestSecretStays, WritesNewest, EmptyOrSaved, RewriteRow, PageRow, WrittenRow, Secret, OpensWithNew, NoSecret
<1>4. Sweeps'  BY <1>1 DEF RotationIInv, Sweeps, PassedOver, WrittenBy, OpensWithNew, NoSecret
<1> QED  BY <1>2, <1>3, <1>4 DEF RotationIInv

LEMMA RotationGoesOn == RotationIInv /\ [RotationNext]_rotationVars => RotationIInv'
<1>1. SUFFICES ASSUME RotationIInv, [RotationNext]_rotationVars PROVE RotationIInv'  OBVIOUS
<1>2. CASE UNCHANGED rotationVars
  <2>1. UNCHANGED <<secret, keys, rewrite, rewrites, saves, lastSaved>>  BY <1>2 DEF rotationVars
  <2>2. Sweeps'  BY <1>1, <2>1 DEF RotationIInv, Sweeps, PassedOver, WrittenBy, OpensWithNew, NoSecret
  <2> QED  BY <1>1, <2>1, <2>2, RewriteSteps DEF RotationIInv, RotationShape, RotationTypeOK, WritesNewest, EmptyOrSaved
<1>3. CASE RotationNext
  BY <1>1, <1>3, StartKeeps, PageKeeps, RowKeeps, CommitKeeps, DeathKeeps, LeavingKeeps, SaveKeeps DEF RotationNext
<1> QED  BY <1>1, <1>2, <1>3

\* Whatever secrets are stored and however the panel saves others while the rewrite pages over them, dies or starts again: the secret of a row is
\* the newest the panel saved, and once the old key is gone every one still opens.
THEOREM NoSecretIsLost == RotationSpec => []RotationInv
<1>1. RotationIInv => RotationInv
  <2>1. SUFFICES ASSUME RotationIInv PROVE EverySecretOpens  BY DEF RotationIInv, RotationInv
  <2>2. SUFFICES ASSUME Len(keys) = 1, NEW i \in SecretRow PROVE secret[i] = NoSecret \/ Readable(secret[i])  BY DEF EverySecretOpens
  <2>3. keys = <<"new">> /\ OpensWithNew(secret[i])  BY <2>1, <2>2 DEF RotationIInv, RotationTypeOK, Sweeps
  <2> QED  BY <2>3 DEF OpensWithNew, Readable
<1> QED  BY <1>1, RotationBegins, RotationGoesOn, PTL DEF RotationSpec

-----------------------------------------------------------------------------
(* What a browser carries for this site, and what it is counted by.        *)

Preference == {"none", "session", "lasting"}
ConsentAnswer == [version : Nat, allowed : SUBSET ConsentCategory]
FormRow == [writes : SUBSET {"answer", "name", "preference"}, answer : ConsentAnswer, name : Nat, preference : Preference]
ViewRow == [at : {"new", "look", "write", "done"}, name : Nat, day : Nat]
ImpressionRow == [name : Nat, day : Nat]

VisitorsShape ==
  /\ version \in 1..MaxVersions /\ today \in 1..MaxDays /\ minted \in Nat /\ visitorName \in 0..minted
  /\ answer \in ConsentAnswer /\ answer.version <= version /\ preference \in Preference
  /\ view \in [View -> ViewRow]

\* The form in flight writes an answer together with what that answer allows, or a preference under the answer the browser still carries.
FormAllowed ==
  form # NoForm =>
    /\ form \in FormRow /\ form.name <= minted /\ form.answer.version <= version
    /\ form.writes = {"answer", "name", "preference"} =>
         /\ form.name # 0 => "analytics" \in form.answer.allowed
         /\ form.preference = "lasting" => "preferences" \in form.answer.allowed
    /\ form.writes # {"answer", "name", "preference"} =>
         form.writes = {"preference"} /\ (form.preference = "lasting" => "preferences" \in answer.allowed)

\* The rows, kept and dropped, are finitely many, and what was dropped is of days no view in flight is counted under.
CountedRows ==
  /\ impressions \subseteq ImpressionRow /\ dropped \subseteq ImpressionRow
  /\ IsFiniteSet(impressions) /\ IsFiniteSet(dropped)
  /\ \A d \in dropped : d.day < today /\ \A v \in View : view[v].at \in {"look", "write"} => d.day < view[v].day

VisitorsIInv == VisitorsShape /\ FormAllowed /\ CarriedIsAllowed /\ CountedRows /\ TotalIsExplained

LEMMA VisitorsBegin == VisitorsInit => VisitorsIInv
<1>1. SUFFICES ASSUME VisitorsInit PROVE VisitorsIInv  OBVIOUS
<1>2. NoConsent \in ConsentAnswer /\ NoConsent.version = 0  BY DEF NoConsent, ConsentAnswer
<1>3. [at |-> "new", name |-> 0, day |-> 0] \in ViewRow  BY DEF ViewRow
<1>4. VisitorsShape  BY <1>1, <1>2, <1>3, VisitorsAssumption DEF VisitorsInit, VisitorsShape, Preference
<1>5. FormAllowed /\ CarriedIsAllowed  BY <1>1 DEF VisitorsInit, FormAllowed, CarriedIsAllowed
<1>6. CountedRows  BY <1>1, FS_EmptySet DEF VisitorsInit, CountedRows
<1>7. TotalIsExplained
  <2>1. impressions \cup dropped = {} /\ total = 0  BY <1>1 DEF VisitorsInit
  <2> QED  BY <2>1, FS_EmptySet DEF TotalIsExplained
<1> QED  BY <1>4, <1>5, <1>6, <1>7 DEF VisitorsIInv

\* A step of the forms leaves the counting alone.
LEMMA CountingStays ==
  ASSUME CountedRows, TotalIsExplained, UNCHANGED <<view, today, impressions, total, dropped>>
  PROVE  CountedRows' /\ TotalIsExplained'
BY DEF CountedRows, TotalIsExplained

\* A step of the counting leaves what the browser carries alone.
LEMMA CarryingStays ==
  ASSUME VisitorsIInv, UNCHANGED <<version, answer, visitorName, preference, minted, form, forms>>,
         today' \in 1..MaxDays, view' \in [View -> ViewRow]
  PROVE  VisitorsShape' /\ FormAllowed' /\ CarriedIsAllowed'
BY DEF VisitorsIInv, VisitorsShape, FormAllowed, CarriedIsAllowed, NoForm, NoConsent

LEMMA SettlingCookies == ASSUME VisitorsIInv, NEW allowed \in SUBSET ConsentCategory, settle_cookies(allowed) PROVE VisitorsIInv'
<1> USE DEF VisitorsIInv
<1> DEFINE carried == IF visitorName # 0 THEN visitorName ELSE minted + 1
           name == IF "analytics" \in allowed THEN carried ELSE 0
           kept == IF preference = "none" THEN "none" ELSE remember_preference(allowed)
           said == [version |-> version, allowed |-> allowed]
           posted == [writes |-> {"answer", "name", "preference"}, answer |-> said, name |-> name, preference |-> kept]
<1>1. /\ form' = posted /\ minted' = IF "analytics" \in allowed /\ visitorName = 0 THEN minted + 1 ELSE minted
      /\ UNCHANGED <<version, answer, visitorName, preference, view, today, impressions, total, dropped>>
  BY DEF settle_cookies, Posts
<1>2. minted \in Nat /\ visitorName \in 0..minted /\ version \in Nat /\ minted' \in Nat /\ minted <= minted'  BY <1>1, VisitorsAssumption DEF VisitorsShape
<1>3. name \in Nat /\ name <= minted' /\ (name # 0 => "analytics" \in allowed)  BY <1>1, <1>2
<1>4. kept \in Preference /\ (kept = "lasting" => "preferences" \in allowed)  BY DEF remember_preference, Preference
<1>5. said \in ConsentAnswer /\ said.version = version /\ said.allowed = allowed  BY <1>2 DEF ConsentAnswer
<1> HIDE DEF name, kept, said
<1>6. posted \in FormRow /\ posted.writes = {"answer", "name", "preference"} /\ posted.answer = said /\ posted.name = name /\ posted.preference = kept
  BY <1>3, <1>4, <1>5 DEF FormRow
<1> HIDE DEF posted
<1>7. version \in Nat  BY <1>2
<1>8. FormAllowed'  BY <1>1, <1>3, <1>4, <1>5, <1>6, <1>7 DEF FormAllowed
<1>9. VisitorsShape'  BY <1>1, <1>2 DEF VisitorsShape
<1>10. CarriedIsAllowed'  BY <1>1 DEF CarriedIsAllowed, NoConsent
<1> QED  BY <1>1, <1>8, <1>9, <1>10, CountingStays

LEMMA ChoosingLanguage == ASSUME VisitorsIInv, choose_language PROVE VisitorsIInv'
<1> USE DEF VisitorsIInv
<1> DEFINE life == remember_preference(given)
           posted == [writes |-> {"preference"}, answer |-> answer, name |-> visitorName, preference |-> life]
<1>1. form' = posted /\ UNCHANGED <<version, answer, visitorName, preference, minted, view, today, impressions, total, dropped>>
  BY DEF choose_language, Posts
<1>2. life \in Preference /\ (life = "lasting" => "preferences" \in answer.allowed)  BY DEF remember_preference, Preference, given
<1>3. answer \in ConsentAnswer /\ answer.version <= version /\ visitorName \in Nat /\ visitorName <= minted  BY DEF VisitorsShape
<1> HIDE DEF life
<1>4. posted \in FormRow /\ posted.writes = {"preference"} /\ posted.answer = answer /\ posted.name = visitorName /\ posted.preference = life
  BY <1>2, <1>3 DEF FormRow
<1>5. {"preference"} # {"answer", "name", "preference"}
  <2>1. "answer" \notin {"preference"}  OBVIOUS
  <2> QED  BY <2>1
<1> HIDE DEF posted
<1>6. FormAllowed'  BY <1>1, <1>2, <1>3, <1>4, <1>5 DEF FormAllowed
<1>7. VisitorsShape' /\ CarriedIsAllowed'  BY <1>1 DEF VisitorsShape, CarriedIsAllowed, NoConsent
<1> QED  BY <1>1, <1>6, <1>7, CountingStays

\* What a form writes is what its own answer allows, or what the answer of that moment allowed, which nothing replaced since.
LEMMA FormLands == ASSUME VisitorsIInv, FormArrives PROVE VisitorsIInv'
<1> USE DEF VisitorsIInv
<1>1. /\ form # NoForm /\ form \in FormRow /\ form.name <= minted /\ form.answer.version <= version
      /\ form' = NoForm /\ UNCHANGED <<version, minted, forms, view, today, impressions, total, dropped>>
  BY DEF FormArrives, FormAllowed
<1>2. FormAllowed'  BY <1>1 DEF FormAllowed, NoForm
<1>3. CASE form.writes = {"answer", "name", "preference"}
  <2>1. answer' = form.answer /\ visitorName' = form.name /\ preference' = form.preference  BY <1>3 DEF FormArrives
  <2>2. VisitorsShape'  BY <1>1, <2>1 DEF VisitorsShape, FormRow
  <2>3. CarriedIsAllowed'  BY <1>1, <1>3, <2>1 DEF CarriedIsAllowed, FormAllowed
  <2> QED  BY <1>1, <1>2, <2>2, <2>3, CountingStays
<1>4. CASE form.writes # {"answer", "name", "preference"}
  <2>1. form.writes = {"preference"} /\ (form.preference = "lasting" => "preferences" \in answer.allowed)  BY <1>1, <1>4 DEF FormAllowed
  <2>2. answer' = answer /\ visitorName' = visitorName /\ preference' = form.preference  BY <2>1 DEF FormArrives
  <2>3. VisitorsShape'  BY <1>1, <2>2 DEF VisitorsShape, FormRow
  <2>4. CarriedIsAllowed'  BY <2>1, <2>2 DEF CarriedIsAllowed
  <2> QED  BY <1>1, <1>2, <2>3, <2>4, CountingStays
<1> QED  BY <1>3, <1>4

LEMMA AnswerGoes == ASSUME VisitorsIInv, AnswerExpires PROVE VisitorsIInv'
<1> USE DEF VisitorsIInv
<1>1. form = NoForm /\ answer' = NoConsent /\ visitorName' = 0 /\ UNCHANGED <<version, preference, minted, form, forms, view, today, impressions, total, dropped>>
  BY DEF AnswerExpires
<1>2. NoConsent \in ConsentAnswer /\ NoConsent.version = 0  BY DEF NoConsent, ConsentAnswer
<1>3. VisitorsShape'  BY <1>1, <1>2 DEF VisitorsShape
<1>4. FormAllowed'  BY <1>1 DEF FormAllowed, NoForm
<1>5. CarriedIsAllowed'  BY <1>1 DEF CarriedIsAllowed, NoConsent
<1> QED  BY <1>1, <1>3, <1>4, <1>5, CountingStays

LEMMA QuestionMoves == ASSUME VisitorsIInv, QuestionChanges PROVE VisitorsIInv'
<1> USE DEF VisitorsIInv
<1>1. version' = version + 1 /\ version < MaxVersions /\ UNCHANGED <<answer, visitorName, preference, minted, form, forms, view, today, impressions, total, dropped>>
  BY DEF QuestionChanges
<1>2. version \in Nat /\ version' \in 1..MaxVersions  BY <1>1, VisitorsAssumption DEF VisitorsShape
<1>3. VisitorsShape'  BY <1>1, <1>2 DEF VisitorsShape, ConsentAnswer
<1>4. FormAllowed'
  <2>1. form # NoForm => form.answer.version \in Nat  BY DEF FormAllowed, FormRow, ConsentAnswer
  <2> QED  BY <1>1, <1>2, <2>1 DEF FormAllowed, NoForm
<1>5. CarriedIsAllowed'  BY <1>1 DEF CarriedIsAllowed, NoConsent
<1> QED  BY <1>1, <1>3, <1>4, <1>5, CountingStays

\* A step of one view that leaves the rows alone keeps what is counted, as long as a view still counted is of a day later than what was dropped.
LEMMA LookingStays ==
  ASSUME VisitorsIInv, UNCHANGED <<version, answer, visitorName, preference, minted, form, forms, today, impressions, total, dropped>>,
         NEW v \in View, NEW record \in ViewRow, view' = [view EXCEPT ![v] = record],
         record.at \in {"look", "write"} => record.day = today \/ (view[v].at \in {"look", "write"} /\ record.day = view[v].day)
  PROVE  VisitorsIInv'
<1> USE DEF VisitorsIInv
<1>1. view \in [View -> ViewRow] /\ today \in 1..MaxDays  BY DEF VisitorsShape
<1>2. view' \in [View -> ViewRow] /\ view'[v] = record /\ \A w \in View : w # v => view'[w] = view[w]  BY <1>1
<1>3. VisitorsShape' /\ FormAllowed' /\ CarriedIsAllowed'  BY <1>1, <1>2, CarryingStays
<1>4. CountedRows'
  <2>1. SUFFICES ASSUME NEW d \in dropped PROVE d.day < today /\ \A w \in View : view'[w].at \in {"look", "write"} => d.day < view'[w].day
    BY <1>1 DEF CountedRows
  <2>2. d.day < today /\ \A w \in View : view[w].at \in {"look", "write"} => d.day < view[w].day  BY <2>1 DEF CountedRows
  <2>3. ASSUME NEW w \in View, view'[w].at \in {"look", "write"} PROVE d.day < view'[w].day
    <3>1. CASE w # v  BY <1>2, <2>2, <2>3, <3>1
    <3>2. CASE w = v  BY <1>2, <2>2, <2>3, <3>2
    <3> QED  BY <3>1, <3>2
  <2> QED  BY <2>2, <2>3
<1>5. TotalIsExplained'  BY DEF TotalIsExplained
<1> QED  BY <1>3, <1>4, <1>5

LEMMA SettlingCount == ASSUME VisitorsIInv, NEW v \in View, settle_count(v) PROVE VisitorsIInv'
<1> DEFINE record == IF counted = 0 THEN [at |-> "done", name |-> 0, day |-> 0] ELSE [at |-> "look", name |-> counted, day |-> today]
<1>1. view' = [view EXCEPT ![v] = record] /\ UNCHANGED <<version, answer, visitorName, preference, minted, form, forms, today, impressions, total, dropped>>
  BY DEF settle_count
<1>2. counted \in Nat /\ today \in Nat  BY VisitorsAssumption DEF VisitorsIInv, VisitorsShape, counted
<1>3. record \in ViewRow /\ (record.at \in {"look", "write"} => record.day = today)  BY <1>2 DEF ViewRow
<1> HIDE DEF record
<1> QED  BY <1>1, <1>3, LookingStays

LEMMA Looking == ASSUME VisitorsIInv, NEW v \in View, CountLooks(v) PROVE VisitorsIInv'
<1> DEFINE record == [view[v] EXCEPT !.at = IF Impression(v) \in impressions THEN "done" ELSE "write"]
<1>1. /\ view[v].at = "look" /\ view' = [view EXCEPT ![v] = record]
      /\ UNCHANGED <<version, answer, visitorName, preference, minted, form, forms, today, impressions, total, dropped>>
  BY DEF CountLooks, ViewAt
<1>2. view[v] \in ViewRow  BY DEF VisitorsIInv, VisitorsShape
<1>3. record \in ViewRow /\ record.day = view[v].day  BY <1>2 DEF ViewRow
<1> HIDE DEF record
<1> QED  BY <1>1, <1>3, LookingStays

LEMMA CountingFails == ASSUME VisitorsIInv, NEW v \in View, CountFails(v) PROVE VisitorsIInv'
<1> DEFINE record == [view[v] EXCEPT !.at = "done"]
<1>1. view' = [view EXCEPT ![v] = record] /\ UNCHANGED <<version, answer, visitorName, preference, minted, form, forms, today, impressions, total, dropped>>
  BY DEF CountFails
<1>2. view[v] \in ViewRow  BY DEF VisitorsIInv, VisitorsShape
<1>3. record \in ViewRow /\ record.at = "done"  BY <1>2 DEF ViewRow
<1> HIDE DEF record
<1> QED  BY <1>1, <1>3, LookingStays

\* A row is written once: whoever finds it there raises no total, and no row of a day still counted was dropped.
LEMMA CountingWrites == ASSUME VisitorsIInv, NEW v \in View, CountWrites(v) PROVE VisitorsIInv'
<1> USE DEF VisitorsIInv
<1> DEFINE record == [view[v] EXCEPT !.at = "done"]
<1>1. /\ view[v].at = "write" /\ view' = [view EXCEPT ![v] = record] /\ impressions' = impressions \cup {Impression(v)}
      /\ total' = IF Impression(v) \in impressions THEN total ELSE total + 1
      /\ UNCHANGED <<version, answer, visitorName, preference, minted, form, forms, today, dropped>>
  BY DEF CountWrites, ViewAt
<1>2. view \in [View -> ViewRow] /\ view[v] \in ViewRow /\ today \in 1..MaxDays  BY DEF VisitorsShape
<1>3. record \in ViewRow /\ record.at = "done"  BY <1>2 DEF ViewRow
<1>4. Impression(v) \in ImpressionRow /\ Impression(v).day = view[v].day  BY <1>2 DEF Impression, ImpressionRow, ViewRow
<1> HIDE DEF record
<1>5. view' \in [View -> ViewRow] /\ view'[v] = record /\ \A w \in View : w # v => view'[w] = view[w]  BY <1>1, <1>2, <1>3
<1>6. VisitorsShape' /\ FormAllowed' /\ CarriedIsAllowed'  BY <1>1, <1>2, <1>5, CarryingStays
<1>7. IsFiniteSet(impressions) /\ IsFiniteSet(dropped) /\ IsFiniteSet(impressions')  BY <1>1, FS_AddElement DEF CountedRows
<1>8. CountedRows'
  <2>1. impressions' \subseteq ImpressionRow  BY <1>1, <1>4 DEF CountedRows
  <2>2. ASSUME NEW d \in dropped, NEW w \in View, view'[w].at \in {"look", "write"} PROVE d.day < view'[w].day
    <3>1. w # v  BY <1>3, <1>5, <2>2
    <3> QED  BY <1>5, <2>2, <3>1 DEF CountedRows
  <2> QED  BY <1>1, <1>7, <2>1, <2>2 DEF CountedRows
<1>9. TotalIsExplained'
  <2>1. IsFiniteSet(impressions \cup dropped) /\ total = Cardinality(impressions \cup dropped)  BY <1>7, FS_Union DEF TotalIsExplained
  <2>2. CASE Impression(v) \in impressions
    <3>1. impressions' \cup dropped' = impressions \cup dropped /\ total' = total  BY <1>1, <2>2
    <3> QED  BY <2>1, <3>1 DEF TotalIsExplained
  <2>3. CASE Impression(v) \notin impressions
    <3>1. Impression(v) \notin dropped
      <4>1. SUFFICES ASSUME Impression(v) \in dropped PROVE FALSE  OBVIOUS
      <4>2. Impression(v).day < view[v].day  BY <1>1, <4>1 DEF CountedRows
      <4>3. view[v].day \in Nat  BY <1>2 DEF ViewRow
      <4> QED  BY <1>4, <4>2, <4>3
    <3>2. impressions' \cup dropped' = (impressions \cup dropped) \cup {Impression(v)} /\ total' = total + 1  BY <1>1, <2>3
    <3>3. Cardinality((impressions \cup dropped) \cup {Impression(v)}) = Cardinality(impressions \cup dropped) + 1
      BY <2>1, <2>3, <3>1, FS_AddElement
    <3> QED  BY <2>1, <3>2, <3>3 DEF TotalIsExplained
  <2> QED  BY <2>2, <2>3
<1> QED  BY <1>6, <1>8, <1>9

LEMMA Trimming == ASSUME VisitorsIInv, TrimsImpressions PROVE VisitorsIInv'
<1> USE DEF VisitorsIInv
<1> DEFINE old == {i \in impressions : i.day < today}
<1>1. /\ \A v \in View : view[v].at \in {"look", "write"} => view[v].day = today
      /\ impressions' = impressions \ old /\ dropped' = dropped \cup old
      /\ UNCHANGED <<version, answer, visitorName, preference, minted, form, forms, view, today, total>>
  BY DEF TrimsImpressions
<1>2. VisitorsShape' /\ FormAllowed' /\ CarriedIsAllowed'
  <2>1. view \in [View -> ViewRow] /\ today \in 1..MaxDays  BY DEF VisitorsShape
  <2> QED  BY <1>1, <2>1, CarryingStays
<1>3. IsFiniteSet(impressions) /\ IsFiniteSet(dropped) /\ IsFiniteSet(old) /\ IsFiniteSet(impressions \ old)  BY FS_Subset DEF CountedRows
<1>4. IsFiniteSet(dropped \cup old)  BY <1>3, FS_Union
<1>5. impressions' \cup dropped' = impressions \cup dropped  BY <1>1
<1>6. \A d \in dropped' : d.day < today  BY <1>1 DEF CountedRows
<1>7. CountedRows'
  <2>1. impressions' \subseteq ImpressionRow /\ dropped' \subseteq ImpressionRow  BY <1>1 DEF CountedRows
  <2>2. ASSUME NEW d \in dropped', NEW v \in View, view[v].at \in {"look", "write"} PROVE d.day < view[v].day
    BY <1>1, <1>6, <2>2
  <2> QED  BY <1>1, <1>3, <1>4, <1>6, <2>1, <2>2 DEF CountedRows
<1>8. TotalIsExplained'  BY <1>1, <1>5 DEF TotalIsExplained
<1> QED  BY <1>2, <1>7, <1>8

LEMMA DayGoesBy == ASSUME VisitorsIInv, DayPasses PROVE VisitorsIInv'
<1> USE DEF VisitorsIInv
<1>1. today' = today + 1 /\ today < MaxDays /\ UNCHANGED <<version, answer, visitorName, preference, minted, form, forms, view, impressions, total, dropped>>
  BY DEF DayPasses
<1>2. today \in Nat /\ today' \in 1..MaxDays /\ view \in [View -> ViewRow]  BY <1>1, VisitorsAssumption DEF VisitorsShape
<1>3. VisitorsShape' /\ FormAllowed' /\ CarriedIsAllowed'  BY <1>1, <1>2, CarryingStays
<1>4. CountedRows'
  <2>1. ASSUME NEW d \in dropped PROVE d.day < today'
    <3>1. d.day \in Nat /\ d.day < today  BY DEF CountedRows, ImpressionRow
    <3> QED  BY <1>1, <1>2, <3>1
  <2> QED  BY <1>1, <2>1 DEF CountedRows
<1>5. TotalIsExplained'  BY <1>1 DEF TotalIsExplained
<1> QED  BY <1>3, <1>4, <1>5

LEMMA VisitorsGoOn == VisitorsIInv /\ [VisitorsNext]_visitorVars => VisitorsIInv'
<1>1. SUFFICES ASSUME VisitorsIInv, [VisitorsNext]_visitorVars PROVE VisitorsIInv'  OBVIOUS
<1>2. CASE UNCHANGED visitorVars
  <2>1. UNCHANGED <<view, today, impressions, total, dropped, version, answer, visitorName, preference, minted, form, forms>>  BY <1>2 DEF visitorVars
  <2>2. view \in [View -> ViewRow] /\ today \in 1..MaxDays  BY <1>1 DEF VisitorsIInv, VisitorsShape
  <2>3. VisitorsShape' /\ FormAllowed' /\ CarriedIsAllowed'  BY <1>1, <2>1, <2>2, CarryingStays
  <2> QED  BY <1>1, <2>1, <2>3, CountingStays DEF VisitorsIInv
<1>3. CASE \E allowed \in SUBSET ConsentCategory : settle_cookies(allowed)  BY <1>1, <1>3, SettlingCookies
<1>4. CASE choose_language  BY <1>1, <1>4, ChoosingLanguage
<1>5. CASE FormArrives  BY <1>1, <1>5, FormLands
<1>6. CASE AnswerExpires  BY <1>1, <1>6, AnswerGoes
<1>7. CASE QuestionChanges  BY <1>1, <1>7, QuestionMoves
<1>8. CASE \E v \in View : settle_count(v) \/ CountLooks(v) \/ CountWrites(v) \/ CountFails(v)
  BY <1>1, <1>8, SettlingCount, Looking, CountingWrites, CountingFails
<1>9. CASE TrimsImpressions  BY <1>1, <1>9, Trimming
<1>10. CASE DayPasses  BY <1>1, <1>10, DayGoesBy
<1> QED  BY <1>1, <1>2, <1>3, <1>4, <1>5, <1>6, <1>7, <1>8, <1>9, <1>10 DEF VisitorsNext

\* Whatever order forms, answers and views arrive in, a browser carries no more than its own answer allows, and a banner counts each reader once a day, the rows the retention dropped included.
THEOREM CountedOnceADay == VisitorsSpec => []VisitorsInv
<1>1. VisitorsIInv => VisitorsInv
  <2>1. SUFFICES ASSUME VisitorsIInv PROVE VisitorsTypeOK  BY DEF VisitorsIInv, VisitorsInv
  <2>2. version \in 1..MaxVersions /\ version \in Nat /\ answer \in ConsentAnswer /\ answer.version <= version /\ view \in [View -> ViewRow]
    BY <2>1, VisitorsAssumption DEF VisitorsIInv, VisitorsShape
  <2>3. answer.version \in 0..version /\ answer.allowed \subseteq ConsentCategory  BY <2>2 DEF ConsentAnswer
  <2>4. \A v \in View : view[v].at \in {"new", "look", "write", "done"}  BY <2>2 DEF ViewRow
  <2> QED  BY <2>1, <2>3, <2>4 DEF VisitorsIInv, VisitorsShape, VisitorsTypeOK, Preference
<1> QED  BY <1>1, VisitorsBegin, VisitorsGoOn, PTL DEF VisitorsSpec

-----------------------------------------------------------------------------
(* Letters to an address of the newsletter.                                *)

HourOf == {Never} \cup 0 .. MaxHours
SubscriptionRow == [status : NewsletterStatus, invited_at : HourOf]
SubmitState == [at : {"look", "insert", "decide", "claim", "queue", "done", "dead"}, status : NewsletterStatus, claimed : HourOf]
AnswerState == [at : {"read", "settle", "done"}, wants : NewsletterStatus]

NewsletterShape ==
  /\ subscription = NoSubscription \/ subscription \in SubscriptionRow
  /\ submit \in [Submit -> SubmitState]
  /\ click \in [AddressClick -> AnswerState]
  /\ hour \in 0 .. MaxHours /\ submitDeaths \in 0 .. MaxSubmitDeaths
  /\ letters \in [0 .. MaxHours -> Nat]

\* The row stands before a submit that found it goes on, before a letter, and before an answer to one.
RowStands ==
  \/ subscription \in SubscriptionRow
  \/ /\ \A s \in Submit : submit[s].at \notin {"decide", "claim", "queue"}
     /\ \A h \in 0 .. MaxHours : letters[h] = 0
     /\ \A c \in AddressClick : click[c].at # "settle"

\* No letter was queued or claimed for an hour after the one the row was last claimed in, nor is one to come after that hour.
ClaimedInOrder ==
  /\ \A h \in 0 .. MaxHours : letters[h] > 0 => h <= subscription.invited_at
  /\ \A s \in Submit : SubmitAt(s, "queue") => submit[s].claimed \in 0 .. MaxHours /\ submit[s].claimed <= subscription.invited_at

\* Who claimed an hour is the only one, and its letter is the first of that hour.
FirstOfItsHour ==
  /\ \A s \in Submit : SubmitAt(s, "queue") => letters[submit[s].claimed] = 0
  /\ \A s, t \in Submit : SubmitAt(s, "queue") /\ SubmitAt(t, "queue") /\ submit[s].claimed = submit[t].claimed => s = t

NewsletterIInv == NewsletterShape /\ RowStands /\ ClaimedInOrder /\ FirstOfItsHour /\ OneLetterAnHour

NewsletterClaims == ClaimedInOrder /\ FirstOfItsHour /\ OneLetterAnHour

-----------------------------------------------------------------------------
\* A submit moves, and no other.
SubmitMoves(s) ==
  /\ submit' \in [Submit -> SubmitState]
  /\ \A t \in Submit : t # s => submit'[t] = submit[t]

LEMMA SubmitWrite ==
  ASSUME NewsletterShape, NEW s \in Submit, NEW new \in SubmitState, submit' = [submit EXCEPT ![s] = new]
  PROVE  SubmitMoves(s) /\ submit'[s] = new
BY DEF NewsletterShape, SubmitMoves

LEMMA SubmitGoesOn ==
  ASSUME NewsletterShape, NEW s \in Submit, NEW at \in {"look", "insert", "decide", "claim", "queue", "done", "dead"}, SubmitGoes(s, at)
  PROVE  SubmitMoves(s) /\ submit'[s].at = at /\ submit'[s].claimed = submit[s].claimed
<1> DEFINE new == [submit[s] EXCEPT !.at = at]
<1>1. submit[s] \in SubmitState
  BY DEF NewsletterShape
<1>2. new \in SubmitState /\ new.at = at /\ new.claimed = submit[s].claimed
  BY <1>1 DEF SubmitState
<1>3. submit' = [submit EXCEPT ![s] = new]
  BY DEF SubmitGoes
<1> QED
  BY <1>2, <1>3, SubmitWrite

\* A step that queues and claims nothing leaves what was claimed and queued.
LEMMA NothingClaimed ==
  ASSUME NewsletterIInv, NEW s \in Submit, SubmitMoves(s), submit'[s].at # "queue", letters' = letters,
         subscription'.invited_at = subscription.invited_at
  PROVE  NewsletterClaims'
BY DEF NewsletterIInv, NewsletterClaims, SubmitMoves, ClaimedInOrder, FirstOfItsHour, OneLetterAnHour, SubmitAt

-----------------------------------------------------------------------------
\* insert_or_read finds the row, or goes on to insert it.
LEMMA LooksKeeps ==
  ASSUME NewsletterIInv, NEW s \in Submit, SubscribeLooks(s)
  PROVE  NewsletterIInv'
<1>1. NewsletterShape /\ submit[s] \in SubmitState /\ UNCHANGED <<subscription, click, hour, letters, submitDeaths>>
  BY DEF NewsletterIInv, NewsletterShape, SubscribeLooks
<1>2. CASE subscription = NoSubscription
  <2> DEFINE new == [submit[s] EXCEPT !.at = "insert"]
  <2>1. new \in SubmitState /\ new.at = "insert"
    BY <1>1 DEF SubmitState
  <2>2. submit' = [submit EXCEPT ![s] = new]
    BY <1>2 DEF SubscribeLooks
  <2>3. SubmitMoves(s) /\ submit'[s].at = "insert"
    BY <1>1, <2>1, <2>2, SubmitWrite
  <2>4. NewsletterClaims'
    BY <1>1, <2>3, NothingClaimed
  <2> QED
    BY <1>1, <2>3, <2>4 DEF NewsletterIInv, NewsletterClaims, NewsletterShape, RowStands, SubmitMoves
<1>3. CASE subscription # NoSubscription
  <2> DEFINE new == [submit[s] EXCEPT !.at = "decide", !.status = subscription.status]
  <2>1. subscription \in SubscriptionRow
    BY <1>1, <1>3 DEF NewsletterShape
  <2>2. new \in SubmitState /\ new.at = "decide"
    BY <1>1, <2>1 DEF SubmitState, SubscriptionRow
  <2>3. submit' = [submit EXCEPT ![s] = new]
    BY <1>3 DEF SubscribeLooks
  <2>4. SubmitMoves(s) /\ submit'[s].at = "decide"
    BY <1>1, <2>2, <2>3, SubmitWrite
  <2>5. NewsletterClaims'
    BY <1>1, <2>4, NothingClaimed
  <2> QED
    BY <1>1, <2>1, <2>4, <2>5 DEF NewsletterIInv, NewsletterClaims, NewsletterShape, RowStands, SubmitMoves
<1> QED
  BY <1>2, <1>3

\* One insert gets in, and the others are handed the row it wrote.
LEMMA InsertsKeeps ==
  ASSUME NewsletterIInv, NEW s \in Submit, SubscribeInserts(s)
  PROVE  NewsletterIInv'
<1> DEFINE first == [status |-> "pending", invited_at |-> Never]
<1>1. NewsletterShape /\ submit[s] \in SubmitState /\ UNCHANGED <<click, hour, letters, submitDeaths>>
  BY DEF NewsletterIInv, NewsletterShape, SubscribeInserts
<1>2. subscription' \in SubscriptionRow /\ subscription'.invited_at = subscription.invited_at
  <2>1. first \in SubscriptionRow /\ first.invited_at = NoSubscription.invited_at
    BY DEF SubscriptionRow, NewsletterStatus, HourOf, NoSubscription
  <2> QED
    BY <1>1, <2>1 DEF SubscribeInserts, NewsletterShape
<1>3. PICK new \in SubmitState : new.at = "decide" /\ submit' = [submit EXCEPT ![s] = new]
  <2>1. subscription'.status \in NewsletterStatus
    BY <1>2 DEF SubscriptionRow
  <2>2. [submit[s] EXCEPT !.at = "decide", !.status = subscription'.status] \in SubmitState
    BY <1>1, <2>1 DEF SubmitState
  <2>3. [submit[s] EXCEPT !.at = "decide", !.status = subscription'.status].at = "decide"
    BY <1>1 DEF SubmitState
  <2>4. submit' = [submit EXCEPT ![s] = [submit[s] EXCEPT !.at = "decide", !.status = subscription'.status]]
    BY DEF SubscribeInserts
  <2> QED
    BY <2>2, <2>3, <2>4
<1>4. SubmitMoves(s) /\ submit'[s].at = "decide"
  BY <1>1, <1>3, SubmitWrite
<1>5. NewsletterClaims'
  BY <1>1, <1>2, <1>4, NothingClaimed
<1> QED
  BY <1>1, <1>2, <1>4, <1>5 DEF NewsletterIInv, NewsletterClaims, NewsletterShape, RowStands, SubmitMoves

\* The status that was read decides.
LEMMA DecidesKeeps ==
  ASSUME NewsletterIInv, NEW s \in Submit, SubscribeDecides(s)
  PROVE  NewsletterIInv'
<1> DEFINE at == IF submit[s].status = "confirmed" THEN "done" ELSE "claim"
<1>1. NewsletterShape /\ UNCHANGED <<subscription, click, hour, letters, submitDeaths>> /\ SubmitGoes(s, at)
  BY DEF NewsletterIInv, SubscribeDecides
<1>2. at \in {"done", "claim"}
  OBVIOUS
<1> HIDE DEF at
<1>3. SubmitMoves(s) /\ submit'[s].at = at
  BY <1>1, <1>2, SubmitGoesOn
<1>4. NewsletterClaims'
  BY <1>1, <1>2, <1>3, NothingClaimed
<1>5. subscription \in SubscriptionRow
  BY DEF NewsletterIInv, RowStands, SubscribeDecides, SubmitAt
<1> QED
  BY <1>1, <1>3, <1>4, <1>5 DEF NewsletterIInv, NewsletterClaims, NewsletterShape, RowStands, SubmitMoves

\* The claim of an hour is taken once: the window was open, so nothing was claimed or queued in it.
LEMMA ClaimKeeps ==
  ASSUME NewsletterIInv, NEW s \in Submit, claim_invitation(s)
  PROVE  NewsletterIInv'
<1>1. NewsletterShape /\ submit[s] \in SubmitState /\ UNCHANGED <<click, hour, letters, submitDeaths>>
  BY DEF NewsletterIInv, NewsletterShape, claim_invitation
<1>2. subscription \in SubscriptionRow
  BY DEF NewsletterIInv, RowStands, claim_invitation, SubmitAt
<1>3. CASE ~Invitable
  <2>1. SubmitGoes(s, "done") /\ subscription' = subscription
    BY <1>3 DEF claim_invitation
  <2>2. SubmitMoves(s) /\ submit'[s].at = "done"
    BY <1>1, <2>1, SubmitGoesOn
  <2>3. NewsletterClaims'
    BY <1>1, <2>1, <2>2, NothingClaimed
  <2> QED
    BY <1>1, <1>2, <2>1, <2>2, <2>3 DEF NewsletterIInv, NewsletterClaims, NewsletterShape, RowStands, SubmitMoves
<1>4. CASE Invitable
  <2> DEFINE new == [submit[s] EXCEPT !.at = "queue", !.claimed = hour]
  <2>1. new \in SubmitState /\ new.at = "queue" /\ new.claimed = hour
    BY <1>1 DEF SubmitState, NewsletterShape, HourOf
  <2>2. submit' = [submit EXCEPT ![s] = new]
    BY <1>4 DEF claim_invitation
  <2>3. SubmitMoves(s) /\ submit'[s].at = "queue" /\ submit'[s].claimed = hour
    BY <1>1, <2>1, <2>2, SubmitWrite
  <2>4. subscription' \in SubscriptionRow /\ subscription'.invited_at = hour
    BY <1>1, <1>2, <1>4 DEF claim_invitation, SubscriptionRow, NewsletterShape, HourOf
  <2>5. subscription.invited_at < hour /\ hour \in 0 .. MaxHours /\ MaxHours \in Nat
    BY <1>1, <1>4, NewsletterAssumption DEF Invitable, NewsletterShape
  <2>6. subscription.invited_at \in Int /\ \A h \in 0 .. MaxHours : letters[h] \in Nat /\ h \in Int
    BY <1>1, <1>2, <2>5 DEF SubscriptionRow, HourOf, Never, NewsletterShape
  <2>7. letters[hour] = 0
    BY <2>5, <2>6 DEF NewsletterIInv, ClaimedInOrder
  <2>8. \A t \in Submit : SubmitAt(t, "queue") => submit[t].claimed \in 0 .. MaxHours /\ submit[t].claimed < hour
    BY <2>5, <2>6 DEF NewsletterIInv, ClaimedInOrder
  <2>9. ClaimedInOrder'
    BY <1>1, <2>3, <2>4, <2>5, <2>6, <2>8 DEF NewsletterIInv, ClaimedInOrder, SubmitMoves, SubmitAt
  <2>10. FirstOfItsHour'
    BY <1>1, <2>3, <2>5, <2>7, <2>8 DEF NewsletterIInv, FirstOfItsHour, SubmitMoves, SubmitAt
  <2>11. OneLetterAnHour'
    BY <1>1 DEF NewsletterIInv, OneLetterAnHour
  <2> QED
    BY <1>1, <2>3, <2>4, <2>9, <2>10, <2>11 DEF NewsletterIInv, NewsletterShape, RowStands, SubmitMoves
<1> QED
  BY <1>3, <1>4

\* The letter is the first of the hour that was claimed for it.
LEMMA QueuesKeeps ==
  ASSUME NewsletterIInv, NEW s \in Submit, QueuesLetter(s)
  PROVE  NewsletterIInv'
<1> DEFINE h == submit[s].claimed
<1>1. NewsletterShape /\ SubmitAt(s, "queue") /\ UNCHANGED <<subscription, click, hour, submitDeaths>>
      /\ letters' = [letters EXCEPT ![h] = @ + 1] /\ SubmitGoes(s, "done")
  BY DEF NewsletterIInv, QueuesLetter
<1>2. SubmitMoves(s) /\ submit'[s].at = "done"
  BY <1>1, SubmitGoesOn
<1>3. h \in 0 .. MaxHours /\ h <= subscription.invited_at /\ letters[h] = 0
  BY <1>1 DEF NewsletterIInv, ClaimedInOrder, FirstOfItsHour
<1>4. subscription \in SubscriptionRow
  BY <1>1 DEF NewsletterIInv, RowStands, SubmitAt
<1>5. letters' \in [0 .. MaxHours -> Nat] /\ letters'[h] = 1 /\ \A g \in 0 .. MaxHours : g # h => letters'[g] = letters[g]
  <2> HIDE DEF h
  <2> QED
    BY <1>1, <1>3 DEF NewsletterShape
<1>6. ClaimedInOrder'
  BY <1>1, <1>2, <1>3, <1>5 DEF NewsletterIInv, ClaimedInOrder, SubmitMoves, SubmitAt
<1>7. FirstOfItsHour'
  BY <1>1, <1>2, <1>5 DEF NewsletterIInv, ClaimedInOrder, FirstOfItsHour, SubmitMoves, SubmitAt
<1>8. OneLetterAnHour'
  BY <1>5 DEF NewsletterIInv, OneLetterAnHour
<1> QED
  BY <1>1, <1>2, <1>4, <1>5, <1>6, <1>7, <1>8 DEF NewsletterIInv, NewsletterShape, RowStands, SubmitMoves

LEMMA DiesKeeps ==
  ASSUME NewsletterIInv, NEW s \in Submit, SubmitDies(s)
  PROVE  NewsletterIInv'
<1>1. NewsletterShape /\ UNCHANGED <<subscription, click, hour, letters>> /\ SubmitGoes(s, "dead")
  BY DEF NewsletterIInv, SubmitDies
<1>2. submitDeaths' \in 0 .. MaxSubmitDeaths
  BY <1>1, NewsletterAssumption DEF SubmitDies, NewsletterShape
<1>3. SubmitMoves(s) /\ submit'[s].at = "dead"
  BY <1>1, SubmitGoesOn
<1>4. NewsletterClaims'
  BY <1>1, <1>3, NothingClaimed
<1> QED
  BY <1>1, <1>2, <1>3, <1>4 DEF NewsletterIInv, NewsletterClaims, NewsletterShape, RowStands, SubmitMoves

\* An answer is to a letter, and settles the row that letter names without its window.
LEMMA AnswersKeep ==
  ASSUME NewsletterIInv, NEW c \in AddressClick, SettlesAnswer(c) \/ \E wants \in {"confirmed", "unsubscribed"} : AnswerReads(c, wants)
  PROVE  NewsletterIInv'
<1>1. NewsletterShape /\ UNCHANGED <<submit, hour, letters, submitDeaths>>
  BY DEF NewsletterIInv, SettlesAnswer, AnswerReads
<1>2. subscription \in SubscriptionRow
  BY DEF NewsletterIInv, RowStands, SettlesAnswer, AnswerReads, LettersSent, OneLetterAnHour
<1>3. subscription' \in SubscriptionRow /\ subscription'.invited_at = subscription.invited_at
  <2>1. CASE SettlesAnswer(c)
    <3>1. click[c].wants \in NewsletterStatus
      BY <1>1 DEF NewsletterShape, AnswerState
    <3> QED
      BY <1>2, <2>1, <3>1 DEF SettlesAnswer, SubscriptionRow
  <2>2. CASE \E wants \in {"confirmed", "unsubscribed"} : AnswerReads(c, wants)
    BY <1>2, <2>2 DEF AnswerReads
  <2> QED
    BY <2>1, <2>2
<1>4. click' \in [AddressClick -> AnswerState]
  <2>1. CASE SettlesAnswer(c)
    BY <1>1, <2>1 DEF SettlesAnswer, NewsletterShape, AnswerState
  <2>2. CASE \E wants \in {"confirmed", "unsubscribed"} : AnswerReads(c, wants)
    <3>1. PICK wants \in {"confirmed", "unsubscribed"} : click' = [click EXCEPT ![c] = [at |-> "settle", wants |-> wants]]
      BY <2>2 DEF AnswerReads
    <3>2. [at |-> "settle", wants |-> wants] \in AnswerState
      BY DEF AnswerState, NewsletterStatus
    <3> QED
      BY <1>1, <3>1, <3>2 DEF NewsletterShape
  <2> QED
    BY <2>1, <2>2
<1>5. ClaimedInOrder' /\ FirstOfItsHour' /\ OneLetterAnHour'
  BY <1>1, <1>3 DEF NewsletterIInv, ClaimedInOrder, FirstOfItsHour, OneLetterAnHour, SubmitAt
<1> QED
  BY <1>1, <1>3, <1>4, <1>5 DEF NewsletterIInv, NewsletterShape, RowStands

\* Every step of the newsletter keeps the invariant.
LEMMA NewsletterStep ==
  ASSUME NewsletterIInv, NewsletterNext
  PROVE  NewsletterIInv'
<1>1. CASE \E s \in Submit : Subscribes(s)
  BY <1>1, LooksKeeps, InsertsKeeps, DecidesKeeps, ClaimKeeps, QueuesKeeps, DiesKeeps DEF Subscribes
<1>2. CASE \E c \in AddressClick : SettlesAnswer(c) \/ \E wants \in {"confirmed", "unsubscribed"} : AnswerReads(c, wants)
  BY <1>2, AnswersKeep
<1>3. CASE HourPasses
  <2>1. hour' \in 0 .. MaxHours
    BY <1>3, NewsletterAssumption DEF NewsletterIInv, NewsletterShape, HourPasses
  <2> QED
    BY <1>3, <2>1 DEF HourPasses, NewsletterIInv, NewsletterShape, RowStands, ClaimedInOrder, FirstOfItsHour, OneLetterAnHour, SubmitAt
<1> QED
  BY <1>1, <1>2, <1>3 DEF NewsletterNext

\* However many submits of one address arrive together, die or cross its answers, it is written to once an interval at most (claim_invitation is one
\* conditional update); for any number of submits, answers and hours.
THEOREM WrittenToOnce == NewsletterInit /\ [][NewsletterNext]_newsletterVars => [](NewsletterTypeOK /\ OneLetterAnHour)
<1>1. NewsletterInit => NewsletterIInv
  <2> SUFFICES ASSUME NewsletterInit PROVE NewsletterIInv
    OBVIOUS
  <2>1. NewsletterShape
    BY NewsletterAssumption DEF NewsletterInit, NewsletterShape, SubmitState, AnswerState, NewsletterStatus, HourOf
  <2> QED
    BY <2>1 DEF NewsletterInit, NewsletterIInv, RowStands, ClaimedInOrder, FirstOfItsHour, OneLetterAnHour, SubmitAt
<1>2. NewsletterIInv /\ [NewsletterNext]_newsletterVars => NewsletterIInv'
  <2> SUFFICES ASSUME NewsletterIInv, [NewsletterNext]_newsletterVars PROVE NewsletterIInv'
    OBVIOUS
  <2>1. CASE NewsletterNext
    BY <2>1, NewsletterStep
  <2>2. CASE UNCHANGED newsletterVars
    BY <2>2 DEF newsletterVars, NewsletterIInv, NewsletterShape, RowStands, ClaimedInOrder, FirstOfItsHour, OneLetterAnHour, SubmitAt
  <2> QED
    BY <2>1, <2>2
<1>3. NewsletterIInv => NewsletterTypeOK /\ OneLetterAnHour
  BY DEF NewsletterIInv, NewsletterShape, NewsletterTypeOK, SubscriptionRow, HourOf, SubmitState, AnswerState
<1> QED
  BY <1>1, <1>2, <1>3, PTL

-----------------------------------------------------------------------------
(* The windows of the limits.                                              *)

Window == [key : LimitedKey, since : Nat, hits : Nat]

\* One window for a key, and no more than the mapping may hold.
Bounded(ws) ==
  /\ ws \in Seq(Window)
  /\ Len(ws) <= Capacity
  /\ \A i, j \in DOMAIN ws : ws[i].key = ws[j].key => i = j

\* The counter of k in the window `now` holds n hits at least, and what was used after it is among ks.
Counts(ws, now, k, n, ks) ==
  \E i \in DOMAIN ws :
    /\ ws[i].key = k /\ ws[i].since = now /\ ws[i].hits >= n
    /\ \A j \in DOMAIN ws : j > i => ws[j].key \in ks

\* The counter of k is there, unless others than k filled the mapping since it was used.
StillCounts(ws, now, k, n, ks) == Cardinality(ks) >= Capacity \/ Counts(ws, now, k, n, ks)

-----------------------------------------------------------------------------
\* Taking the window of a key out leaves the others, in their order.
LEMMA OthersStay ==
  ASSUME NEW ws, Bounded(ws), NEW key
  PROVE  LET o == Others(ws, key) IN
         /\ o \in Seq(Window) /\ Len(o) <= Len(ws) /\ (HoldsKey(ws, key) => Len(o) < Len(ws))
         /\ \A i \in 1 .. Len(o) : o[i].key # key
         /\ \A i \in 1 .. Len(o) : \E p \in 1 .. Len(ws) : o[i] = ws[p]
         /\ \A i, j \in 1 .. Len(o) : o[i].key = o[j].key => i = j
         /\ \A p \in 1 .. Len(ws) : ws[p].key # key =>
              \E i \in 1 .. Len(o) : /\ o[i] = ws[p]
                                     /\ \A j \in 1 .. Len(o) : j > i => \E q \in 1 .. Len(ws) : q > p /\ o[j] = ws[q]
<1> DEFINE o == Others(ws, key)
<1>1. ws \in Seq(Window) /\ DOMAIN ws = 1 .. Len(ws) /\ Len(ws) \in Nat
  BY DEF Bounded
<1>2. CASE ~HoldsKey(ws, key)
  <2>1. o = ws
    BY <1>2 DEF Others
  <2> QED
    BY <1>1, <1>2, <2>1 DEF HoldsKey, Bounded
<1>3. CASE HoldsKey(ws, key)
  <2> DEFINE p == PlaceOf(ws, key)
  <2>1. p \in 1 .. Len(ws) /\ ws[p].key = key
    BY <1>1, <1>3 DEF HoldsKey, PlaceOf
  <2>2. o = SubSeq(ws, 1, p - 1) \o SubSeq(ws, p + 1, Len(ws))
    BY <1>3 DEF Others
  <2> HIDE DEF p, o
  <2>3. /\ SubSeq(ws, 1, p - 1) \in Seq(Window) /\ Len(SubSeq(ws, 1, p - 1)) = p - 1
        /\ \A i \in 1 .. p - 1 : SubSeq(ws, 1, p - 1)[i] = ws[i]
    BY <1>1, <2>1
  <2>4. /\ SubSeq(ws, p + 1, Len(ws)) \in Seq(Window) /\ Len(SubSeq(ws, p + 1, Len(ws))) = Len(ws) - p
        /\ \A i \in 1 .. Len(ws) - p : SubSeq(ws, p + 1, Len(ws))[i] = ws[p + i]
    <3> DEFINE m == p + 1
               n == Len(ws)
    <3>1. m \in Int /\ n \in Int /\ \A i \in m .. n : ws[i] \in Window
      BY <1>1, <2>1
    <3> HIDE DEF m, n
    <3>2. /\ SubSeq(ws, m, n) \in Seq(Window) /\ Len(SubSeq(ws, m, n)) = IF m <= n THEN n - m + 1 ELSE 0
          /\ \A i \in 1 .. n - m + 1 : SubSeq(ws, m, n)[i] = ws[m + i - 1]
      BY <3>1, SubSeqProperties
    <3>3. p \in Int /\ Len(ws) \in Int /\ p <= Len(ws) /\ m = p + 1 /\ n = Len(ws)
      BY <1>1, <2>1 DEF m, n
    <3>4. n - m + 1 = Len(ws) - p
      BY <3>3
    <3>5. ~(m <= n) => Len(ws) - p = 0
      BY <3>3
    <3>6. \A i \in 1 .. Len(ws) - p : m + i - 1 = p + i
      BY <3>3
    <3>7. Len(SubSeq(ws, m, n)) = Len(ws) - p
      BY <3>2, <3>4, <3>5
    <3>8. \A i \in 1 .. Len(ws) - p : SubSeq(ws, m, n)[i] = ws[p + i]
      BY <3>2, <3>4, <3>6
    <3> QED
      BY <3>2, <3>3, <3>7, <3>8
  <2> DEFINE head == SubSeq(ws, 1, p - 1)
             tail == SubSeq(ws, p + 1, Len(ws))
  <2>13. /\ Len(head) = p - 1 /\ \A i \in 1 .. p - 1 : head[i] = ws[i]
         /\ Len(tail) = Len(ws) - p /\ \A i \in 1 .. Len(ws) - p : tail[i] = ws[p + i]
    BY <2>3, <2>4
  <2> HIDE DEF head, tail
  <2>12. /\ o \in Seq(Window) /\ Len(o) = Len(head) + Len(tail)
         /\ \A i \in 1 .. Len(head) + Len(tail) : o[i] = IF i <= Len(head) THEN head[i] ELSE tail[i - Len(head)]
    <3>1. head \in Seq(Window) /\ tail \in Seq(Window) /\ o = head \o tail
      BY <2>2, <2>3, <2>4 DEF head, tail
    <3> QED
      BY <3>1, ConcatProperties
  <2>5. o \in Seq(Window) /\ Len(o) = Len(ws) - 1
    BY <1>1, <2>1, <2>12, <2>13
  <2>6. \A i \in 1 .. Len(o) : o[i] = IF i < p THEN ws[i] ELSE ws[i + 1]
    <3> SUFFICES ASSUME NEW i \in 1 .. Len(o) PROVE o[i] = IF i < p THEN ws[i] ELSE ws[i + 1]
      OBVIOUS
    <3>1. CASE i < p
      <4>4. p \in Int /\ Len(ws) \in Int /\ i \in Int /\ i >= 1
        BY <1>1, <2>1, <2>5
      <4>5. i \in 1 .. p - 1
        BY <3>1, <4>4
      <4>6. o[i] = IF i <= Len(head) THEN head[i] ELSE tail[i - Len(head)]
        BY <2>5, <2>12
      <4>1. i \in 1 .. p - 1 /\ o[i] = head[i]
        BY <2>13, <4>4, <4>5, <4>6
      <4> QED
        BY <2>13, <3>1, <4>1
    <3>2. CASE ~(i < p)
      <4>4. p \in Int /\ Len(ws) \in Int /\ i \in Int /\ i <= Len(ws) - 1 /\ i >= p
        BY <1>1, <2>1, <2>5, <3>2
      <4>5. i - (p - 1) \in 1 .. Len(ws) - p
        BY <4>4
      <4>6. o[i] = IF i <= Len(head) THEN head[i] ELSE tail[i - Len(head)]
        BY <2>5, <2>12
      <4>1. i - (p - 1) \in 1 .. Len(ws) - p /\ o[i] = tail[i - (p - 1)]
        BY <2>13, <4>4, <4>5, <4>6
      <4>2. tail[i - (p - 1)] = ws[p + (i - (p - 1))]
        BY <2>13, <4>1
      <4>3. p + (i - (p - 1)) = i + 1
        BY <1>1, <2>1, <2>5
      <4> QED
        BY <3>2, <4>1, <4>2, <4>3
    <3> QED
      BY <3>1, <3>2
  <2>7. \A i \in 1 .. Len(ws) : i # p => ws[i].key # key
    BY <1>1, <2>1 DEF Bounded
  <2>8. \A i \in 1 .. Len(o) : o[i].key # key
    BY <1>1, <2>1, <2>5, <2>6, <2>7
  <2>9. \A i \in 1 .. Len(o) : \E q \in 1 .. Len(ws) : o[i] = ws[q]
    BY <1>1, <2>1, <2>5, <2>6
  <2>10. \A i, j \in 1 .. Len(o) : o[i].key = o[j].key => i = j
    <3> SUFFICES ASSUME NEW i \in 1 .. Len(o), NEW j \in 1 .. Len(o), o[i].key = o[j].key PROVE i = j
      OBVIOUS
    <3> DEFINE at(x) == IF x < p THEN x ELSE x + 1
    <3>3. o[i] = ws[at(i)] /\ o[j] = ws[at(j)]
      BY <2>6
    <3>4. at(i) \in 1 .. Len(ws) /\ at(j) \in 1 .. Len(ws)
      BY <1>1, <2>1, <2>5
    <3>1. at(i) \in 1 .. Len(ws) /\ at(j) \in 1 .. Len(ws) /\ o[i] = ws[at(i)] /\ o[j] = ws[at(j)]
      BY <3>3, <3>4
    <3>2. at(i) = at(j)
      BY <1>1, <3>1 DEF Bounded
    <3> QED
      BY <1>1, <2>1, <2>5, <3>2
  <2>11. ASSUME NEW q \in 1 .. Len(ws), ws[q].key # key
         PROVE  \E i \in 1 .. Len(o) : /\ o[i] = ws[q]
                                       /\ \A j \in 1 .. Len(o) : j > i => \E r \in 1 .. Len(ws) : r > q /\ o[j] = ws[r]
    <3>1. q # p
      BY <2>1, <2>11
    <3> DEFINE i == IF q < p THEN q ELSE q - 1
    <3>2. i \in 1 .. Len(o) /\ o[i] = ws[q]
      BY <1>1, <2>1, <2>5, <2>6, <3>1
    <3>3. ASSUME NEW j \in 1 .. Len(o), j > i PROVE \E r \in 1 .. Len(ws) : r > q /\ o[j] = ws[r]
      <4> DEFINE r == IF j < p THEN j ELSE j + 1
      <4>1. r \in 1 .. Len(ws) /\ r > q /\ o[j] = ws[r]
        BY <1>1, <2>1, <2>5, <2>6, <3>1, <3>3
      <4> QED
        BY <4>1
    <3> QED
      BY <3>2, <3>3
  <2> QED
    BY <1>1, <2>1, <2>5, <2>8, <2>9, <2>10, <2>11 DEF o
<1> QED
  BY <1>2, <1>3

\* The hit of a key counts one more in w, puts it behind the other windows, and drops d of them from the front.
HitPuts(ws, key, w, d) ==
  /\ w.key = key /\ w.since = window /\ w.hits = HitsOf(ws, key) + 1
  /\ Hit(ws, key) \in Seq(Window) /\ Len(Hit(ws, key)) = Len(Append(Others(ws, key), w)) - d /\ Len(Hit(ws, key)) <= Capacity
  /\ d > 0 => Len(Hit(ws, key)) = Capacity
  /\ \A j \in 1 .. Len(Hit(ws, key)) : Hit(ws, key)[j] = Append(Others(ws, key), w)[j + d]

\* A hit puts the window of its key last, and drops from the front what no longer fits.
LEMMA HitForm ==
  ASSUME NEW ws, Bounded(ws), NEW key \in LimitedKey, window \in Nat
  PROVE  \E w \in Window, d \in Nat : HitPuts(ws, key, w, d)
<1> DEFINE o == Others(ws, key)
           h == HitsOf(ws, key)
<1>1. ws \in Seq(Window) /\ DOMAIN ws = 1 .. Len(ws) /\ Len(ws) \in Nat /\ Len(ws) <= Capacity /\ Capacity \in Nat \ {0}
  BY RateLimitAssumption DEF Bounded
<1>2. o \in Seq(Window) /\ Len(o) \in Nat /\ Len(o) <= Len(ws) /\ (HoldsKey(ws, key) => Len(o) < Len(ws))
  BY OthersStay
<1>3. HoldsKey(ws, key) => WindowOf(ws, key) \in Window /\ WindowOf(ws, key).key = key
  BY <1>1 DEF HoldsKey, WindowOf, PlaceOf
<1>4. h \in Nat
  BY <1>3 DEF HitsOf, Window
<1>5. CASE HoldsKey(ws, key) /\ WindowOf(ws, key).since = window
  <2> DEFINE w == [WindowOf(ws, key) EXCEPT !.hits = h + 1]
  <2>1. w \in Window /\ w.key = key /\ w.since = window /\ w.hits = h + 1
    BY <1>3, <1>4, <1>5 DEF Window
  <2>2. Hit(ws, key) = Append(o, w)
    BY <1>5 DEF Hit, getitem
  <2> HIDE DEF o, w, h
  <2>3. Append(o, w) \in Seq(Window) /\ Len(Append(o, w)) = Len(o) + 1
    BY <1>2, <2>1
  <2>4. 0 \in Nat /\ Len(Append(o, w)) = Len(Append(o, w)) - 0 /\ Len(Append(o, w)) <= Capacity
        /\ \A j \in 1 .. Len(Append(o, w)) : Append(o, w)[j] = Append(o, w)[j + 0]
    BY <1>1, <1>2, <1>5, <2>3
  <2>5. /\ Hit(ws, key) \in Seq(Window) /\ Len(Hit(ws, key)) = Len(Append(o, w)) - 0 /\ Len(Hit(ws, key)) <= Capacity
        /\ \A j \in 1 .. Len(Hit(ws, key)) : Hit(ws, key)[j] = Append(o, w)[j + 0]
    BY <2>2, <2>3, <2>4
  <2>6. HitPuts(ws, key, w, 0)
    BY <2>1, <2>5 DEF HitPuts, o, h
  <2> QED
    BY <2>1, <2>4, <2>6
<1>6. CASE ~(HoldsKey(ws, key) /\ WindowOf(ws, key).since = window)
  <2> DEFINE w == [key |-> key, since |-> window, hits |-> 1]
             added == Append(o, w)
             d == Len(added) - (IF Len(added) > Capacity THEN Capacity ELSE Len(added))
  <2>1. w \in Window /\ w.key = key /\ w.since = window /\ w.hits = h + 1
    BY <1>6 DEF Window, HitsOf
  <2>2. Hit(ws, key) = SubSeq(added, d + 1, Len(added))
    BY <1>6 DEF Hit, setitem
  <2> HIDE DEF o, w, h
  <2>3. added \in Seq(Window) /\ Len(added) = Len(o) + 1
    BY <1>2, <2>1
  <2>6. Len(added) \in Nat
    BY <2>3
  <2> HIDE DEF added
  <2>4. d \in Nat /\ Len(added) - d <= Capacity /\ (d > 0 => Len(added) - d = Capacity) /\ d <= Len(added)
    <3> DEFINE l == Len(added)
    <3>1. l \in Nat /\ Capacity \in Nat
      BY <1>1, <2>6
    <3> HIDE DEF l
    <3>2. CASE l > Capacity
      BY <3>1, <3>2 DEF l
    <3>3. CASE ~(l > Capacity)
      BY <3>1, <3>3 DEF l
    <3> QED
      BY <3>2, <3>3
  <2> HIDE DEF d
  <2>5. /\ SubSeq(added, d + 1, Len(added)) \in Seq(Window) /\ Len(SubSeq(added, d + 1, Len(added))) = Len(added) - d
        /\ \A j \in 1 .. Len(added) - d : SubSeq(added, d + 1, Len(added))[j] = added[j + d]
    BY <2>3, <2>4
  <2>7. /\ Hit(ws, key) \in Seq(Window) /\ Len(Hit(ws, key)) = Len(added) - d /\ Len(Hit(ws, key)) <= Capacity
        /\ d > 0 => Len(Hit(ws, key)) = Capacity
        /\ \A j \in 1 .. Len(Hit(ws, key)) : Hit(ws, key)[j] = added[j + d]
    BY <2>2, <2>4, <2>5
  <2>8. HitPuts(ws, key, w, d)
    BY <2>1, <2>7 DEF HitPuts, added, o, h
  <2> QED
    BY <2>1, <2>4, <2>8
<1> QED
  BY <1>5, <1>6
\* Windows of different keys, all among ks, are no more than ks.
LEMMA DistinctKeys ==
  ASSUME NEW ws, Bounded(ws), NEW m \in Nat, m <= Len(ws), NEW ks, IsFiniteSet(ks), \A j \in m + 1 .. Len(ws) : ws[j].key \in ks
  PROVE  Len(ws) - m <= Cardinality(ks)
<1> DEFINE js == m + 1 .. Len(ws)
           f == [j \in js |-> ws[j].key]
<1>1. ws \in Seq(Window) /\ DOMAIN ws = 1 .. Len(ws) /\ Len(ws) \in Nat
  BY DEF Bounded
<1>2. js \subseteq DOMAIN ws
  BY <1>1
<1>3. f \in Injection(js, ks)
  BY <1>2 DEF Injection, IsInjective, Bounded
<1>4. IsFiniteSet(js) /\ Cardinality(js) = Len(ws) - m
  <2>1. m + 1 \in Int /\ Len(ws) \in Int
    BY <1>1
  <2>2. Cardinality(js) = IF m + 1 > Len(ws) THEN 0 ELSE Len(ws) - (m + 1) + 1
    BY <2>1, FS_Interval
  <2>3. IsFiniteSet(js)
    BY <2>1, FS_Interval
  <2> QED
    BY <1>1, <2>2, <2>3
<1> HIDE DEF f, js
<1>5. Cardinality(js) <= Cardinality(ks)
  BY <1>3, FS_Injection
<1> QED
  BY <1>4, <1>5

\* What was added by a hit: the others in their order, and the window of the key at the end.
LEMMA AddedForm ==
  ASSUME NEW ws, Bounded(ws), NEW key, NEW w \in Window, w.key = key
  PROVE  LET o == Others(ws, key)
             added == Append(o, w)
         IN /\ Len(o) \in Nat /\ Len(added) = Len(o) + 1 /\ added[Len(o) + 1] = w
            /\ \A i \in 1 .. Len(o) : added[i] = o[i]
            /\ \A i, j \in 1 .. Len(added) : added[i].key = added[j].key => i = j
<1> DEFINE o == Others(ws, key)
           added == Append(o, w)
<1>1. o \in Seq(Window) /\ Len(o) \in Nat /\ (\A i \in 1 .. Len(o) : o[i].key # key) /\ \A i, j \in 1 .. Len(o) : o[i].key = o[j].key => i = j
  BY OthersStay
<1> HIDE DEF o
<1>2. Len(added) = Len(o) + 1 /\ added[Len(o) + 1] = w /\ \A i \in 1 .. Len(o) : added[i] = o[i]
  BY <1>1
<1> HIDE DEF added
<1>3. \A i, j \in 1 .. Len(added) : added[i].key = added[j].key => i = j
  BY <1>1, <1>2
<1> QED
  BY <1>1, <1>2, <1>3 DEF o, added

\* A hit keeps the mapping within its bound, one window for a key.
LEMMA HitBounded ==
  ASSUME NEW ws, Bounded(ws), NEW key \in LimitedKey, window \in Nat
  PROVE  Bounded(Hit(ws, key))
<1>1. PICK w \in Window, d \in Nat : HitPuts(ws, key, w, d)
  BY HitForm
<1> DEFINE o == Others(ws, key)
           added == Append(o, w)
           hit == Hit(ws, key)
<1>2. Len(o) \in Nat /\ Len(added) = Len(o) + 1 /\ \A i, j \in 1 .. Len(added) : added[i].key = added[j].key => i = j
  BY <1>1, AddedForm DEF HitPuts
<1> HIDE DEF hit, added, o
<1>6. hit \in Seq(Window) /\ Len(hit) = Len(added) - d /\ Len(hit) <= Capacity /\ \A j \in 1 .. Len(hit) : hit[j] = added[j + d]
  BY <1>1 DEF HitPuts, hit, added, o
<1>3. hit \in Seq(Window) /\ Len(hit) \in Nat /\ DOMAIN hit = 1 .. Len(hit) /\ Len(hit) = Len(added) - d /\ Len(hit) <= Capacity
      /\ \A j \in 1 .. Len(hit) : hit[j] = added[j + d]
  BY <1>6
<1>4. ASSUME NEW i \in 1 .. Len(hit), NEW j \in 1 .. Len(hit), hit[i].key = hit[j].key PROVE i = j
  <2>1. i + d \in 1 .. Len(added) /\ j + d \in 1 .. Len(added)
    BY <1>2, <1>3
  <2>2. hit[i] = added[i + d] /\ hit[j] = added[j + d]
    BY <1>3
  <2>3. i + d = j + d
    BY <1>2, <1>4, <2>1, <2>2
  <2> QED
    BY <2>3
<1>5. Bounded(hit)
  BY <1>3, <1>4 DEF Bounded
<1> QED
  BY <1>5 DEF hit

\* A hit leaves the counter it counted in last, with one more than it had.
LEMMA HitCounts ==
  ASSUME NEW ws, Bounded(ws), NEW key \in LimitedKey, window \in Nat
  PROVE  Counts(Hit(ws, key), window, key, HitsOf(ws, key) + 1, {})
<1>1. PICK w \in Window, d \in Nat : HitPuts(ws, key, w, d)
  BY HitForm
<1> DEFINE o == Others(ws, key)
           added == Append(o, w)
           hit == Hit(ws, key)
           h == HitsOf(ws, key)
<1>2. Len(o) \in Nat /\ Len(added) = Len(o) + 1 /\ added[Len(o) + 1] = w
  BY <1>1, AddedForm DEF HitPuts
<1>9. HitPuts(ws, key, w, d)
  BY <1>1
<1>4. w.key = key /\ w.since = window /\ w.hits = h + 1 /\ w.hits \in Nat
  BY <1>1 DEF Window, HitPuts
<1> HIDE DEF hit, added, o, h
<1>10. hit \in Seq(Window) /\ Len(hit) = Len(added) - d /\ (d > 0 => Len(hit) = Capacity) /\ \A j \in 1 .. Len(hit) : hit[j] = added[j + d]
  BY <1>9 DEF HitPuts, hit, added, o
<1>3. hit \in Seq(Window) /\ Len(hit) \in Nat /\ DOMAIN hit = 1 .. Len(hit) /\ Len(hit) = Len(added) - d
      /\ (d > 0 => Len(hit) = Capacity) /\ \A j \in 1 .. Len(hit) : hit[j] = added[j + d]
  BY <1>10
<1>5. Len(hit) \in 1 .. Len(hit)
  BY <1>2, <1>3, RateLimitAssumption
<1>6. Len(hit) + d = Len(o) + 1
  BY <1>2, <1>3
<1>7. hit[Len(hit)] = w
  BY <1>2, <1>3, <1>5, <1>6
<1>8. Counts(hit, window, key, h + 1, {})
  BY <1>3, <1>4, <1>5, <1>7 DEF Counts
<1> QED
  BY <1>8 DEF hit, h

\* A hit of another key leaves a counter there, unless others filled the mapping since it was used.
LEMMA HitOfAnother ==
  ASSUME NEW ws, Bounded(ws), NEW key \in LimitedKey, window \in Nat, NEW k, k # key, NEW n, NEW ks, IsFiniteSet(ks),
         StillCounts(ws, window, k, n, ks)
  PROVE  StillCounts(Hit(ws, key), window, k, n, ks \cup {key})
<1>1. IsFiniteSet(ks \cup {key}) /\ Cardinality(ks) <= Cardinality(ks \cup {key}) /\ Cardinality(ks) \in Nat /\ Cardinality(ks \cup {key}) \in Nat
  BY FS_AddElement, FS_Subset, FS_CardinalityType
<1>2. CASE Cardinality(ks) >= Capacity
  BY <1>1, <1>2, RateLimitAssumption DEF StillCounts
<1>3. CASE Counts(ws, window, k, n, ks)
  <2>1. PICK w \in Window, d \in Nat : HitPuts(ws, key, w, d)
    BY HitForm
  <2> DEFINE o == Others(ws, key)
             added == Append(o, w)
             hit == Hit(ws, key)
  <2>2. DOMAIN ws = 1 .. Len(ws)
    BY DEF Bounded
  <2>3. PICK p \in 1 .. Len(ws) : /\ ws[p].key = k /\ ws[p].since = window /\ ws[p].hits >= n
                                  /\ \A q \in 1 .. Len(ws) : q > p => ws[q].key \in ks
    BY <1>3, <2>2 DEF Counts
  <2>4. PICK i \in 1 .. Len(o) : /\ o[i] = ws[p]
                                 /\ \A j \in 1 .. Len(o) : j > i => \E q \in 1 .. Len(ws) : q > p /\ o[j] = ws[q]
    BY <2>3, OthersStay
  <2>5. Len(o) \in Nat /\ Len(added) = Len(o) + 1 /\ added[Len(o) + 1] = w /\ (\A j \in 1 .. Len(o) : added[j] = o[j])
    BY <2>1, AddedForm DEF HitPuts
  <2>7. Bounded(hit)
    BY HitBounded
  <2> HIDE DEF hit, added, o
  <2>11. hit \in Seq(Window) /\ Len(hit) = Len(added) - d
         /\ (d > 0 => Len(hit) = Capacity) /\ (\A j \in 1 .. Len(hit) : hit[j] = added[j + d]) /\ w.key = key
    BY <2>1 DEF HitPuts, hit, added, o
  <2>6. hit \in Seq(Window) /\ Len(hit) \in Nat /\ DOMAIN hit = 1 .. Len(hit) /\ Len(hit) = Len(added) - d
        /\ (d > 0 => Len(hit) = Capacity) /\ (\A j \in 1 .. Len(hit) : hit[j] = added[j + d]) /\ w.key = key
    BY <2>11
  <2>8. \A j \in 1 .. Len(added) : j > i => added[j].key \in ks \cup {key}
    <3> SUFFICES ASSUME NEW j \in 1 .. Len(added), j > i PROVE added[j].key \in ks \cup {key}
      OBVIOUS
    <3>1. CASE j \in 1 .. Len(o)
      <4>1. PICK q \in 1 .. Len(ws) : q > p /\ o[j] = ws[q]
        BY <2>4, <3>1
      <4> QED
        BY <2>3, <2>5, <3>1, <4>1
    <3>2. CASE j = Len(o) + 1
      BY <2>5, <2>6, <3>2
    <3> QED
      BY <2>5, <3>1, <3>2
  <2>9. CASE d < i
    <3>1. i - d \in 1 .. Len(hit) /\ (i - d) + d = i /\ i \in 1 .. Len(o)
      BY <2>5, <2>6, <2>9
    <3>2. hit[i - d] = ws[p]
      BY <2>4, <2>5, <2>6, <3>1
    <3>3. ASSUME NEW j \in 1 .. Len(hit), j > i - d PROVE hit[j].key \in ks \cup {key}
      <4>1. j + d \in 1 .. Len(added) /\ j + d > i
        BY <2>5, <2>6, <3>3
      <4> QED
        BY <2>6, <2>8, <4>1
    <3>4. Counts(hit, window, k, n, ks \cup {key})
      BY <2>3, <2>6, <3>1, <3>2, <3>3 DEF Counts
    <3> QED
      BY <3>4 DEF StillCounts, hit
  <2>10. CASE ~(d < i)
    <3>1. Len(hit) = Capacity
      BY <2>5, <2>6, <2>10
    <3>2. ASSUME NEW j \in 0 + 1 .. Len(hit) PROVE hit[j].key \in ks \cup {key}
      <4>1. j \in 1 .. Len(hit) /\ j + d \in 1 .. Len(added) /\ j + d > i
        BY <2>5, <2>6, <2>10, <3>2
      <4> QED
        BY <2>6, <2>8, <4>1
    <3>3. 0 \in Nat /\ 0 <= Len(hit)
      BY <2>6
    <3>4. Len(hit) - 0 <= Cardinality(ks \cup {key})
      BY <1>1, <2>7, <3>2, <3>3, DistinctKeys
    <3> QED
      BY <1>1, <2>6, <3>1, <3>4, RateLimitAssumption DEF StillCounts, hit
  <2> QED
    BY <2>9, <2>10
<1> QED
  BY <1>2, <1>3 DEF StillCounts

\* The counter that is there is the one that is read.
LEMMA CounterIsRead ==
  ASSUME NEW ws, Bounded(ws), NEW k, NEW n, NEW ks, Counts(ws, window, k, n, ks)
  PROVE  HitsOf(ws, k) >= n
<1>1. PICK i \in DOMAIN ws : ws[i].key = k /\ ws[i].since = window /\ ws[i].hits >= n
  BY DEF Counts
<1>2. HoldsKey(ws, k) /\ WindowOf(ws, k) = ws[i]
  BY <1>1 DEF HoldsKey, WindowOf, PlaceOf, Bounded
<1> QED
  BY <1>1, <1>2 DEF HitsOf

\* What was used after it may be counted as more than it was.
LEMMA CountsMore ==
  ASSUME NEW ws, NEW now, NEW k, NEW n, NEW m, NEW ks, NEW more, ks \subseteq more, n >= m, n \in Int, m \in Int,
         \A i \in DOMAIN ws : ws[i].hits \in Int, Counts(ws, now, k, n, ks)
  PROVE  Counts(ws, now, k, m, more)
BY DEF Counts

LEMMA HitsAreCounted ==
  ASSUME NEW ws, Bounded(ws), NEW k
  PROVE  HitsOf(ws, k) \in Nat
<1>1. CASE HoldsKey(ws, k)
  <2>1. WindowOf(ws, k) \in Window
    BY <1>1 DEF HoldsKey, WindowOf, PlaceOf, Bounded
  <2> QED
    BY <2>1 DEF HitsOf, Window
<1>2. CASE ~HoldsKey(ws, k)
  BY <1>2 DEF HitsOf
<1> QED
  BY <1>1, <1>2

-----------------------------------------------------------------------------
\* What is served was counted, by a counter that is still there unless it was crowded out.
RateShape ==
  /\ Bounded(windows)
  /\ window \in 0 .. MaxWindows /\ requests \in 0 .. MaxRequests
  /\ servedTo \in [LimitedKey -> Nat]
  /\ between \in [LimitedKey -> SUBSET LimitedKey]
  /\ \A k \in LimitedKey : IsFiniteSet(between[k])

ServedIsCounted == \A k \in LimitedKey \ crowdedOut : servedTo[k] > 0 => StillCounts(windows, window, k, servedTo[k], between[k])

RateIInv == RateShape /\ ServedIsCounted /\ LimitsHold

\* A counter that others did not crowd out since it was used has all it served.
LEMMA ServedIsRead ==
  ASSUME RateIInv, NEW k \in LimitedKey \ crowdedOut, NEW ws, Bounded(ws), NEW ks,
         servedTo[k] > 0 => StillCounts(ws, window, k, servedTo[k], ks),
         IsFiniteSet(ks), Cardinality(ks) < Capacity
  PROVE  HitsOf(ws, k) >= servedTo[k]
<1>1. servedTo[k] \in Nat /\ HitsOf(ws, k) \in Nat
  BY HitsAreCounted DEF RateIInv, RateShape
<1>2. Cardinality(ks) \in Nat /\ Capacity \in Nat
  BY RateLimitAssumption, FS_CardinalityType
<1>3. CASE servedTo[k] > 0
  <2>1. Counts(ws, window, k, servedTo[k], ks)
    BY <1>2, <1>3 DEF StillCounts
  <2> QED
    BY <2>1, CounterIsRead
<1> QED
  BY <1>1, <1>3

\* The hit of a counter that has all it served leaves it with all it will have served, whatever is counted after it.
LEMMA HitCountsServed ==
  ASSUME NEW ws, Bounded(ws), NEW k \in LimitedKey, window \in Nat, NEW n \in Nat, n <= HitsOf(ws, k) + 1, NEW ks
  PROVE  StillCounts(Hit(ws, k), window, k, n, ks)
<1>1. Counts(Hit(ws, k), window, k, HitsOf(ws, k) + 1, {}) /\ Bounded(Hit(ws, k)) /\ HitsOf(ws, k) \in Nat
  BY HitCounts, HitBounded, HitsAreCounted
<1>2. \A i \in DOMAIN Hit(ws, k) : Hit(ws, k)[i].hits \in Int
  <2> SUFFICES ASSUME NEW i \in DOMAIN Hit(ws, k) PROVE Hit(ws, k)[i].hits \in Int
    OBVIOUS
  <2>1. Hit(ws, k) \in Seq(Window)
    BY <1>1 DEF Bounded
  <2>2. Hit(ws, k)[i] \in Window
    BY <2>1
  <2> QED
    BY <2>2 DEF Window
<1>3. Counts(Hit(ws, k), window, k, n, ks)
  BY <1>1, <1>2, CountsMore
<1> QED
  BY <1>3 DEF StillCounts

\* A request of an address, on one key.
LEMMA RequestOnKey ==
  ASSUME RateIInv, NEW c \in LimitedClient, LimitedRequest(c), NEW k \in LimitedKey, k \notin crowdedOut',
         NEW ws, windows' = ws, NEW n, servedTo'[k] = n, NEW ks, between'[k] = ks
  PROVE  /\ n \in Nat /\ n <= LimitOf(k) /\ IsFiniteSet(ks) /\ ks \in SUBSET LimitedKey
         /\ n > 0 => StillCounts(ws, window, k, n, ks)
<1> DEFINE first == Hit(windows, c)
           refused == HitsOf(windows, c) >= IpLimit
           served == ~refused /\ HitsOf(first, TotalKey) < TotalLimit
           keysHit == IF refused THEN {c} ELSE {c, TotalKey}
<1>1. /\ ws = IF refused THEN first ELSE Hit(first, TotalKey)
      /\ servedTo' = IF served THEN [j \in LimitedKey |-> servedTo[j] + (IF j \in keysHit THEN 1 ELSE 0)] ELSE servedTo
      /\ between' = SinceHits(keysHit) /\ crowdedOut' = crowdedOut \cup CrowdedBy(keysHit)
  BY DEF LimitedRequest
<1>2. /\ Bounded(windows) /\ window \in Nat /\ c \in LimitedKey /\ TotalKey \in LimitedKey /\ c # TotalKey
      /\ servedTo[k] \in Nat /\ between[k] \in SUBSET LimitedKey /\ IsFiniteSet(between[k])
      /\ Capacity \in Nat \ {0} /\ IpLimit \in Nat /\ TotalLimit \in Nat
  BY RateLimitAssumption DEF RateIInv, RateShape, LimitedKey
<1>3. Bounded(first)
  BY <1>2, HitBounded
<1>4. HitsOf(windows, c) \in Nat /\ HitsOf(first, TotalKey) \in Nat
  BY <1>2, <1>3, HitsAreCounted
<1>5. k \notin crowdedOut /\ k \notin CrowdedBy(keysHit)
  BY <1>1
<1>6. n = servedTo[k] + (IF served /\ k \in keysHit THEN 1 ELSE 0)
  BY <1>1, <1>2
<1>7. ks = IF k \in keysHit THEN keysHit \ {k} ELSE between[k] \cup keysHit
  BY <1>1 DEF SinceHits
<1>8. servedTo[k] <= LimitOf(k)
  BY <1>2, <1>5 DEF RateIInv, LimitsHold, LimitOf
<1>9. servedTo[k] > 0 => StillCounts(windows, window, k, servedTo[k], between[k])
  BY <1>5 DEF RateIInv, ServedIsCounted
<1>10. IsFiniteSet(keysHit) /\ IsFiniteSet(keysHit \ {k}) /\ IsFiniteSet(between[k] \cup keysHit) /\ keysHit \in SUBSET LimitedKey
  <2>1. IsFiniteSet({c}) /\ IsFiniteSet({c, TotalKey})
    <3>1. {c, TotalKey} = {c} \cup {TotalKey}
      OBVIOUS
    <3>2. IsFiniteSet({c})
      BY FS_Singleton
    <3> QED
      BY <3>1, <3>2, FS_AddElement
  <2>2. IsFiniteSet(keysHit) /\ keysHit \in SUBSET LimitedKey
    BY <1>2, <2>1
  <2> HIDE DEF keysHit
  <2> QED
    BY <1>2, <2>2, FS_Union, FS_Difference, FS_Subset
<1>11. IsFiniteSet(ks) /\ ks \in SUBSET LimitedKey
  <2> HIDE DEF keysHit
  <2> QED
    BY <1>2, <1>7, <1>10
<1>12. k \in keysHit => Cardinality(between[k] \cup (keysHit \ {k})) < Capacity
  <2> HIDE DEF keysHit
  <2>1. IsFiniteSet(between[k] \cup (keysHit \ {k}))
    BY <1>2, <1>10, FS_Union
  <2>2. Cardinality(between[k] \cup (keysHit \ {k})) \in Nat
    BY <2>1, FS_CardinalityType
  <2> QED
    BY <1>2, <1>5, <2>2 DEF CrowdedBy
<1>13. CASE k = c
  <2>1. between[k] \subseteq between[k] \cup (keysHit \ {k}) /\ IsFiniteSet(between[k] \cup (keysHit \ {k}))
    <3> HIDE DEF keysHit
    <3> QED
      BY <1>2, <1>10, FS_Union
  <2>2. Cardinality(between[k]) < Capacity
    <3>1. k \in keysHit
      BY <1>13
    <3> HIDE DEF keysHit
    <3>2. /\ Cardinality(between[k]) <= Cardinality(between[k] \cup (keysHit \ {k}))
          /\ Cardinality(between[k]) \in Nat /\ Cardinality(between[k] \cup (keysHit \ {k})) \in Nat
      BY <1>2, <2>1, FS_Subset, FS_CardinalityType
    <3> QED
      BY <1>2, <1>12, <3>1, <3>2
  <2>3. HitsOf(windows, k) >= servedTo[k]
    BY <1>2, <1>5, <1>9, <2>2, ServedIsRead
  <2>4. LimitOf(k) = IpLimit
    BY <1>2, <1>13 DEF LimitOf
  <2>5. n \in Nat /\ n <= HitsOf(windows, k) + 1 /\ n <= LimitOf(k)
    BY <1>2, <1>4, <1>6, <1>8, <1>13, <2>3, <2>4
  <2>6. StillCounts(first, window, k, n, {})
    BY <1>2, <1>13, <2>5, HitCountsServed
  <2>7. CASE refused
    <3>1. ws = first /\ ks = {}
      BY <1>1, <1>7, <1>13, <2>7
    <3> HIDE DEF first
    <3> QED
      BY <1>11, <2>5, <2>6, <3>1
  <2>8. CASE ~refused
    <3>1. ws = Hit(first, TotalKey) /\ ks = {} \cup {TotalKey}
      BY <1>1, <1>2, <1>7, <1>13, <2>8
    <3>2. StillCounts(Hit(first, TotalKey), window, k, n, {} \cup {TotalKey})
      <4> HIDE DEF first
      <4> QED
        BY <1>2, <1>3, <1>13, <2>6, FS_EmptySet, HitOfAnother
    <3> HIDE DEF first
    <3> QED
      BY <1>11, <2>5, <3>1, <3>2
  <2> QED
    BY <2>7, <2>8
<1>14. ASSUME k # c
       PROVE  servedTo[k] > 0 => StillCounts(first, window, k, servedTo[k], between[k] \cup {c})
  BY <1>2, <1>9, <1>14, HitOfAnother
<1>15. CASE k = TotalKey /\ ~refused
  <2>1. keysHit = {c, TotalKey} /\ k \in keysHit /\ ks = {c} /\ ws = Hit(first, k) /\ between[k] \cup (keysHit \ {k}) = between[k] \cup {c}
    BY <1>1, <1>2, <1>7, <1>15
  <2>2. IsFiniteSet(between[k] \cup {c}) /\ Cardinality(between[k] \cup {c}) < Capacity
    BY <1>2, <1>12, <2>1, FS_AddElement
  <2>3. servedTo[k] > 0 => StillCounts(first, window, k, servedTo[k], between[k] \cup {c})
    BY <1>2, <1>14, <1>15
  <2> HIDE DEF first
  <2>4. HitsOf(first, k) >= servedTo[k]
    BY <1>3, <1>5, <2>2, <2>3, ServedIsRead
  <2>5. n \in Nat /\ n <= HitsOf(first, k) + 1 /\ n <= LimitOf(k)
    BY <1>2, <1>4, <1>6, <1>8, <1>15, <2>4 DEF LimitOf
  <2>6. StillCounts(Hit(first, k), window, k, n, ks)
    BY <1>2, <1>3, <2>5, HitCountsServed
  <2> QED
    BY <1>11, <2>1, <2>5, <2>6
<1>16. CASE k # c /\ ~(k = TotalKey /\ ~refused)
  <2>1. k \notin keysHit /\ n = servedTo[k] /\ ks = between[k] \cup keysHit
    BY <1>2, <1>6, <1>7, <1>16
  <2>2. n > 0 => StillCounts(first, window, k, n, between[k] \cup {c})
    BY <1>14, <1>16, <2>1
  <2>3. CASE refused
    <3>1. ws = first /\ ks = between[k] \cup {c}
      BY <1>1, <2>1, <2>3
    <3> HIDE DEF first
    <3> QED
      BY <1>2, <1>8, <1>11, <2>1, <2>2, <3>1
  <2>4. CASE ~refused
    <3>1. ws = Hit(first, TotalKey) /\ ks = (between[k] \cup {c}) \cup {TotalKey} /\ k # TotalKey
      BY <1>1, <1>16, <2>1, <2>4
    <3>2. IsFiniteSet(between[k] \cup {c})
      BY <1>2, FS_AddElement
    <3> HIDE DEF first
    <3>3. n > 0 => StillCounts(Hit(first, TotalKey), window, k, n, (between[k] \cup {c}) \cup {TotalKey})
      BY <1>2, <1>3, <2>2, <3>1, <3>2, HitOfAnother
    <3> QED
      BY <1>2, <1>8, <1>11, <2>1, <3>1, <3>3
  <2> QED
    BY <2>3, <2>4
<1> QED
  BY <1>13, <1>15, <1>16

\* Whatever was crowded out, what was counted since keeps its shape.
LEMMA RequestShape ==
  ASSUME RateIInv, NEW c \in LimitedClient, LimitedRequest(c)
  PROVE  RateShape'
<1> DEFINE first == Hit(windows, c)
           refused == HitsOf(windows, c) >= IpLimit
           served == ~refused /\ HitsOf(first, TotalKey) < TotalLimit
           keysHit == IF refused THEN {c} ELSE {c, TotalKey}
<1>1. /\ requests < MaxRequests /\ requests' = requests + 1 /\ window' = window
      /\ windows' = IF refused THEN first ELSE Hit(first, TotalKey)
      /\ servedTo' = IF served THEN [j \in LimitedKey |-> servedTo[j] + (IF j \in keysHit THEN 1 ELSE 0)] ELSE servedTo
      /\ between' = SinceHits(keysHit)
  BY DEF LimitedRequest
<1>2. RateShape /\ Bounded(windows) /\ window \in Nat /\ c \in LimitedKey /\ TotalKey \in LimitedKey /\ MaxRequests \in Nat
  BY RateLimitAssumption DEF RateIInv, RateShape, LimitedKey
<1>3. Bounded(first)
  BY <1>2, HitBounded
<1>4. Bounded(Hit(first, TotalKey))
  BY <1>2, <1>3, HitBounded
<1>5. PICK ws : ws = windows'
  OBVIOUS
<1>6. Bounded(ws)
  BY <1>1, <1>3, <1>4, <1>5
<1>7. servedTo' \in [LimitedKey -> Nat]
  <2> HIDE DEF keysHit, served
  <2> QED
    BY <1>1, <1>2 DEF RateShape
<1>8. IsFiniteSet(keysHit) /\ keysHit \in SUBSET LimitedKey
  <2>1. {c, TotalKey} = {c} \cup {TotalKey} /\ IsFiniteSet({c})
    BY FS_Singleton
  <2>2. IsFiniteSet({c, TotalKey})
    BY <2>1, FS_AddElement
  <2> QED
    BY <1>2, <2>1, <2>2
<1> HIDE DEF keysHit
<1>9. between' \in [LimitedKey -> SUBSET LimitedKey]
  BY <1>1, <1>2, <1>8 DEF SinceHits, RateShape
<1>10. \A k \in LimitedKey : IsFiniteSet(between'[k])
  <2> SUFFICES ASSUME NEW k \in LimitedKey PROVE IsFiniteSet(between'[k])
    OBVIOUS
  <2>1. IsFiniteSet(between[k])
    BY <1>2 DEF RateShape
  <2>2. IsFiniteSet(keysHit \ {k}) /\ IsFiniteSet(between[k] \cup keysHit)
    BY <1>8, <2>1, FS_RemoveElement, FS_Union
  <2> QED
    BY <1>1, <2>2 DEF SinceHits
<1>11. requests' \in 0 .. MaxRequests
  BY <1>1, <1>2 DEF RateShape
<1> QED
  BY <1>1, <1>2, <1>5, <1>6, <1>7, <1>9, <1>10, <1>11 DEF RateShape, Bounded

\* A request of an address keeps the invariant.
LEMMA RequestKeeps ==
  ASSUME RateIInv, NEW c \in LimitedClient, LimitedRequest(c)
  PROVE  RateIInv'
<1>1. RateShape' /\ window' = window
  BY RequestShape DEF LimitedRequest
<1>2. PICK ws : ws = windows'
  OBVIOUS
<1>3. ServedIsCounted'
  <2> SUFFICES ASSUME NEW k \in LimitedKey, k \notin crowdedOut', servedTo'[k] > 0
               PROVE  StillCounts(windows', window', k, servedTo'[k], between'[k])
    BY DEF ServedIsCounted, StillCounts, Counts
  <2>1. PICK n : n = servedTo'[k]
    OBVIOUS
  <2>2. PICK ks : ks = between'[k]
    OBVIOUS
  <2>3. StillCounts(ws, window, k, n, ks)
    BY <1>2, <2>1, <2>2, RequestOnKey
  <2> QED
    BY <1>1, <1>2, <2>1, <2>2, <2>3
<1>4. LimitsHold'
  <2> SUFFICES ASSUME NEW k \in LimitedKey, k \notin crowdedOut' PROVE ~(servedTo'[k] > LimitOf(k))
    BY DEF LimitsHold, LimitOf
  <2>1. PICK n : n = servedTo'[k]
    OBVIOUS
  <2>2. PICK ks : ks = between'[k]
    OBVIOUS
  <2>3. n \in Nat /\ n <= LimitOf(k)
    BY <1>2, <2>1, <2>2, RequestOnKey
  <2> QED
    BY <2>1, <2>3, RateLimitAssumption DEF LimitOf
<1> QED
  BY <1>1, <1>3, <1>4 DEF RateIInv

\* Within a window, an address and the process are served past their limit only by a counter that as many others as the mapping holds crowded out between two
\* of its calls (BoundedWindows drops what was used least); for any clients, limits, capacity, windows and requests.
THEOREM InUseIsNotDropped == RateInit /\ [][RateNext]_rateVars => [](RateTypeOK /\ LimitsHold)
<1>1. RateInit => RateIInv
  <2> SUFFICES ASSUME RateInit PROVE RateIInv
    OBVIOUS
  <2>1. Bounded(<<>>)
    BY RateLimitAssumption DEF Bounded
  <2>2. RateShape
    BY <2>1, RateLimitAssumption, FS_EmptySet DEF RateInit, RateShape
  <2> QED
    BY <2>2, RateLimitAssumption DEF RateInit, RateIInv, ServedIsCounted, LimitsHold, LimitOf
<1>2. RateIInv /\ [RateNext]_rateVars => RateIInv'
  <2> SUFFICES ASSUME RateIInv, [RateNext]_rateVars PROVE RateIInv'
    OBVIOUS
  <2>1. CASE WindowPasses
    <3>1. RateShape'
      BY <2>1, RateLimitAssumption, FS_EmptySet DEF WindowPasses, RateIInv, RateShape, Bounded
    <3> QED
      BY <2>1, <3>1, RateLimitAssumption DEF WindowPasses, RateIInv, ServedIsCounted, LimitsHold, LimitOf
  <2>2. CASE \E c \in LimitedClient : LimitedRequest(c)
    BY <2>2, RequestKeeps
  <2>3. CASE UNCHANGED rateVars
    BY <2>3 DEF rateVars, RateIInv, RateShape, ServedIsCounted, LimitsHold, LimitOf, Bounded, StillCounts, Counts
  <2> QED
    BY <2>1, <2>2, <2>3 DEF RateNext
<1>3. RateIInv => RateTypeOK /\ LimitsHold
  BY DEF RateIInv, RateShape, RateTypeOK, Bounded
<1> QED
  BY <1>1, <1>2, <1>3, PTL

-----------------------------------------------------------------------------
(* The calls of an account.                                                *)

ApiPlace == {"called", "refused", "routed", "updates", "creates", "rewrites", "inserts", "answered", "collided", "broke"}
AddressRow == [a : ApiAccount, purpose : Purpose, by : ApiCall]
Showable == {h.id : h \in Held} \cup (ApiAccount \X Purpose)
CallRecord == [wish : Wish, at : ApiPlace, found : SUBSET AddressRow, shows : SUBSET Showable]

\* The shape of what a call is and found, besides that of the rows.
ApiShape ==
  /\ member \in [ApiAccount -> [status : {"ACTIVE", "ERASED"}, epoch : 0 .. 1]]
  /\ addresses \subseteq AddressRow
  /\ heldBy \in [ApiAccount -> SUBSET ApiCall]
  /\ calls \in [ApiCall -> CallRecord]

InTransaction(c) == calls[c].at \in {"rewrites", "inserts"}

\* A call that is about to write holds the row of its account, alone.
HoldsAlone == \A c \in ApiCall : InTransaction(c) => heldBy[WishOf(c).a] = {c}

\* Whose row it holds was not erased, and one that is about to create has found no address of the purpose under the hold.
HoldsAnother(c) == CallAt(c, "inserts") => \A r \in addresses : ~(r.a = WishOf(c).a /\ r.purpose = WishOf(c).purpose)
StandsWhileHeld == \A c \in ApiCall : InTransaction(c) => member[WishOf(c).a].status = "ACTIVE" /\ HoldsAnother(c)

\* Only a call that saves comes to the hold, and one that sells was let in by the brand of its account.
CameBy ==
  \A c \in ApiCall :
    /\ calls[c].at \in {"updates", "creates", "rewrites", "inserts"} => WishOf(c).route = "save_address"
    /\ CallAt(c, "routed") /\ NamesBrand(WishOf(c)) => WishOf(c).brand = BrandOf[WishOf(c).a]

ApiIInv == ApiShape /\ HoldsAlone /\ StandsWhileHeld /\ CameBy /\ NoAddressCollides /\ ErasedHasNoAddress /\ SoldInsideItsBrand /\ AnsweredAreOwn

\* What was held before: a payment is of the account whose subscription it pays.
PaymentsFollow == \A p, s \in Held : p.kind = "payment" /\ s.kind = "subscription" /\ p.of = s.id => p.a = s.a

\* A record of the account of w.
Own(id, w) == \E h \in Held : h.id = id /\ h.a = w.a

-----------------------------------------------------------------------------
\* Whatever a route of the application reads is of the account of the token.
LEMMA ReadIsOwn ==
  ASSUME PaymentsFollow, NEW w \in Wish, NEW id \in ReadBy(w)
  PROVE  Own(id, w)
<1>1. \A kind : \A i \in OfKind(kind, w.a) : Own(i, w)
  BY DEF OfKind, Own
<1>2. \A i \in list_transactions(w) : Own(i, w)
  BY DEF list_transactions, OfKind, Own, PaymentsFollow
<1>3. \A i \in read_purchase(w) : Own(i, w)
  BY <1>1 DEF read_purchase
<1>4. \/ \E kind \in {"entitlement", "balance", "credit", "subscription", "product", "purchase"} : id \in OfKind(kind, w.a)
      \/ id \in list_transactions(w)
      \/ id \in read_purchase(w)
  BY DEF ReadBy, list_entitlements, list_balances, list_credits, list_me, list_owned, list_purchases, Wish, ApiRoute
<1> QED
  BY <1>1, <1>2, <1>3, <1>4

\* A call that goes on keeps what it asks, found and shows, and the others are as they were.
LEMMA CallGoes ==
  ASSUME ApiShape, NEW c \in ApiCall, NEW at \in ApiPlace, Goes(c, at)
  PROVE  /\ calls' \in [ApiCall -> CallRecord]
         /\ calls'[c].at = at /\ calls'[c].wish = calls[c].wish /\ calls'[c].shows = calls[c].shows
         /\ \A d \in ApiCall : d # c => calls'[d] = calls[d]
         /\ \A d \in ApiCall : calls'[d].wish = calls[d].wish
<1> DEFINE new == [calls[c] EXCEPT !.at = at]
<1>1. calls[c] \in CallRecord
  BY DEF ApiShape
<1>2. new \in CallRecord /\ new.at = at /\ new.wish = calls[c].wish /\ new.shows = calls[c].shows
  BY <1>1 DEF CallRecord
<1>3. calls' = [calls EXCEPT ![c] = new]
  BY DEF Goes
<1> QED
  BY <1>2, <1>3 DEF ApiShape

LEMMA CallAnswers ==
  ASSUME ApiShape, NEW c \in ApiCall, NEW shows \in SUBSET Showable, Answered(c, shows)
  PROVE  /\ calls' \in [ApiCall -> CallRecord]
         /\ calls'[c].at = "answered" /\ calls'[c].wish = calls[c].wish /\ calls'[c].shows = shows
         /\ \A d \in ApiCall : d # c => calls'[d] = calls[d]
         /\ \A d \in ApiCall : calls'[d].wish = calls[d].wish
<1> DEFINE new == [calls[c] EXCEPT !.at = "answered", !.shows = shows]
<1>1. calls[c] \in CallRecord
  BY DEF ApiShape
<1>2. new \in CallRecord /\ new.at = "answered" /\ new.wish = calls[c].wish /\ new.shows = shows
  BY <1>1 DEF CallRecord, ApiPlace
<1>3. calls' = [calls EXCEPT ![c] = new]
  BY DEF Answered
<1> QED
  BY <1>2, <1>3 DEF ApiShape

\* A call finds the row of its purpose, or none, and goes to the hold.
LEMMA CallFinds ==
  ASSUME ApiShape, NEW c \in ApiCall, NEW at \in ApiPlace, NEW found \in SUBSET AddressRow,
         calls' = [calls EXCEPT ![c].at = at, ![c].found = found]
  PROVE  /\ calls' \in [ApiCall -> CallRecord]
         /\ calls'[c].at = at /\ calls'[c].wish = calls[c].wish /\ calls'[c].shows = calls[c].shows
         /\ \A d \in ApiCall : d # c => calls'[d] = calls[d]
         /\ \A d \in ApiCall : calls'[d].wish = calls[d].wish
<1> DEFINE new == [calls[c] EXCEPT !.at = at, !.found = found]
<1>1. calls[c] \in CallRecord
  BY DEF ApiShape
<1>2. new \in CallRecord /\ new.at = at /\ new.wish = calls[c].wish /\ new.shows = calls[c].shows
  BY <1>1 DEF CallRecord
<1>3. calls' = [calls EXCEPT ![c] = new]
  OBVIOUS
<1> QED
  BY <1>2, <1>3 DEF ApiShape
-----------------------------------------------------------------------------
\* What a step of one call leaves of the others.
CallMoves(c) ==
  /\ calls' \in [ApiCall -> CallRecord]
  /\ \A d \in ApiCall : d # c => calls'[d] = calls[d]
  /\ \A d \in ApiCall : calls'[d].wish = calls[d].wish

\* A step that writes no address, holds no account and comes to no transaction disturbs nobody's hold.
LEMMA QuietStep ==
  ASSUME ApiIInv, NEW c \in ApiCall, CallMoves(c), calls'[c].at \notin {"rewrites", "inserts", "collided"},
         member' = member, heldBy' = heldBy, addresses' \subseteq addresses
  PROVE  ApiShape' /\ HoldsAlone' /\ StandsWhileHeld' /\ NoAddressCollides' /\ ErasedHasNoAddress'
<1>1. ApiShape'
  BY DEF ApiIInv, ApiShape, CallMoves
<1>2. HoldsAlone'
  BY DEF ApiIInv, CallMoves, HoldsAlone, InTransaction, WishOf
<1>3. StandsWhileHeld'
  BY DEF ApiIInv, CallMoves, StandsWhileHeld, InTransaction, HoldsAnother, CallAt, WishOf
<1>4. NoAddressCollides'
  BY DEF ApiIInv, CallMoves, NoAddressCollides, CallAt
<1>5. ErasedHasNoAddress'
  BY DEF ApiIInv, ErasedHasNoAddress
<1> QED
  BY <1>1, <1>2, <1>3, <1>4, <1>5

\* A call that did not answer leaves the answers, the sales and the ways the others came by.
LEMMA NoAnswer ==
  ASSUME ApiIInv, NEW c \in ApiCall, CallMoves(c), calls'[c].at \notin {"answered", "routed"}, sales' = sales,
         calls'[c].at \in {"updates", "creates", "rewrites", "inserts"} => calls[c].wish.route = "save_address"
  PROVE  CameBy' /\ SoldInsideItsBrand' /\ AnsweredAreOwn'
<1>1. CameBy'
  BY DEF ApiIInv, CallMoves, CameBy, CallAt, WishOf, NamesBrand
<1>2. SoldInsideItsBrand'
  BY DEF ApiIInv, SoldInsideItsBrand
<1>3. AnsweredAreOwn'
  BY DEF ApiIInv, CallMoves, AnsweredAreOwn, CallAt, WishOf
<1> QED
  BY <1>1, <1>2, <1>3

\* A call that answers with records of its own account, or with addresses, leaves the answers own.
LEMMA OwnAnswer ==
  ASSUME ApiIInv, NEW c \in ApiCall, CallMoves(c), calls'[c].at = "answered",
         \/ \A id \in calls'[c].shows : Own(id, calls[c].wish)
         \/ calls[c].wish.route \in {"list_addresses", "save_address"}
  PROVE  CameBy' /\ AnsweredAreOwn'
<1>1. CameBy'
  BY DEF ApiIInv, CallMoves, CameBy, CallAt, WishOf, NamesBrand
<1>2. AnsweredAreOwn'
  BY DEF ApiIInv, CallMoves, AnsweredAreOwn, CallAt, WishOf, Own
<1> QED
  BY <1>1, <1>2

-----------------------------------------------------------------------------
\* The account is read before the route, and one that sells is of the brand named.
LEMMA AuthenticatesKeeps ==
  ASSUME ApiIInv, NEW c \in ApiCall, Authenticates(c)
  PROVE  ApiIInv'
<1> DEFINE w == calls[c].wish
           at == IF (IF NamesBrand(w) THEN get_brand_account(w) ELSE load_user(w)) THEN "routed" ELSE "refused"
<1>1. at \in ApiPlace /\ Goes(c, at) /\ ApiShape
  BY DEF Authenticates, ApiPlace, ApiIInv
<1>2. CallMoves(c) /\ calls'[c].at = at /\ calls'[c].wish = w
  BY <1>1, CallGoes DEF CallMoves
<1>3. at = "routed" /\ NamesBrand(w) => w.brand = BrandOf[w.a]
  BY DEF get_brand_account
<1>4. CameBy'
  <2> HIDE DEF at
  <2>1. at \notin {"updates", "creates", "rewrites", "inserts"}
    BY DEF at
  <2> QED
    BY <1>2, <1>3, <2>1 DEF ApiIInv, CallMoves, CameBy, CallAt, WishOf, NamesBrand
<1>5. UNCHANGED <<member, addresses, sales, heldBy>>
  BY DEF Authenticates
<1>6. ApiShape' /\ HoldsAlone' /\ StandsWhileHeld' /\ NoAddressCollides' /\ ErasedHasNoAddress'
  BY <1>2, <1>5, QuietStep
<1>7. SoldInsideItsBrand' /\ AnsweredAreOwn'
  BY <1>2, <1>5 DEF ApiIInv, CallMoves, SoldInsideItsBrand, AnsweredAreOwn, CallAt, WishOf
<1> QED
  BY <1>4, <1>6, <1>7 DEF ApiIInv

\* A route that reads answers with records of the account of its token.
LEMMA ReadsKeeps ==
  ASSUME PaymentsFollow, ApiIInv, NEW c \in ApiCall, Reads(c)
  PROVE  ApiIInv'
<1> DEFINE w == calls[c].wish
<1>1. w \in Wish /\ ApiShape
  BY DEF ApiIInv, ApiShape, CallRecord
<1>2. \A id \in ReadBy(w) : Own(id, w)
  BY <1>1, ReadIsOwn
<1>3. ReadBy(w) \in SUBSET Showable
  BY <1>2 DEF Own, Showable
<1>4. Answered(c, ReadBy(w)) /\ UNCHANGED <<member, addresses, sales, heldBy>>
  BY DEF Reads
<1>5. CallMoves(c) /\ calls'[c].at = "answered" /\ calls'[c].shows = ReadBy(w)
  BY <1>1, <1>3, <1>4, CallAnswers DEF CallMoves
<1>6. ApiShape' /\ HoldsAlone' /\ StandsWhileHeld' /\ NoAddressCollides' /\ ErasedHasNoAddress'
  BY <1>4, <1>5, QuietStep
<1>7. CameBy' /\ AnsweredAreOwn'
  BY <1>2, <1>5, OwnAnswer
<1>8. SoldInsideItsBrand'
  BY <1>4 DEF ApiIInv, SoldInsideItsBrand
<1> QED
  BY <1>6, <1>7, <1>8 DEF ApiIInv

\* What is sold is of the brand the call names, which is that of its account.
LEMMA SellsKeeps ==
  ASSUME ApiIInv, NEW c \in ApiCall, buy_product_call(c) \/ subscribe_to_plan(c)
  PROVE  ApiIInv'
<1> DEFINE w == calls[c].wish
<1>1. w.brand = BrandOf[w.a] /\ ApiShape
  BY DEF ApiIInv, CameBy, buy_product_call, subscribe_to_plan, WishOf, NamesBrand
<1>2. Answered(c, {}) /\ UNCHANGED <<member, addresses, heldBy>>
  BY DEF buy_product_call, subscribe_to_plan
<1>3. CallMoves(c) /\ calls'[c].at = "answered" /\ calls'[c].shows = {}
  BY <1>1, <1>2, CallAnswers DEF CallMoves
<1>4. ApiShape' /\ HoldsAlone' /\ StandsWhileHeld' /\ NoAddressCollides' /\ ErasedHasNoAddress'
  BY <1>2, <1>3, QuietStep
<1>5. CameBy' /\ AnsweredAreOwn'
  BY <1>3, OwnAnswer
<1>6. SoldInsideItsBrand'
  <2>1. \A s \in sales' : s \in sales \/ (s.a = w.a /\ s.brand = w.brand)
    BY DEF buy_product_call, subscribe_to_plan
  <2> QED
    BY <1>1, <2>1 DEF ApiIInv, SoldInsideItsBrand
<1> QED
  BY <1>4, <1>5, <1>6 DEF ApiIInv

\* The addresses of the account are listed.
LEMMA ListsKeeps ==
  ASSUME ApiIInv, NEW c \in ApiCall, list_addresses(c)
  PROVE  ApiIInv'
<1> DEFINE shown == {<<r.a, r.purpose>> : r \in {k \in addresses : k.a = calls[c].wish.a}}
<1>1. ApiShape /\ calls[c].wish.route = "list_addresses"
  BY DEF ApiIInv, list_addresses, WishOf
<1>2. shown \in SUBSET Showable
  BY <1>1 DEF ApiShape, AddressRow, Showable
<1>3. Answered(c, shown) /\ UNCHANGED <<member, addresses, sales, heldBy>>
  BY DEF list_addresses, WishOf
<1>4. CallMoves(c) /\ calls'[c].at = "answered"
  BY <1>1, <1>2, <1>3, CallAnswers DEF CallMoves
<1>5. ApiShape' /\ HoldsAlone' /\ StandsWhileHeld' /\ NoAddressCollides' /\ ErasedHasNoAddress'
  BY <1>3, <1>4, QuietStep
<1>6. CameBy' /\ AnsweredAreOwn'
  BY <1>1, <1>4, OwnAnswer
<1>7. SoldInsideItsBrand'
  BY <1>3 DEF ApiIInv, SoldInsideItsBrand
<1> QED
  BY <1>5, <1>6, <1>7 DEF ApiIInv

\* A call that saves looks for the row of its purpose and goes to the hold.
LEMMA SavesKeeps ==
  ASSUME ApiIInv, NEW c \in ApiCall, save_address_call(c)
  PROVE  ApiIInv'
<1> DEFINE found == Kept_address(calls[c].wish)
           at == IF found # {} THEN "updates" ELSE "creates"
<1>1. ApiShape /\ calls[c].wish.route = "save_address"
  BY DEF ApiIInv, save_address_call, WishOf
<1>2. found \in SUBSET AddressRow /\ at \in ApiPlace /\ calls' = [calls EXCEPT ![c].at = at, ![c].found = found]
  BY <1>1 DEF ApiShape, Kept_address, ApiPlace, save_address_call, WishOf
<1>3. CallMoves(c) /\ calls'[c].at = at
  <2> HIDE DEF at, found
  <2> QED
    BY <1>1, <1>2, CallFinds DEF CallMoves
<1>4. UNCHANGED <<member, addresses, sales, heldBy>>
  BY DEF save_address_call
<1>5. ApiShape' /\ HoldsAlone' /\ StandsWhileHeld' /\ NoAddressCollides' /\ ErasedHasNoAddress'
  BY <1>3, <1>4, QuietStep
<1>6. CameBy' /\ SoldInsideItsBrand' /\ AnsweredAreOwn'
  BY <1>1, <1>3, <1>4, NoAnswer
<1> QED
  BY <1>5, <1>6 DEF ApiIInv

\* The row found goes, and nobody holds an account for it.
LEMMA RemovesKeeps ==
  ASSUME ApiIInv, NEW c \in ApiCall, remove_address(c)
  PROVE  ApiIInv'
<1>1. ApiShape /\ {} \in SUBSET Showable
  BY DEF ApiIInv
<1>2. Answered(c, {}) /\ UNCHANGED <<member, sales, heldBy>> /\ addresses' \subseteq addresses
  BY DEF remove_address
<1>3. CallMoves(c) /\ calls'[c].at = "answered" /\ calls'[c].shows = {}
  BY <1>1, <1>2, CallAnswers DEF CallMoves
<1>4. ApiShape' /\ HoldsAlone' /\ StandsWhileHeld' /\ NoAddressCollides' /\ ErasedHasNoAddress'
  BY <1>2, <1>3, QuietStep
<1>5. CameBy' /\ AnsweredAreOwn'
  BY <1>3, OwnAnswer
<1>6. SoldInsideItsBrand'
  BY <1>2 DEF ApiIInv, SoldInsideItsBrand
<1> QED
  BY <1>4, <1>5, <1>6 DEF ApiIInv

\* An account nobody holds is held by the call that writes, unless it was erased or the purpose has an address by then.
LEMMA HoldKeeps ==
  ASSUME ApiIInv, NEW c \in ApiCall, hold(c)
  PROVE  ApiIInv'
<1> DEFINE w == calls[c].wish
           refused == member[w.a].status = "ERASED" \/ (CallAt(c, "creates") /\ Kept_address(w) # {})
           at == IF CallAt(c, "updates") THEN "rewrites" ELSE "inserts"
<1>1. ApiShape /\ w \in Wish /\ w.a \in ApiAccount /\ w.route = "save_address"
  BY DEF ApiIInv, ApiShape, CallRecord, Wish, CameBy, hold, WishOf
<1>2. calls[c].at \in {"updates", "creates"} /\ heldBy[w.a] = {} /\ UNCHANGED <<member, addresses, sales>>
  BY DEF hold, WishOf
<1>3. CASE refused
  <2>1. Goes(c, "refused") /\ UNCHANGED heldBy /\ "refused" \in ApiPlace
    BY <1>3 DEF hold, WishOf, ApiPlace
  <2>2. CallMoves(c) /\ calls'[c].at = "refused"
    BY <1>1, <2>1, CallGoes DEF CallMoves
  <2>3. ApiShape' /\ HoldsAlone' /\ StandsWhileHeld' /\ NoAddressCollides' /\ ErasedHasNoAddress'
    BY <1>2, <2>1, <2>2, QuietStep
  <2>4. CameBy' /\ SoldInsideItsBrand' /\ AnsweredAreOwn'
    BY <1>2, <2>2, NoAnswer
  <2> QED
    BY <2>3, <2>4 DEF ApiIInv
<1>4. CASE ~refused
  <2>1. Goes(c, at) /\ heldBy' = [heldBy EXCEPT ![w.a] = {c}] /\ at \in ApiPlace
    BY <1>4 DEF hold, WishOf, ApiPlace
  <2>2. CallMoves(c) /\ calls'[c].at = at /\ calls'[c].wish = w
    BY <1>1, <2>1, CallGoes DEF CallMoves
  <2>3. at \in {"rewrites", "inserts"}
    OBVIOUS
  <2>4. heldBy' \in [ApiAccount -> SUBSET ApiCall] /\ heldBy'[w.a] = {c} /\ \A a \in ApiAccount : a # w.a => heldBy'[a] = heldBy[a]
    BY <1>1, <2>1 DEF ApiShape
  <2>5. ApiShape'
    BY <1>2, <2>2, <2>4 DEF ApiIInv, ApiShape, CallMoves
  <2>6. HoldsAlone'
    <3> SUFFICES ASSUME NEW d \in ApiCall, InTransaction(d)' PROVE heldBy'[calls'[d].wish.a] = {d}
      BY DEF HoldsAlone, WishOf
    <3>1. CASE d = c
      BY <2>2, <2>4, <3>1
    <3>2. CASE d # c
      <4>1. calls'[d] = calls[d] /\ InTransaction(d) /\ calls[d].wish.a \in ApiAccount
        BY <2>2, <3>2 DEF CallMoves, InTransaction, ApiIInv, ApiShape, CallRecord, Wish
      <4>2. heldBy[calls[d].wish.a] = {d}
        BY <4>1 DEF ApiIInv, HoldsAlone, WishOf
      <4> QED
        BY <1>2, <2>4, <4>1, <4>2
    <3> QED
      BY <3>1, <3>2
  <2>7. StandsWhileHeld'
    <3>1. member[w.a].status = "ACTIVE"
      BY <1>1, <1>4 DEF ApiShape
    <3>2. at = "inserts" => \A r \in addresses : ~(r.a = w.a /\ r.purpose = w.purpose)
      BY <1>2, <1>4 DEF Kept_address, CallAt
    <3> HIDE DEF at
    <3> QED
      BY <1>2, <2>2, <3>1, <3>2 DEF ApiIInv, CallMoves, StandsWhileHeld, InTransaction, HoldsAnother, CallAt, WishOf
  <2>8. NoAddressCollides' /\ ErasedHasNoAddress'
    BY <1>2, <2>2, <2>3 DEF ApiIInv, CallMoves, NoAddressCollides, ErasedHasNoAddress, CallAt
  <2>9. CameBy' /\ SoldInsideItsBrand' /\ AnsweredAreOwn'
    BY <1>1, <1>2, <2>2, <2>3, NoAnswer
  <2> QED
    BY <2>5, <2>6, <2>7, <2>8, <2>9 DEF ApiIInv
<1> QED
  BY <1>3, <1>4

\* The write under the hold never meets the index, and gives the account back.
LEMMA WritesKeeps ==
  ASSUME ApiIInv, NEW c \in ApiCall, WritesAddress(c)
  PROVE  ApiIInv'
<1> DEFINE w == calls[c].wish
           new == [a |-> w.a, purpose |-> w.purpose, by |-> c]
           shown == {<<w.a, w.purpose>>}
<1>1. ApiShape /\ w \in Wish /\ w.a \in ApiAccount /\ w.purpose \in Purpose /\ InTransaction(c) /\ w.route = "save_address"
  BY DEF ApiIInv, ApiShape, CallRecord, Wish, CameBy, WritesAddress, WishOf, InTransaction
<1>2. heldBy[w.a] = {c} /\ member[w.a].status = "ACTIVE" /\ HoldsAnother(c)
  BY <1>1 DEF ApiIInv, HoldsAlone, StandsWhileHeld, WishOf
<1>3. ~(CallAt(c, "inserts") /\ Kept_address(w) # {})
  BY <1>2 DEF HoldsAnother, Kept_address, WishOf
<1>4. Goes(c, "broke") \/ Answered(c, shown)
  BY <1>3 DEF WritesAddress, WishOf
<1>5. "broke" \in ApiPlace /\ shown \in SUBSET Showable
  BY <1>1 DEF ApiPlace, Showable
<1>6. CallMoves(c) /\ calls'[c].at \in {"broke", "answered"}
  <2>1. CASE Goes(c, "broke")
    BY <1>1, <1>5, <2>1, CallGoes DEF CallMoves
  <2>2. CASE Answered(c, shown)
    BY <1>1, <1>5, <2>2, CallAnswers DEF CallMoves
  <2> QED
    BY <1>4, <2>1, <2>2
<1>7. UNCHANGED <<member, sales>> /\ heldBy' = [heldBy EXCEPT ![w.a] = @ \ {c}]
  BY DEF WritesAddress, WishOf
<1>8. \A r \in addresses' : r \in addresses \/ r = new
  BY DEF WritesAddress, WishOf
<1>9. new \in AddressRow /\ new.a = w.a
  BY <1>1 DEF AddressRow
<1>10. heldBy' \in [ApiAccount -> SUBSET ApiCall] /\ \A a \in ApiAccount : a # w.a => heldBy'[a] = heldBy[a]
  BY <1>1, <1>7 DEF ApiShape
<1>11. \A d \in ApiCall : InTransaction(d)' => /\ d # c /\ calls'[d] = calls[d] /\ InTransaction(d)
                                               /\ calls[d].wish.a \in ApiAccount /\ calls[d].wish.a # w.a
  <2> SUFFICES ASSUME NEW d \in ApiCall, InTransaction(d)'
               PROVE /\ d # c /\ calls'[d] = calls[d] /\ InTransaction(d)
                     /\ calls[d].wish.a \in ApiAccount /\ calls[d].wish.a # w.a
    OBVIOUS
  <2>1. d # c /\ calls'[d] = calls[d] /\ InTransaction(d)
    BY <1>6 DEF CallMoves, InTransaction
  <2>2. calls[d].wish.a \in ApiAccount
    BY DEF ApiIInv, ApiShape, CallRecord, Wish
  <2>3. heldBy[calls[d].wish.a] = {d}
    BY <2>1 DEF ApiIInv, HoldsAlone, WishOf
  <2> QED
    BY <1>2, <2>1, <2>2, <2>3
<1>12. ApiShape'
  BY <1>6, <1>7, <1>8, <1>9, <1>10 DEF ApiIInv, ApiShape, CallMoves
<1>13. HoldsAlone'
  BY <1>10, <1>11 DEF ApiIInv, HoldsAlone, WishOf
<1>14. StandsWhileHeld'
  BY <1>7, <1>8, <1>9, <1>11 DEF ApiIInv, StandsWhileHeld, HoldsAnother, CallAt, WishOf
<1>15. NoAddressCollides' /\ ErasedHasNoAddress'
  BY <1>2, <1>6, <1>7, <1>8, <1>9 DEF ApiIInv, CallMoves, NoAddressCollides, ErasedHasNoAddress, CallAt
<1>16. CameBy' /\ SoldInsideItsBrand' /\ AnsweredAreOwn'
  <2>1. CASE calls'[c].at = "broke"
    BY <1>6, <1>7, <2>1, NoAnswer
  <2>2. CASE calls'[c].at = "answered"
    <3>1. CameBy' /\ AnsweredAreOwn'
      BY <1>1, <1>6, <2>2, OwnAnswer
    <3> QED
      BY <1>7, <3>1 DEF ApiIInv, SoldInsideItsBrand
  <2> QED
    BY <1>6, <2>1, <2>2
<1> QED
  BY <1>12, <1>13, <1>14, <1>15, <1>16 DEF ApiIInv

\* An account is erased with its addresses, while nobody holds it.
LEMMA ErasesKeeps ==
  ASSUME ApiIInv, NEW c \in ApiCall, erase_me(c)
  PROVE  ApiIInv'
<1> DEFINE w == calls[c].wish
<1>1. ApiShape /\ w.a \in ApiAccount /\ {} \in SUBSET Showable /\ "refused" \in ApiPlace
  BY DEF ApiIInv, ApiShape, CallRecord, Wish, ApiPlace
<1>2. heldBy[w.a] = {} /\ UNCHANGED <<sales, heldBy>>
  BY DEF erase_me, WishOf
<1>3. CASE member[w.a].status = "ERASED"
  <2>1. Goes(c, "refused") /\ UNCHANGED <<member, addresses>>
    BY <1>3 DEF erase_me, WishOf
  <2>2. CallMoves(c) /\ calls'[c].at = "refused"
    BY <1>1, <2>1, CallGoes DEF CallMoves
  <2>3. ApiShape' /\ HoldsAlone' /\ StandsWhileHeld' /\ NoAddressCollides' /\ ErasedHasNoAddress'
    BY <1>2, <2>1, <2>2, QuietStep
  <2>4. CameBy' /\ SoldInsideItsBrand' /\ AnsweredAreOwn'
    BY <1>2, <2>2, NoAnswer
  <2> QED
    BY <2>3, <2>4 DEF ApiIInv
<1>4. CASE member[w.a].status # "ERASED"
  <2>1. /\ member' = [member EXCEPT ![w.a].status = "ERASED"]
        /\ addresses' = {r \in addresses : r.a # w.a}
        /\ Answered(c, {})
    BY <1>4 DEF erase_me, WishOf
  <2>2. CallMoves(c) /\ calls'[c].at = "answered" /\ calls'[c].shows = {}
    BY <1>1, <2>1, CallAnswers DEF CallMoves
  <2>3. /\ member' \in [ApiAccount -> [status : {"ACTIVE", "ERASED"}, epoch : 0 .. 1]]
        /\ \A a \in ApiAccount : a # w.a => member'[a] = member[a]
    BY <1>1, <2>1 DEF ApiShape
  <2>4. ApiShape'
    BY <1>2, <2>1, <2>2, <2>3 DEF ApiIInv, ApiShape, CallMoves
  <2>5. \A d \in ApiCall : InTransaction(d)' => /\ calls'[d] = calls[d] /\ InTransaction(d)
                                                /\ calls[d].wish.a \in ApiAccount /\ calls[d].wish.a # w.a
    <3> SUFFICES ASSUME NEW d \in ApiCall, InTransaction(d)'
                 PROVE /\ calls'[d] = calls[d] /\ InTransaction(d)
                       /\ calls[d].wish.a \in ApiAccount /\ calls[d].wish.a # w.a
      OBVIOUS
    <3>1. calls'[d] = calls[d] /\ InTransaction(d)
      BY <2>2 DEF CallMoves, InTransaction
    <3>2. calls[d].wish.a \in ApiAccount
      BY DEF ApiIInv, ApiShape, CallRecord, Wish
    <3>3. heldBy[calls[d].wish.a] = {d}
      BY <3>1 DEF ApiIInv, HoldsAlone, WishOf
    <3> QED
      BY <1>2, <3>1, <3>2, <3>3
  <2>6. HoldsAlone'
    BY <1>2, <2>5 DEF ApiIInv, HoldsAlone, WishOf
  <2>7. StandsWhileHeld'
    BY <2>1, <2>3, <2>5 DEF ApiIInv, StandsWhileHeld, HoldsAnother, CallAt, WishOf
  <2>8. NoAddressCollides'
    BY <2>2 DEF ApiIInv, CallMoves, NoAddressCollides, CallAt
  <2>9. ErasedHasNoAddress'
    <3>1. \A r \in addresses' : r \in addresses /\ r.a # w.a /\ r.a \in ApiAccount
      BY <1>1, <2>1 DEF ApiShape, AddressRow
    <3> QED
      BY <2>3, <3>1 DEF ApiIInv, ErasedHasNoAddress
  <2>10. CameBy' /\ AnsweredAreOwn'
    BY <2>2, OwnAnswer
  <2>11. SoldInsideItsBrand'
    BY <1>2 DEF ApiIInv, SoldInsideItsBrand
  <2> QED
    BY <2>4, <2>6, <2>7, <2>8, <2>9, <2>10, <2>11 DEF ApiIInv
<1> QED
  BY <1>3, <1>4

\* The sessions of an account end, and nothing else of it changes.
LEMMA SessionsEndKeeps ==
  ASSUME ApiIInv, NEW a \in ApiAccount, SessionsEnd(a)
  PROVE  ApiIInv'
<1>1. UNCHANGED <<addresses, sales, calls, heldBy>> /\ member' = [member EXCEPT ![a].epoch = 1] /\ ApiShape
  BY DEF SessionsEnd, ApiIInv
<1>2. /\ member' \in [ApiAccount -> [status : {"ACTIVE", "ERASED"}, epoch : 0 .. 1]]
      /\ \A b \in ApiAccount : member'[b].status = member[b].status
  BY <1>1 DEF ApiShape
<1>3. ApiShape' /\ HoldsAlone' /\ CameBy' /\ NoAddressCollides' /\ SoldInsideItsBrand' /\ AnsweredAreOwn'
  BY <1>1, <1>2 DEF ApiIInv, ApiShape, HoldsAlone, InTransaction, CameBy, NoAddressCollides, SoldInsideItsBrand, AnsweredAreOwn, CallAt, WishOf, NamesBrand
<1>4. StandsWhileHeld'
  <2>1. \A d \in ApiCall : calls[d].wish.a \in ApiAccount
    BY <1>1 DEF ApiShape, CallRecord, Wish
  <2> QED
    BY <1>1, <1>2, <2>1 DEF ApiIInv, StandsWhileHeld, InTransaction, HoldsAnother, CallAt, WishOf
<1>5. ErasedHasNoAddress'
  <2>1. \A r \in addresses : r.a \in ApiAccount
    BY <1>1 DEF ApiShape, AddressRow
  <2> QED
    BY <1>1, <1>2, <2>1 DEF ApiIInv, ErasedHasNoAddress
<1> QED
  BY <1>3, <1>4, <1>5 DEF ApiIInv

\* Every step of the application's calls keeps the invariant.
LEMMA ApiStep ==
  ASSUME PaymentsFollow, ApiIInv, ApiNext
  PROVE  ApiIInv'
<1>1. CASE \E c \in ApiCall :
             \/ Authenticates(c) \/ Reads(c) \/ buy_product_call(c) \/ subscribe_to_plan(c)
             \/ list_addresses(c) \/ save_address_call(c) \/ hold(c) \/ WritesAddress(c) \/ remove_address(c) \/ erase_me(c)
  BY <1>1, AuthenticatesKeeps, ReadsKeeps, SellsKeeps, ListsKeeps, SavesKeeps, HoldKeeps, WritesKeeps, RemovesKeeps, ErasesKeeps
<1>2. CASE \E a \in ApiAccount : SessionsEnd(a)
  BY <1>2, SessionsEndKeeps
<1> QED
  BY <1>1, <1>2 DEF ApiNext

\* Before any call, nobody holds an account and no address or purchase was written.
LEMMA ApiStart ==
  ASSUME ApiWishes \subseteq [ApiCall -> Wish], ApiInit
  PROVE  ApiIInv
<1>1. PICK ws \in ApiWishes : calls = [c \in ApiCall |-> [wish |-> ws[c], at |-> "called", found |-> {}, shows |-> {}]]
  BY DEF ApiInit
<1>2. calls \in [ApiCall -> CallRecord] /\ \A c \in ApiCall : calls[c].at = "called"
  BY <1>1 DEF CallRecord, ApiPlace
<1> QED
  BY <1>2 DEF ApiInit, ApiIInv, ApiShape, HoldsAlone, InTransaction, StandsWhileHeld, CameBy, NoAddressCollides, ErasedHasNoAddress, SoldInsideItsBrand, AnsweredAreOwn, CallAt

\* Calls of one account at once never collide on an address (save_address_call looks again under the row of the account), write one back to an account that was
\* erased, sell into another brand or answer with what another account holds; for any accounts and calls, payments being of the account whose subscription they pay.
THEOREM CallsStayOwn ==
  ASSUME PaymentsFollow, ApiWishes \subseteq [ApiCall -> Wish]
  PROVE  ApiInit /\ [][ApiNext]_apiVars => []ApiInv
<1>1. ApiInit => ApiIInv
  BY ApiStart
<1>2. ApiIInv /\ [ApiNext]_apiVars => ApiIInv'
  <2> SUFFICES ASSUME ApiIInv, [ApiNext]_apiVars PROVE ApiIInv'
    OBVIOUS
  <2>1. CASE ApiNext
    BY <2>1, ApiStep
  <2>2. CASE UNCHANGED apiVars
    BY <2>2 DEF apiVars, ApiIInv, ApiShape, HoldsAlone, InTransaction, StandsWhileHeld, HoldsAnother, CameBy, NoAddressCollides, ErasedHasNoAddress,
                SoldInsideItsBrand, AnsweredAreOwn, CallAt, WishOf, NamesBrand
  <2> QED
    BY <2>1, <2>2
<1>3. ApiIInv => ApiInv
  BY DEF ApiIInv, ApiShape, ApiInv, ApiTypeOK, AddressRow, CallRecord, ApiPlace
<1> QED
  BY <1>1, <1>2, <1>3, PTL

-----------------------------------------------------------------------------
\* Letters to an address and requests of a client stay rationed by their windows while the newsletter and the limiter run beside each other, for any number of
\* submits, answers, clients and windows (claim_invitation and BoundedWindows).
THEOREM WindowsAreKept == RationedSpec => []WindowsHold
<1>1. RationedSpec => [](NewsletterTypeOK /\ OneLetterAnHour)
  BY WrittenToOnce DEF RationedSpec
<1>2. RationedSpec => [](RateTypeOK /\ LimitsHold)
  BY InUseIsNotDropped DEF RationedSpec
<1>3. (NewsletterTypeOK /\ OneLetterAnHour) /\ (RateTypeOK /\ LimitsHold) => WindowsHold
  BY DEF WindowsHold
<1> QED
  BY <1>1, <1>2, <1>3, PTL
-----------------------------------------------------------------------------
(* A person on the account pages.                                          *)

\* Where a page may be told to go: never to a page that asks for the token of a letter.
Destination == (SitePages \ {"confirm", "reset"}) \cup {Nowhere, Outside}
SiteUrl == [page : SitePages, next : Destination, id : Record \cup {Nowhere}]
PrivateForms == {"save_profile", "save_avatar", "remove_avatar", "password", "address", "delete", "connections", "product", "plans"}
NoticeName ==
  {Silent, "expired", "signed-in", "signed-up", "sign-up-confirmation-sent", "sign-up-confirmed", "confirmation-token-invalid", "confirmation-resent",
   "recovery-sent", "recovery-token-invalid", "password-changed", "sign-in-code-sent", "profile-saved", "avatar-saved", "avatar-refused",
   "avatar-removed", "address-saved", "social-disconnected", "last-sign-in-method", "account-erased", "checkout-refused", "plan-already-subscribed"}
PersonRow == [status : {"none", "PENDING", "ACTIVE", "ERASED"}, epoch : Nat \ {0}, confirmation : Nat, recovery : Nat,
              held : SUBSET {"confirmation", "recovery"}, drawn : Nat]
FieldValue == Destination \cup {"paid", "pending", "refused"}
ActionName == PrivateForms \cup EntryPages \cup {"confirmation", "logout", Nowhere}
LandedPairs == SUBSET (Destination \X SitePages)
BrowserTab == [at : {"asks", "drawn", "gateway"}, method : {"GET", "POST"}, url : SiteUrl, from : SiteUrl,
               field : FieldValue, action : ActionName,
               form : {"good", "bad", Nowhere}, csrf : {NoCookie, 1}, token : Nat, hops : Nat, shows : SUBSET {"mine"},
               flashes : NoticeName, due : NoticeName, landed : LandedPairs]
LetterSent == [kind : {"confirm", "reset"}, token : Nat \ {0}, next : Destination, goal : Destination]

BrowserShape ==
  /\ asksProof \in BOOLEAN /\ me \in PersonRow /\ sale \in {"none", "PENDING", "PAID", "FAILED"}
  /\ jar \in [session : Nat, flash : NoticeName, csrf : {NoCookie, 1}]
  /\ tab \in BrowserTab /\ mailbox \in SUBSET LetterSent /\ goal \in Destination /\ told \in NoticeName
  /\ clicks \in Nat /\ turns \in Nat

\* A session is of an epoch the account reached, an account that waits has a letter to wait for, and the token of the forms goes only when time passes.
CookiesStand ==
  /\ jar.session <= me.epoch
  /\ me.status = "PENDING" => me.confirmation # 0
  /\ jar.csrf = NoCookie => turns > 0
  /\ jar.flash = told

\* A page drawn has the token of the forms, a form names what its page sends, and one asked of a signed-in person was drawn on no page of signing in.
FormsStand ==
  /\ tab.at = "drawn" => tab.csrf = 1 /\ (tab.url.page \in EntryPages => tab.field \in Destination)
  /\ (tab.at = "asks" /\ tab.method = "POST") =>
       /\ tab.csrf = 1 /\ tab.action # Nowhere
       /\ tab.action \in EntryPages => tab.field \in Destination
       /\ tab.action \in PrivateForms => tab.from.page \notin EntryPages

\* How many more redirects a page asked for may meet, if nothing happens elsewhere.
SignedIn(person, session) == session # NoCookie /\ person.status = "ACTIVE" /\ session = person.epoch
Onward(page, token, person, session) ==
  CASE page \in PrivatePages -> IF SignedIn(person, session) THEN 0 ELSE 1
    [] page \in {"login", "signup"} -> IF SignedIn(person, session) THEN 1 ELSE 0
    [] page = "confirm" -> IF person.status = "PENDING" /\ person.confirmation = token THEN 0 ELSE IF SignedIn(person, session) THEN 2 ELSE 1
    [] page = "reset" -> IF person.recovery = token /\ token # 0 THEN 0 ELSE 1
    [] OTHER -> 0

\* A form is answered once it is read, and goes back to its page first where the token of the forms is gone.
HopsLeft ==
  IF tab.at # "asks" THEN 0
  ELSE IF tab.method = "GET" THEN Onward(tab.url.page, tab.token, me, jar.session)
  ELSE IF jar.csrf = NoCookie THEN 3 ELSE 2

HopsCounted == tab.hops + HopsLeft <= 2 + turns

\* Where a person was stopped on the way to is carried by every page of signing in, by its form, and by the letter.
GoalCarried ==
  /\ goal # Nowhere =>
       /\ landing(goal) = goal
       /\ (tab.at = "asks" /\ tab.method = "GET" /\ tab.url.page \in EntryPages) => landing(tab.url.next) = goal
       /\ (tab.at = "drawn" /\ tab.url.page \in EntryPages) => landing(tab.field) = goal /\ (tab.url.next # Nowhere => landing(tab.url.next) = goal)
       /\ (tab.at = "asks" /\ tab.method = "POST" /\ tab.action \in EntryPages) => landing(tab.field) = goal
       /\ (tab.at = "asks" /\ tab.method = "POST" /\ tab.from.page \in EntryPages /\ tab.from.next # Nowhere) => landing(tab.from.next) = goal
  /\ \A l \in mailbox : l.goal # Nowhere => (landing(l.goal) = l.goal /\ landing(l.next) = l.goal)

BrowserIInv == BrowserShape /\ CookiesStand /\ FormsStand /\ HopsCounted /\ GoalCarried /\ NoticeDrawnOnce /\ LandsWhereWanted

AnswerSet == [kind : {"drawn", "sent", "missing", "left"}, url : SiteUrl, field : FieldValue, notice : NoticeName,
              session : Nat, me : PersonRow, sale : {"none", "PENDING", "PAID", "FAILED"}, mails : SUBSET LetterSent, shows : SUBSET {"mine"},
              stopped : Destination, token : Nat]

\* What an answer keeps of the cookies and of the account.
KeepsSession(a) == a.session <= a.me.epoch /\ (a.me.status = "PENDING" => a.me.confirmation # 0)

\* A redirect is one of those that were left.
HopsLessen(a) == a.kind = "sent" => Onward(a.url.page, a.token, a.me, a.session) < HopsLeft

\* Where the person was going is kept by what is drawn and by where they are sent.
KeepsGoal(a) ==
  /\ a.stopped # Nowhere => a.kind = "sent" /\ a.url = Url("login", a.stopped, Nowhere) /\ landing(a.stopped) = a.stopped /\ ~account_of
  /\ (goal # Nowhere /\ a.stopped = Nowhere /\ a.kind # "left" /\ a.url.page \in EntryPages) =>
       /\ a.url.next # Nowhere => landing(a.url.next) = goal
       /\ a.kind \in {"drawn", "missing"} => landing(a.field) = goal
  /\ (a.kind \in {"drawn", "missing"} /\ a.url.page \in EntryPages) => a.field \in Destination
  /\ (goal # Nowhere /\ Lands(a)) => a.url.page = goal
  /\ \A l \in a.mails : l.goal # Nowhere => (landing(l.goal) = l.goal /\ landing(l.next) = l.goal)

\* Who is sent to a page whose address does not say where they were going was told of a letter, or sent a form of such a page.
TellsWay(a) == (a.kind = "sent" /\ a.stopped = Nowhere /\ a.url.page \in EntryPages /\ a.url.next = Nowhere) => Forgets(a)

Reply(a) == a \in AnswerSet /\ KeepsSession(a) /\ HopsLessen(a) /\ KeepsGoal(a) /\ TellsWay(a)

Asked == BrowserIInv /\ tab.at = "asks"

-----------------------------------------------------------------------------
\* A page of signing in is never where signing in puts somebody, and what it puts them at is kept.
LEMMA LandingStays ==
  ASSUME NEW wanted \in FieldValue
  PROVE  /\ landing(wanted) \notin EntryPages /\ landing(wanted) # Nowhere /\ landing(wanted) # Outside
         /\ landing(landing(wanted)) = landing(wanted) /\ landing(wanted) \in FieldValue
BY DEF landing, inside, Destination, EntryPages, AUTH_PAGES, SitePages, PrivatePages, Nowhere, Outside, FieldValue

LEMMA LandingIsPage ==
  ASSUME NEW wanted \in Destination
  PROVE  landing(wanted) \in SitePages /\ landing(wanted) \in Destination
BY DEF landing, inside, Destination, EntryPages, AUTH_PAGES, SitePages, PrivatePages, Nowhere, Outside, FieldValue

\* What a page asked for may still meet is at most two redirects, and one where it needs no letter.
LEMMA OnwardBound ==
  ASSUME NEW page \in SitePages, NEW token \in Nat, NEW person \in PersonRow, NEW session \in Nat
  PROVE  /\ Onward(page, token, person, session) \in 0..2
         /\ page \notin {"confirm"} => Onward(page, token, person, session) \in 0..1
         /\ (page \notin {"login", "signup", "confirm", "reset"} /\ SignedIn(person, session)) => Onward(page, token, person, session) = 0
BY DEF Onward, SitePages, PrivatePages, AUTH_PAGES

\* The answer every handler begins with.
LEMMA AnswerShape ==
  ASSUME Asked
  PROVE  /\ Answer \in AnswerSet /\ KeepsSession(Answer)
         /\ Answer.kind = "drawn" /\ Answer.url = tab.url /\ Answer.field = Nowhere /\ Answer.session = jar.session /\ Answer.me = me
         /\ Answer.mails = {} /\ Answer.stopped = Nowhere /\ Answer.token = 0
<1>1. /\ tab.url \in SiteUrl /\ jar.session \in Nat /\ me \in PersonRow /\ sale \in {"none", "PENDING", "PAID", "FAILED"}
      /\ jar.session <= me.epoch /\ (me.status = "PENDING" => me.confirmation # 0)
  BY DEF Asked, BrowserIInv, BrowserShape, CookiesStand, BrowserTab
<1>2. Nowhere \in Destination /\ Silent \in NoticeName
  BY DEF Destination, NoticeName
<1>3. Answer \in AnswerSet
  BY <1>1, <1>2 DEF Answer, AnswerSet, FieldValue
<1>4. /\ Answer.kind = "drawn" /\ Answer.url = tab.url /\ Answer.field = Nowhere /\ Answer.session = jar.session /\ Answer.me = me
      /\ Answer.mails = {} /\ Answer.stopped = Nowhere /\ Answer.token = 0
  BY DEF Answer
<1> QED BY <1>1, <1>3, <1>4 DEF KeepsSession

\* No answer that leaves the account and the session as they are opens one.
LEMMA NothingLands ==
  ASSUME Asked, NEW a, a.session = jar.session, a.me = me
  PROVE  ~Lands(a)
BY DEF Asked, BrowserIInv, BrowserShape, PersonRow, Lands, account_of, NoCookie

\* An answer that redirects nobody, over the account and the session as they are.
LEMMA DrawnReply ==
  ASSUME Asked, NEW a \in AnswerSet, a.kind # "sent", a.session = jar.session, a.me = me, a.mails = {}, a.stopped = Nowhere,
         (a.kind # "left" /\ a.url.page \in EntryPages) => a.field \in Destination,
         (goal # Nowhere /\ a.kind # "left" /\ a.url.page \in EntryPages) => (landing(a.field) = goal /\ (a.url.next # Nowhere => landing(a.url.next) = goal))
  PROVE  Reply(a)
<1>1. KeepsSession(a)
  BY DEF Asked, BrowserIInv, CookiesStand, KeepsSession
<1>2. HopsLessen(a)
  BY DEF HopsLessen
<1>3. KeepsGoal(a)
  BY NothingLands DEF KeepsGoal
<1> QED BY <1>1, <1>2, <1>3 DEF Reply, TellsWay

\* A page drawn for a request that asked for it.
LEMMA RenderReply ==
  ASSUME Asked, tab.method = "GET", NEW field \in FieldValue, NEW shows \in SUBSET {"mine"},
         tab.url.page \in EntryPages => field \in Destination,
         (goal # Nowhere /\ tab.url.page \in EntryPages) => landing(field) = goal
  PROVE  Reply(render(field, shows))
<1>1. /\ render(field, shows) \in AnswerSet /\ render(field, shows).kind = "drawn"
      /\ render(field, shows).url = tab.url /\ render(field, shows).mails = {} /\ render(field, shows).stopped = Nowhere /\ render(field, shows).field = field
      /\ render(field, shows).session = jar.session /\ render(field, shows).me = me
  BY AnswerShape DEF render, AnswerSet
<1>2. goal # Nowhere /\ tab.url.page \in EntryPages => landing(tab.url.next) = goal
  BY DEF Asked, BrowserIInv, GoalCarried
<1> QED BY <1>1, <1>2, DrawnReply

\* A redirect that opens no session, and where the page it sends to is told where the person was going.
LEMMA SentReply ==
  ASSUME Asked, NEW a \in AnswerSet, a.kind = "sent", KeepsSession(a), ~Lands(a), a.stopped = Nowhere, a.mails = {},
         Onward(a.url.page, a.token, a.me, a.session) < HopsLeft, TellsWay(a),
         (goal # Nowhere /\ a.url.page \in EntryPages /\ a.url.next # Nowhere) => landing(a.url.next) = goal
  PROVE  Reply(a)
BY DEF Reply, HopsLessen, KeepsGoal

\* A redirect that leaves the account and the session as they are.
LEMMA RedirectReply ==
  ASSUME Asked, NEW url \in SiteUrl, NEW notice \in NoticeName, Onward(url.page, 0, me, jar.session) < HopsLeft,
         (goal # Nowhere /\ url.page \in EntryPages /\ url.next # Nowhere) => landing(url.next) = goal,
         (url.page \in EntryPages /\ url.next = Nowhere) => notice \in LetterNotices
  PROVE  Reply(redirect(url, notice))
<1>1. /\ redirect(url, notice) \in AnswerSet /\ KeepsSession(redirect(url, notice)) /\ redirect(url, notice).kind = "sent"
      /\ redirect(url, notice).url = url /\ redirect(url, notice).mails = {} /\ redirect(url, notice).stopped = Nowhere
      /\ redirect(url, notice).session = jar.session /\ redirect(url, notice).me = me /\ redirect(url, notice).token = 0
      /\ redirect(url, notice).notice = notice
  BY AnswerShape DEF redirect, AnswerSet, KeepsSession
<1>2. ~Lands(redirect(url, notice))
  BY <1>1, NothingLands
<1>3. TellsWay(redirect(url, notice))
  BY <1>1 DEF TellsWay, Forgets
<1> QED BY <1>1, <1>2, <1>3, SentReply

\* Pages opened by somebody who may open them.
LEMMA OpenedReply ==
  ASSUME Asked, tab.method = "GET", tab.url.page \in PrivatePages => account_of
  PROVE  Reply(Opened(tab.url.page))
<1> DEFINE page == tab.url.page
<1>1. /\ tab.url \in SiteUrl /\ page \in SitePages /\ tab.url.next \in Destination /\ tab.token \in Nat /\ me \in PersonRow /\ jar.session \in Nat
      /\ HopsLeft = Onward(page, tab.token, me, jar.session)
  BY DEF Asked, BrowserIInv, BrowserShape, BrowserTab, SiteUrl, HopsLeft
<1>2. account_of <=> SignedIn(me, jar.session)
  BY DEF account_of, SignedIn
<1>3. /\ landing(tab.url.next) \in SitePages /\ landing(tab.url.next) \in Destination /\ landing(tab.url.next) \notin EntryPages
      /\ landing(landing(tab.url.next)) = landing(tab.url.next)
  BY <1>1, LandingIsPage, LandingStays DEF FieldValue
<1>4. goal # Nowhere /\ page \in EntryPages => landing(tab.url.next) = goal
  BY DEF Asked, BrowserIInv, GoalCarried
<1>5. /\ \A p \in SitePages : To(p) \in SiteUrl /\ To(p).page = p /\ To(p).next = Nowhere
      /\ Silent \in NoticeName /\ "confirmation-token-invalid" \in NoticeName /\ "recovery-token-invalid" \in NoticeName
      /\ "confirmation-token-invalid" \in LetterNotices /\ "recovery-token-invalid" \in LetterNotices
      /\ Nowhere \in Destination /\ {} \in SUBSET {"mine"} /\ {"mine"} \in SUBSET {"mine"}
  BY DEF To, Url, SiteUrl, Destination, Record, NoticeName, LetterNotices
<1>6. CASE page \in {"login", "signup"}
  <2>1. CASE account_of
    <3>1. HopsLeft = 1
      BY <1>1, <1>2, <1>6, <2>1 DEF Onward, PrivatePages
    <3>2. Onward(landing(tab.url.next), 0, me, jar.session) = 0
      BY <1>1, <1>2, <1>3, <2>1, OnwardBound DEF EntryPages, AUTH_PAGES
    <3>3. Reply(redirect(To(landing(tab.url.next)), Silent))
      BY <1>3, <1>5, <3>1, <3>2, RedirectReply
    <3> QED BY <1>6, <2>1, <3>3 DEF Opened, login, signup
  <2>2. CASE ~account_of
    <3>1. Reply(render(landing(tab.url.next), {}))
      BY <1>3, <1>4, <1>5, RenderReply DEF FieldValue
    <3> QED BY <1>6, <2>2, <3>1 DEF Opened, login, signup
  <2> QED BY <2>1, <2>2
<1>7. CASE page \in {"recovery", "email-login", "email-code"}
  <2>1. Reply(render(landing(tab.url.next), {}))
    BY <1>3, <1>4, <1>5, RenderReply DEF FieldValue
  <2> QED BY <1>7, <2>1 DEF Opened, password_recovery, email_login, email_code
<1>8. CASE page = "confirm"
  <2>1. Reply(render(tab.url.next, {}))
    BY <1>1, <1>4, <1>5, RenderReply DEF FieldValue
  <2>2. ASSUME ~Waiting(tab.token) PROVE Reply(redirect(To("login"), "confirmation-token-invalid"))
    <3>1. Onward("login", 0, me, jar.session) < HopsLeft
      BY <1>1, <1>8, <2>2 DEF Onward, PrivatePages, Waiting
    <3>2. "login" \in SitePages
      BY DEF SitePages, AUTH_PAGES
    <3> QED BY <1>5, <3>1, <3>2, RedirectReply
  <2> QED BY <1>8, <2>1, <2>2 DEF Opened, confirmation_question
<1>9. CASE page = "reset"
  <2>1. Reply(render(landing(tab.url.next), {}))
    BY <1>3, <1>4, <1>5, RenderReply DEF FieldValue
  <2>2. ASSUME ~recoverable(tab.token) PROVE Reply(redirect(To("recovery"), "recovery-token-invalid"))
    <3>1. Onward("recovery", 0, me, jar.session) < HopsLeft
      BY <1>1, <1>9, <2>2 DEF Onward, PrivatePages, recoverable
    <3>2. "recovery" \in SitePages
      BY DEF SitePages, AUTH_PAGES
    <3> QED BY <1>5, <3>1, <3>2, RedirectReply
  <2> QED BY <1>9, <2>1, <2>2 DEF Opened, reset_password
<1>10. CASE page \notin EntryPages
  <2>1. \A shows \in SUBSET {"mine"} : Reply(render(Nowhere, shows))
    BY <1>5, <1>10, RenderReply DEF FieldValue
  <2>2. Reply(PageNotFound)
    <3>1. /\ PageNotFound \in AnswerSet /\ PageNotFound.kind = "missing" /\ PageNotFound.session = jar.session /\ PageNotFound.me = me
          /\ PageNotFound.mails = {} /\ PageNotFound.stopped = Nowhere /\ PageNotFound.url = tab.url
      BY AnswerShape DEF PageNotFound, AnswerSet
    <3> QED BY <1>10, <3>1, DrawnReply
  <2>3. \A id : find_for_user(id) \in SUBSET {"mine"} /\ mine(id) \in SUBSET {"mine"}
    BY DEF find_for_user, mine
  <2>4. \A shows \in SUBSET {"mine"}, f \in {"paid", "pending", "refused"} : Reply([render(Nowhere, shows) EXCEPT !.field = f])
    <3> TAKE shows \in SUBSET {"mine"}, f \in {"paid", "pending", "refused"}
    <3> DEFINE a == [render(Nowhere, shows) EXCEPT !.field = f]
    <3>1. /\ a \in AnswerSet /\ a.kind = "drawn" /\ a.session = jar.session /\ a.me = me
          /\ a.mails = {} /\ a.stopped = Nowhere /\ a.url = tab.url
      BY AnswerShape DEF render, AnswerSet, FieldValue
    <3>2. Reply(a)
      <4> HIDE DEF a
      <4> QED BY <1>10, <3>1, DrawnReply
    <3> QED BY <3>2 DEF a
  <2>5. CASE page \in {"success", "error"}
    <3>1. Reply(paid) /\ Reply(cancelled)
      BY <2>3, <2>4 DEF paid, cancelled
    <3> QED BY <2>5, <3>1 DEF Opened
  <2>6. CASE page \in {"subscription", "purchase"}
    <3>1. Reply(subscription_page) /\ Reply(purchase)
      BY <2>1, <2>2, <2>3 DEF subscription_page, purchase
    <3> QED BY <2>6, <3>1 DEF Opened
  <2>7. CASE page \notin {"success", "error", "subscription", "purchase"}
    <3>1. Reply(render(Nowhere, {})) /\ Reply(render(Nowhere, {"mine"}))
      BY <1>5, <2>1
    <3> QED BY <1>10, <2>7, <3>1 DEF Opened, EntryPages, AUTH_PAGES, confirmation_page, account, edit_profile, password, address, subscriptions, purchases, owned, credits,
              delete_account, social_connections, list_for_user
  <2> QED BY <2>5, <2>6, <2>7
<1> QED BY <1>6, <1>7, <1>8, <1>9, <1>10 DEF EntryPages, AUTH_PAGES

-----------------------------------------------------------------------------
\* A form that is read: the token of the forms is there.
Submitted == Asked /\ tab.method = "POST" /\ guard

\* What a form may rest on.
LEMMA SubmittedFacts ==
  ASSUME Submitted
  PROVE  /\ Asked /\ HopsLeft = 2 /\ me \in PersonRow /\ me.epoch \in Nat /\ me.epoch # 0 /\ jar.session \in Nat /\ jar.session <= me.epoch
         /\ tab.field \in FieldValue
         /\ tab.action \in EntryPages => (tab.field \in Destination /\ (goal # Nowhere => landing(tab.field) = goal))
         /\ goal # Nowhere => landing(goal) = goal
         /\ \A p \in SitePages : To(p) \in SiteUrl /\ To(p).page = p /\ To(p).next = Nowhere
         /\ \A p \in SitePages, d \in Destination : Url(p, d, Nowhere) \in SiteUrl /\ Url(p, d, Nowhere).page = p /\ Url(p, d, Nowhere).next = d
<1>1. HopsLeft = 2
  BY DEF Submitted, Asked, guard, HopsLeft
<1>2. /\ me \in PersonRow /\ me.epoch \in Nat /\ me.epoch # 0 /\ jar.session \in Nat /\ jar.session <= me.epoch
      /\ tab.field \in FieldValue
  BY DEF Submitted, Asked, BrowserIInv, BrowserShape, BrowserTab, PersonRow, CookiesStand
<1>3. /\ tab.action \in EntryPages => (tab.field \in Destination /\ (goal # Nowhere => landing(tab.field) = goal))
      /\ goal # Nowhere => landing(goal) = goal
  BY DEF Submitted, Asked, BrowserIInv, FormsStand, GoalCarried
<1>4. /\ \A p \in SitePages : To(p) \in SiteUrl /\ To(p).page = p /\ To(p).next = Nowhere
      /\ \A p \in SitePages, d \in Destination : Url(p, d, Nowhere) \in SiteUrl /\ Url(p, d, Nowhere).page = p /\ Url(p, d, Nowhere).next = d
  BY DEF To, Url, SiteUrl, Destination, Record
<1> QED BY <1>1, <1>2, <1>3, <1>4 DEF Submitted

\* What an account may be moved to.
LEMMA PersonFacts ==
  ASSUME me \in PersonRow
  PROVE  /\ NewToken \in Nat /\ NewToken # 0 /\ me.epoch + 1 \in Nat \ {0} /\ {} \in SUBSET {"confirmation", "recovery"}
         /\ me.held \cup {"confirmation"} \in SUBSET {"confirmation", "recovery"} /\ me.held \cup {"recovery"} \in SUBSET {"confirmation", "recovery"}
         /\ me.held \ {"confirmation"} \in SUBSET {"confirmation", "recovery"} /\ me.held \ {"recovery"} \in SUBSET {"confirmation", "recovery"}
BY DEF NewToken, PersonRow

\* A form that opens a session puts the person where they were going, or was sent by somebody who had one.
LEMMA SignInReply ==
  ASSUME Submitted, NEW page \in SitePages, page \notin EntryPages, NEW notice \in NoticeName, NEW person \in PersonRow, person.status = "ACTIVE",
         (goal # Nowhere /\ ~account_of) => page = goal
  PROVE  Reply(sign_in_as(redirect(To(page), notice), person))
<1> DEFINE a == sign_in_as(redirect(To(page), notice), person)
<1>1. /\ a \in AnswerSet /\ a.kind = "sent" /\ a.url = To(page) /\ a.mails = {} /\ a.stopped = Nowhere /\ a.session = person.epoch /\ a.me = person /\ a.token = 0
  BY SubmittedFacts, AnswerShape DEF sign_in_as, redirect, AnswerSet, PersonRow
<1> HIDE DEF a
<1>2. person.epoch \in Nat /\ SignedIn(person, person.epoch)
  BY DEF PersonRow, SignedIn, NoCookie
<1>3. Onward(page, 0, person, person.epoch) = 0
  BY <1>2, OnwardBound DEF EntryPages, AUTH_PAGES
<1>4. KeepsSession(a) /\ HopsLessen(a)
  BY <1>1, <1>2, <1>3, SubmittedFacts DEF KeepsSession, HopsLessen
<1>5. KeepsGoal(a)
  BY <1>1, SubmittedFacts DEF KeepsGoal, Lands
<1>6. Reply(a)
  BY <1>1, <1>4, <1>5, SubmittedFacts DEF Reply, TellsWay
<1> QED BY <1>6 DEF a

\* A form sends on to a page over the account and the session as they are.
LEMMA MovedOnReply ==
  ASSUME Submitted, NEW page \in SitePages, page # "confirm", NEW notice \in NoticeName, page \in EntryPages => notice \in LetterNotices
  PROVE  Reply(redirect(To(page), notice))
<1>1. Onward(page, 0, me, jar.session) < HopsLeft
  BY SubmittedFacts, OnwardBound
<1> QED BY <1>1, SubmittedFacts, RedirectReply

\* A refused form is drawn again with the destination it carried.
LEMMA AgainReply ==
  ASSUME Submitted, NEW page \in SitePages, page \in EntryPages => tab.action \in EntryPages
  PROVE  Reply(again(page))
<1>1. /\ again(page) \in AnswerSet /\ again(page).kind = "drawn" /\ again(page).session = jar.session /\ again(page).me = me
      /\ again(page).mails = {} /\ again(page).stopped = Nowhere /\ again(page).url = To(page) /\ again(page).field = landing(tab.field)
  BY SubmittedFacts, AnswerShape, LandingStays DEF again, AnswerSet
<1>2. page \in EntryPages => landing(tab.field) \in Destination
  BY SubmittedFacts, LandingIsPage
<1>3. page \in EntryPages /\ goal # Nowhere => landing(landing(tab.field)) = goal
  BY SubmittedFacts
<1> QED BY <1>1, <1>2, <1>3, SubmittedFacts, DrawnReply

\* The forms of an account draw their page again, or send on.
LEMMA SavedReply ==
  ASSUME Submitted, NEW page \in SitePages, page \notin EntryPages
  PROVE  Reply([Answer EXCEPT !.url = To(page)]) /\ \A notice \in NoticeName : Reply(Saved(page, notice))
<1> DEFINE a == [Answer EXCEPT !.url = To(page)]
<1>1. /\ a \in AnswerSet /\ a.kind = "drawn" /\ a.session = jar.session /\ a.me = me /\ a.mails = {} /\ a.stopped = Nowhere /\ a.url = To(page)
  BY SubmittedFacts, AnswerShape DEF AnswerSet
<1>2. Reply(a)
  <2> HIDE DEF a
  <2> QED BY <1>1, SubmittedFacts, DrawnReply
<1>3. \A notice \in NoticeName : Reply(redirect(To(page), notice))
  BY MovedOnReply DEF EntryPages
<1> QED BY <1>2, <1>3 DEF Saved

\* The letters a form sends carry the destination of the form.
LEMMA LetterFacts ==
  ASSUME Submitted, NEW kind \in {"confirm", "reset"}, NEW next \in Destination, goal # Nowhere => landing(next) = goal
  PROVE  Letter(kind, next) \in SUBSET LetterSent /\ \A l \in Letter(kind, next) : l.goal # Nowhere => (landing(l.goal) = l.goal /\ landing(l.next) = l.goal)
<1>1. NewToken \in Nat \ {0} /\ goal \in Destination
  BY SubmittedFacts DEF NewToken, PersonRow, Submitted, Asked, BrowserIInv, BrowserShape
<1> QED BY <1>1, SubmittedFacts DEF Letter, LetterSent

\* A redirect to a page of signing in over an account that changed and that it opens no session of.
LEMMA ChangedReply ==
  ASSUME Submitted, NEW a \in AnswerSet, a.kind = "sent", KeepsSession(a), a.stopped = Nowhere, a.url.page # "confirm",
         a.session = NoCookie \/ a.me.status # "ACTIVE" \/ a.session # a.me.epoch \/ (a.me.status = me.status /\ a.me.epoch = me.epoch /\ a.session = jar.session),
         (goal # Nowhere /\ a.url.page \in EntryPages /\ a.url.next # Nowhere) => landing(a.url.next) = goal,
         \A l \in a.mails : l.goal # Nowhere => (landing(l.goal) = l.goal /\ landing(l.next) = l.goal), TellsWay(a)
  PROVE  Reply(a)
<1>1. ~Lands(a)
  BY SubmittedFacts DEF Lands, AnswerSet, PersonRow, NoCookie, account_of
<1>2. Onward(a.url.page, a.token, a.me, a.session) < HopsLeft
  BY SubmittedFacts, OnwardBound DEF AnswerSet, SiteUrl
<1> QED BY <1>1, <1>2 DEF Reply, HopsLessen, KeepsGoal

LEMMA RegisterReply == Submitted /\ tab.action = "signup" => Reply(register_page)
<1> SUFFICES ASSUME Submitted, tab.action = "signup" PROVE Reply(register_page)
  OBVIOUS
<1>1. /\ tab.action \in EntryPages /\ "signup" \in SitePages /\ "login" \in SitePages /\ landing(tab.field) \in SitePages /\ landing(tab.field) \in Destination
      /\ landing(tab.field) \notin EntryPages /\ landing(landing(tab.field)) = landing(tab.field)
  BY SubmittedFacts, LandingIsPage, LandingStays DEF EntryPages, AUTH_PAGES, SitePages
<1>2. Reply(again("signup"))
  BY <1>1, AgainReply
<1>3. CASE Good /\ me.status = "none" /\ asksProof
  <2> DEFINE person == [me EXCEPT !.status = "PENDING", !.confirmation = NewToken, !.held = @ \cup {"confirmation"}, !.drawn = NewToken]
             a == [redirect(To("login"), "sign-up-confirmation-sent") EXCEPT !.me = person, !.mails = Letter("confirm", landing(tab.field))]
  <2>1. person \in PersonRow /\ person.status = "PENDING" /\ person.confirmation # 0 /\ person.epoch = me.epoch
    BY SubmittedFacts, PersonFacts DEF PersonRow
  <2>2. /\ Letter("confirm", landing(tab.field)) \in SUBSET LetterSent
        /\ \A l \in Letter("confirm", landing(tab.field)) : l.goal # Nowhere => (landing(l.goal) = l.goal /\ landing(l.next) = l.goal)
    BY <1>1, SubmittedFacts, LetterFacts
  <2>3. "sign-up-confirmation-sent" \in NoticeName
    BY DEF NoticeName
  <2> HIDE DEF person
  <2>4. /\ a \in AnswerSet /\ a.kind = "sent" /\ a.url = To("login") /\ a.mails = Letter("confirm", landing(tab.field)) /\ a.stopped = Nowhere
        /\ a.session = jar.session /\ a.me = person /\ a.notice = "sign-up-confirmation-sent"
    BY <1>1, <2>1, <2>2, <2>3, SubmittedFacts, AnswerShape DEF redirect, AnswerSet
  <2>5. Reply(a)
    <3> HIDE DEF a
    <3>1. TellsWay(a)
      BY <2>4, SubmittedFacts, <1>1 DEF TellsWay, Forgets, LetterNotices
    <3> QED BY <1>1, <2>1, <2>2, <2>4, <3>1, SubmittedFacts, ChangedReply DEF KeepsSession
  <2> QED BY <1>3, <2>5 DEF a, person, register_page
<1>4. CASE Good /\ me.status = "none" /\ ~asksProof
  <2>1. [me EXCEPT !.status = "ACTIVE"] \in PersonRow /\ [me EXCEPT !.status = "ACTIVE"].status = "ACTIVE"
    BY SubmittedFacts, PersonFacts DEF PersonRow
  <2>2. Reply(sign_in_as(redirect(To(landing(tab.field)), "signed-up"), [me EXCEPT !.status = "ACTIVE"]))
    BY <1>1, <2>1, SubmittedFacts, SignInReply DEF NoticeName
  <2> QED BY <1>4, <2>2 DEF register_page
<1> QED BY <1>2, <1>3, <1>4 DEF register_page

LEMMA ConfirmReply == Submitted /\ tab.action = "confirm" => Reply(confirm_sign_up_page)
<1> SUFFICES ASSUME Submitted, tab.action = "confirm" PROVE Reply(confirm_sign_up_page)
  OBVIOUS
<1>1. /\ tab.action \in EntryPages /\ "login" \in SitePages /\ landing(tab.field) \in SitePages
      /\ landing(tab.field) \notin EntryPages /\ "sign-up-confirmed" \in NoticeName /\ "confirmation-token-invalid" \in NoticeName
      /\ "confirmation-token-invalid" \in LetterNotices
  BY SubmittedFacts, LandingIsPage, LandingStays DEF EntryPages, AUTH_PAGES, SitePages, NoticeName, LetterNotices
<1> DEFINE person == [me EXCEPT !.status = "ACTIVE", !.confirmation = 0, !.held = @ \ {"confirmation"}]
<1>2. person \in PersonRow /\ person.status = "ACTIVE"
  BY SubmittedFacts, PersonFacts DEF PersonRow
<1>3. Reply(redirect(To("login"), "confirmation-token-invalid"))
  BY <1>1, MovedOnReply
<1>4. Reply(sign_in_as(redirect(To(landing(tab.field)), "sign-up-confirmed"), person))
  <2> HIDE DEF person
  <2> QED BY <1>1, <1>2, SubmittedFacts, SignInReply
<1> QED BY <1>3, <1>4 DEF confirm_sign_up_page

LEMMA ResendReply == Submitted => Reply(resend_confirmation_page)
<1> SUFFICES ASSUME Submitted PROVE Reply(resend_confirmation_page)
  OBVIOUS
<1> DEFINE person == [me EXCEPT !.confirmation = NewToken, !.held = @ \cup {"confirmation"}, !.drawn = NewToken]
           posted == {[l EXCEPT !.goal = Nowhere] : l \in Letter("confirm", Nowhere)}
           a == [redirect(To("login"), "confirmation-resent") EXCEPT !.me = person, !.mails = posted]
<1>1. /\ "login" \in SitePages /\ "confirmation" \in SitePages /\ "confirmation" \notin EntryPages /\ "confirmation-resent" \in NoticeName
      /\ "confirmation-resent" \in LetterNotices /\ Nowhere \in Destination
  BY DEF EntryPages, AUTH_PAGES, SitePages, NoticeName, LetterNotices, Destination
<1>2. person \in PersonRow /\ person.confirmation # 0 /\ person.epoch = me.epoch /\ person.status = me.status
  BY SubmittedFacts, PersonFacts DEF PersonRow
<1>3. posted \in SUBSET LetterSent /\ \A l \in posted : l.goal = Nowhere
  <2>1. NewToken \in Nat \ {0} /\ goal \in Destination
    BY SubmittedFacts DEF NewToken, PersonRow, Submitted, Asked, BrowserIInv, BrowserShape
  <2> QED BY <1>1, <2>1 DEF Letter, LetterSent
<1>4. Reply(again("confirmation"))
  BY <1>1, AgainReply
<1>5. Reply(redirect(To("login"), "confirmation-resent"))
  BY <1>1, MovedOnReply
<1>6. Reply(a)
  <2> HIDE DEF person, posted
  <2>1. /\ a \in AnswerSet /\ a.kind = "sent" /\ a.url = To("login") /\ a.mails = posted /\ a.stopped = Nowhere
        /\ a.session = jar.session /\ a.me = person /\ a.notice = "confirmation-resent"
    BY <1>1, <1>2, <1>3, SubmittedFacts, AnswerShape DEF redirect, AnswerSet
  <2> HIDE DEF a
  <2>2. TellsWay(a)
    BY <1>1, <2>1, SubmittedFacts DEF TellsWay, Forgets
  <2> QED BY <1>1, <1>2, <1>3, <2>1, <2>2, SubmittedFacts, ChangedReply DEF KeepsSession
<1> QED BY <1>4, <1>5, <1>6 DEF resend_confirmation_page

LEMMA RecoveryReply == Submitted /\ tab.action = "recovery" => Reply(start_recovery)
<1> SUFFICES ASSUME Submitted, tab.action = "recovery" PROVE Reply(start_recovery)
  OBVIOUS
<1> DEFINE person == [me EXCEPT !.recovery = NewToken, !.held = @ \cup {"recovery"}, !.drawn = NewToken]
           a == [redirect(To("recovery"), "recovery-sent") EXCEPT !.me = person, !.mails = Letter("reset", landing(tab.field))]
<1>1. /\ tab.action \in EntryPages /\ "recovery" \in SitePages /\ landing(tab.field) \in Destination
      /\ landing(landing(tab.field)) = landing(tab.field) /\ "recovery-sent" \in NoticeName
      /\ "recovery-sent" \in LetterNotices
  BY SubmittedFacts, LandingIsPage, LandingStays DEF EntryPages, AUTH_PAGES, SitePages, NoticeName, LetterNotices
<1>2. person \in PersonRow /\ person.confirmation = me.confirmation /\ person.epoch = me.epoch /\ person.status = me.status
  BY SubmittedFacts, PersonFacts DEF PersonRow
<1>3. /\ Letter("reset", landing(tab.field)) \in SUBSET LetterSent
      /\ \A l \in Letter("reset", landing(tab.field)) : l.goal # Nowhere => (landing(l.goal) = l.goal /\ landing(l.next) = l.goal)
  BY <1>1, SubmittedFacts, LetterFacts
<1>4. Reply(again("recovery"))
  BY <1>1, AgainReply
<1>5. Reply(redirect(To("recovery"), "recovery-sent"))
  BY <1>1, MovedOnReply
<1>6. Reply(a)
  <2> HIDE DEF person
  <2>1. /\ a \in AnswerSet /\ a.kind = "sent" /\ a.url = To("recovery") /\ a.mails = Letter("reset", landing(tab.field)) /\ a.stopped = Nowhere
        /\ a.session = jar.session /\ a.me = person /\ a.notice = "recovery-sent"
    BY <1>1, <1>2, <1>3, SubmittedFacts, AnswerShape DEF redirect, AnswerSet
  <2>2. me.status = "PENDING" => me.confirmation # 0
    BY DEF Submitted, Asked, BrowserIInv, CookiesStand
  <2> HIDE DEF a
  <2>3. TellsWay(a)
    BY <1>1, <2>1, SubmittedFacts DEF TellsWay, Forgets
  <2> QED BY <1>1, <1>2, <1>3, <2>1, <2>2, <2>3, SubmittedFacts, ChangedReply DEF KeepsSession
<1> QED BY <1>4, <1>5, <1>6 DEF start_recovery

LEMMA ResetReply == Submitted /\ tab.action = "reset" => Reply(confirm_reset)
<1> SUFFICES ASSUME Submitted, tab.action = "reset" PROVE Reply(confirm_reset)
  OBVIOUS
<1> DEFINE person == [me EXCEPT !.status = "ACTIVE", !.epoch = @ + 1, !.recovery = 0, !.confirmation = 0, !.held = {}]
           a == [redirect(Url("login", landing(tab.field), Nowhere), "password-changed") EXCEPT !.me = person]
<1>1. /\ tab.action \in EntryPages /\ "recovery" \in SitePages /\ "reset" \in SitePages /\ "login" \in SitePages /\ landing(tab.field) \in Destination
      /\ landing(landing(tab.field)) = landing(tab.field) /\ "recovery-token-invalid" \in NoticeName /\ "password-changed" \in NoticeName
      /\ "recovery-token-invalid" \in LetterNotices /\ landing(tab.field) # Nowhere
  BY SubmittedFacts, LandingIsPage, LandingStays DEF EntryPages, AUTH_PAGES, SitePages, NoticeName, LetterNotices
<1>2. person \in PersonRow /\ person.status = "ACTIVE" /\ person.epoch = me.epoch + 1
  BY SubmittedFacts, PersonFacts DEF PersonRow
<1>3. Reply(again("reset"))
  BY <1>1, AgainReply
<1>4. Reply(redirect(To("recovery"), "recovery-token-invalid"))
  BY <1>1, MovedOnReply
<1>5. Reply(a)
  <2> HIDE DEF person
  <2>1. /\ a \in AnswerSet /\ a.kind = "sent" /\ a.url = Url("login", landing(tab.field), Nowhere) /\ a.mails = {} /\ a.stopped = Nowhere
        /\ a.session = jar.session /\ a.me = person
    BY <1>1, <1>2, SubmittedFacts, AnswerShape DEF redirect, AnswerSet
  <2> HIDE DEF a
  <2>2. a.session # a.me.epoch /\ KeepsSession(a)
    BY <1>2, <2>1, SubmittedFacts DEF KeepsSession
  <2>3. a.url.page = "login" /\ (goal # Nowhere => landing(a.url.next) = goal)
    BY <1>1, <2>1, SubmittedFacts
  <2>4. TellsWay(a)
    BY <1>1, <2>1, SubmittedFacts DEF TellsWay
  <2> QED BY <2>1, <2>2, <2>3, <2>4, ChangedReply
<1> QED BY <1>3, <1>4, <1>5 DEF confirm_reset

LEMMA EmailCodeReply == Submitted /\ tab.action = "email-code" => Reply(confirm_email_code)
<1> SUFFICES ASSUME Submitted, tab.action = "email-code" PROVE Reply(confirm_email_code)
  OBVIOUS
<1> DEFINE person == IF me.status = "PENDING" THEN [me EXCEPT !.status = "ACTIVE", !.epoch = @ + 1, !.confirmation = 0, !.recovery = 0, !.held = {}]
                  ELSE [me EXCEPT !.status = "ACTIVE"]
<1>1. /\ tab.action \in EntryPages /\ "email-code" \in SitePages /\ landing(tab.field) \in SitePages
      /\ landing(tab.field) \notin EntryPages /\ "signed-in" \in NoticeName
  BY SubmittedFacts, LandingIsPage, LandingStays DEF EntryPages, AUTH_PAGES, SitePages, NoticeName
<1>2. person \in PersonRow /\ person.status = "ACTIVE"
  BY SubmittedFacts, PersonFacts DEF PersonRow
<1>3. Reply(again("email-code"))
  BY <1>1, AgainReply
<1>4. Reply(sign_in_as(redirect(To(landing(tab.field)), "signed-in"), person))
  <2> HIDE DEF person
  <2> QED BY <1>1, <1>2, SubmittedFacts, SignInReply
<1> QED BY <1>3, <1>4 DEF confirm_email_code

LEMMA PasswordReply == Submitted /\ account_of => Reply(change_password_page)
<1> SUFFICES ASSUME Submitted, account_of PROVE Reply(change_password_page)
  OBVIOUS
<1> DEFINE person == [me EXCEPT !.epoch = @ + 1, !.recovery = 0, !.held = @ \ {"recovery"}]
<1>1. /\ "account" \in SitePages /\ "account" \notin EntryPages /\ "password" \in SitePages /\ "password" \notin EntryPages
      /\ "password-changed" \in NoticeName
  BY DEF EntryPages, AUTH_PAGES, SitePages, PrivatePages, NoticeName
<1>2. person \in PersonRow /\ person.status = "ACTIVE"
  BY SubmittedFacts, PersonFacts DEF PersonRow, account_of
<1>3. Reply([Answer EXCEPT !.url = To("password")])
  BY <1>1, SavedReply
<1>4. Reply(sign_in_as(redirect(To("account"), "password-changed"), person))
  <2> HIDE DEF person
  <2> QED BY <1>1, <1>2, SignInReply
<1> QED BY <1>3, <1>4 DEF change_password_page

\* Somebody signs out, or erases the account.
LEMMA SignOutReply ==
  ASSUME Submitted, NEW notice \in NoticeName, NEW person \in PersonRow, person.status = "PENDING" => person.confirmation # 0
  PROVE  Reply(sign_out_of(redirect(To("home"), notice), person))
<1> DEFINE a == sign_out_of(redirect(To("home"), notice), person)
<1>1. "home" \in SitePages /\ "home" \notin EntryPages /\ NoCookie \in Nat /\ NoCookie <= person.epoch
  BY DEF EntryPages, AUTH_PAGES, SitePages, NoCookie, PersonRow
<1>2. /\ a \in AnswerSet /\ a.kind = "sent" /\ a.url = To("home") /\ a.mails = {} /\ a.stopped = Nowhere
      /\ a.session = NoCookie /\ a.me = person
  BY <1>1, SubmittedFacts, AnswerShape DEF sign_out_of, redirect, AnswerSet
<1>3. Reply(a)
  <2> HIDE DEF a
  <2>1. TellsWay(a)
    BY <1>1, <1>2, SubmittedFacts DEF TellsWay
  <2> QED BY <1>1, <1>2, <2>1, SubmittedFacts, ChangedReply DEF KeepsSession
<1> QED BY <1>3 DEF a

LEMMA DeleteReply == Submitted => Reply(confirm_delete) /\ Reply(logout)
<1> SUFFICES ASSUME Submitted PROVE Reply(confirm_delete) /\ Reply(logout)
  OBVIOUS
<1> DEFINE person == [me EXCEPT !.status = "ERASED", !.confirmation = 0, !.recovery = 0]
<1>1. "delete" \in SitePages /\ "delete" \notin EntryPages /\ "account-erased" \in NoticeName /\ Silent \in NoticeName
  BY DEF EntryPages, AUTH_PAGES, SitePages, PrivatePages, NoticeName
<1>2. person \in PersonRow /\ person.status = "ERASED"
  BY SubmittedFacts, PersonFacts DEF PersonRow
<1>3. Reply([Answer EXCEPT !.url = To("delete")])
  BY <1>1, SavedReply
<1>4. Reply(sign_out_of(redirect(To("home"), "account-erased"), person))
  <2> HIDE DEF person
  <2> QED BY <1>1, <1>2, SignOutReply
<1>5. me.status = "PENDING" => me.confirmation # 0
  BY DEF Submitted, Asked, BrowserIInv, CookiesStand
<1>6. Reply(sign_out_of(redirect(To("home"), Silent), me))
  BY <1>1, <1>5, SubmittedFacts, SignOutReply
<1> QED BY <1>3, <1>4, <1>6 DEF confirm_delete, logout

\* The buyer leaves for the gateway, or is told why not.
LEMMA BuyReply == Submitted /\ tab.action \in {"product", "plans"} => Reply(buy_product) /\ Reply(subscribe_page)
<1> SUFFICES ASSUME Submitted, tab.action \in {"product", "plans"} PROVE Reply(buy_product) /\ Reply(subscribe_page)
  OBVIOUS
<1>1. /\ "product" \in SitePages /\ "plans" \in SitePages /\ "product" \notin EntryPages /\ "plans" \notin EntryPages
      /\ "checkout-refused" \in NoticeName /\ "plan-already-subscribed" \in NoticeName
  BY DEF EntryPages, AUTH_PAGES, SitePages, NoticeName
<1>2. Reply([Answer EXCEPT !.kind = "left", !.sale = "PENDING"])
  <2> DEFINE a == [Answer EXCEPT !.kind = "left", !.sale = "PENDING"]
  <2>1. /\ a \in AnswerSet /\ a.kind = "left" /\ a.session = jar.session /\ a.me = me /\ a.mails = {} /\ a.stopped = Nowhere
    BY SubmittedFacts, AnswerShape DEF AnswerSet
  <2>2. Reply(a)
    <3> HIDE DEF a
    <3> QED BY <2>1, SubmittedFacts, DrawnReply
  <2> QED BY <2>2 DEF a
<1>3. Reply([Answer EXCEPT !.kind = "left"])
  <2> DEFINE a == [Answer EXCEPT !.kind = "left"]
  <2>1. /\ a \in AnswerSet /\ a.kind = "left" /\ a.session = jar.session /\ a.me = me /\ a.mails = {} /\ a.stopped = Nowhere
    BY SubmittedFacts, AnswerShape DEF AnswerSet
  <2>2. Reply(a)
    <3> HIDE DEF a
    <3> QED BY <2>1, SubmittedFacts, DrawnReply
  <2> QED BY <2>2 DEF a
<1>4. Reply([redirect(To("product"), "checkout-refused") EXCEPT !.sale = "FAILED"])
  <2> DEFINE a == [redirect(To("product"), "checkout-refused") EXCEPT !.sale = "FAILED"]
  <2>1. /\ a \in AnswerSet /\ a.kind = "sent" /\ a.url = To("product") /\ a.session = jar.session /\ a.me = me /\ a.mails = {} /\ a.stopped = Nowhere
    BY <1>1, SubmittedFacts, AnswerShape DEF redirect, AnswerSet
  <2>2. me.status = "PENDING" => me.confirmation # 0
    BY DEF Submitted, Asked, BrowserIInv, CookiesStand
  <2>3. Reply(a)
    <3> HIDE DEF a
    <3>1. TellsWay(a)
      BY <1>1, <2>1, SubmittedFacts DEF TellsWay
    <3> QED BY <1>1, <2>1, <2>2, <3>1, SubmittedFacts, ChangedReply DEF KeepsSession
  <2> QED BY <2>3 DEF a
<1>5. Reply(redirect(To("plans"), "plan-already-subscribed"))
  BY <1>1, MovedOnReply
<1> QED BY <1>2, <1>3, <1>4, <1>5 DEF buy_product, subscribe_page

\* Every form that is read is answered.
LEMMA SentFormReply ==
  ASSUME Submitted, PrivateForm(tab.action) => account_of
  PROVE  Reply(Sent(tab.action))
<1> DEFINE f == tab.action
<1>1. f \in PrivateForms \cup EntryPages \cup {"confirmation", "logout"}
  BY DEF Submitted, Asked, BrowserIInv, BrowserShape, BrowserTab, ActionName, FormsStand
<1>2. /\ \A p \in {"profile", "account", "address", "connections"} : p \in SitePages /\ p \notin EntryPages /\ p # "confirm"
      /\ \A n \in {"profile-saved", "avatar-saved", "avatar-refused", "avatar-removed", "address-saved", "social-disconnected", "last-sign-in-method", "signed-in", "sign-in-code-sent"} : n \in NoticeName
      /\ \A p \in AUTH_PAGES : p \in SitePages /\ p \in EntryPages
  BY DEF EntryPages, AUTH_PAGES, SitePages, PrivatePages, NoticeName
<1>3. CASE f = "login"
  <2>1. /\ landing(tab.field) \in SitePages /\ landing(tab.field) \notin EntryPages /\ f \in EntryPages
    BY <1>3, SubmittedFacts, LandingIsPage, LandingStays DEF EntryPages, AUTH_PAGES
  <2>2. Reply(again("login"))
    BY <1>2, <2>1, AgainReply DEF AUTH_PAGES
  <2>3. me.status = "ACTIVE" => Reply(sign_in_as(redirect(To(landing(tab.field)), "signed-in"), me))
    BY <1>2, <2>1, SubmittedFacts, SignInReply
  <2> QED BY <1>3, <2>2, <2>3 DEF Sent, sign_in_page
<1>4. CASE f = "email-login"
  <2>1. f \in EntryPages /\ landing(tab.field) \in Destination /\ landing(landing(tab.field)) = landing(tab.field) /\ landing(tab.field) # Nowhere
    BY <1>4, SubmittedFacts, LandingIsPage, LandingStays DEF EntryPages, AUTH_PAGES
  <2>2. Reply(again("email-login"))
    BY <1>2, <2>1, AgainReply DEF AUTH_PAGES
  <2>3. Reply(redirect(Url("email-code", landing(tab.field), Nowhere), "sign-in-code-sent"))
    <3>1. "email-code" \in SitePages /\ Onward("email-code", 0, me, jar.session) < HopsLeft
      BY <1>2, SubmittedFacts, OnwardBound DEF AUTH_PAGES
    <3> QED BY <1>2, <2>1, <3>1, SubmittedFacts, RedirectReply
  <2> QED BY <1>4, <2>2, <2>3 DEF Sent, request_email_code
<1>5. CASE f \in {"save_profile", "save_avatar", "remove_avatar", "address", "connections"}
  <2>1. Reply(Saved("profile", "profile-saved")) /\ Reply(Saved("address", "address-saved"))
    BY <1>2, SavedReply
  <2>2. Reply(redirect(To("profile"), IF Good THEN "avatar-saved" ELSE "avatar-refused")) /\ Reply(redirect(To("profile"), "avatar-removed"))
    BY <1>2, MovedOnReply
  <2>3. Reply(redirect(To("connections"), IF Good THEN "social-disconnected" ELSE "last-sign-in-method"))
    BY <1>2, MovedOnReply
  <2> QED BY <1>5, <2>1, <2>2, <2>3 DEF Sent, save_profile, save_avatar, remove_avatar, save_address, remove_social
<1>6. CASE f \in {"signup", "confirm", "confirmation", "recovery", "reset", "email-code"}
  BY <1>6, RegisterReply, ConfirmReply, ResendReply, RecoveryReply, ResetReply, EmailCodeReply DEF Sent
<1>7. CASE f \in {"password", "delete", "logout", "product", "plans"}
  <2>1. f \in {"password"} => account_of
    BY DEF PrivateForm
  <2> QED BY <1>7, <2>1, PasswordReply, DeleteReply, BuyReply DEF Sent
<1> QED BY <1>1, <1>3, <1>4, <1>5, <1>6, <1>7 DEF PrivateForms, EntryPages, AUTH_PAGES

\* Whatever is asked, the answer keeps what the pages rest on.
LEMMA HandledReply ==
  ASSUME Asked
  PROVE  Reply(Handled)
<1>1. /\ tab.url \in SiteUrl /\ tab.from \in SiteUrl /\ tab.method \in {"GET", "POST"} /\ tab.token \in Nat /\ me \in PersonRow /\ jar.session \in Nat
      /\ jar.csrf \in {NoCookie, 1} /\ tab.url.page \in SitePages /\ tab.from.page \in SitePages
  BY DEF Asked, BrowserIInv, BrowserShape, BrowserTab, SiteUrl
<1>2. account_of <=> SignedIn(me, jar.session)
  BY DEF account_of, SignedIn
<1>3. ASSUME ~account_of, NEW wanted \in SitePages, wanted \notin EntryPages, HopsLeft > 0
      PROVE  Reply([redirect(Url("login", wanted, Nowhere), Silent) EXCEPT !.stopped = wanted])
  <2> DEFINE a == [redirect(Url("login", wanted, Nowhere), Silent) EXCEPT !.stopped = wanted]
  <2>1. wanted \in Destination /\ Url("login", wanted, Nowhere) \in SiteUrl /\ Silent \in NoticeName /\ landing(wanted) = wanted
    BY <1>3 DEF Destination, Url, SiteUrl, SitePages, AUTH_PAGES, NoticeName, EntryPages, landing, inside, Record, PrivatePages, Nowhere, Outside
  <2>2. /\ a \in AnswerSet /\ a.kind = "sent" /\ a.url = Url("login", wanted, Nowhere) /\ a.mails = {} /\ a.stopped = wanted
        /\ a.session = jar.session /\ a.me = me
    BY <2>1, AnswerShape DEF redirect, AnswerSet
  <2>3. Reply(a)
    <3> HIDE DEF a
    <3>1. ~Lands(a) /\ KeepsSession(a)
      BY <2>2, NothingLands DEF Asked, BrowserIInv, CookiesStand, KeepsSession
    <3>2. Onward("login", a.token, me, jar.session) = 0 /\ a.url.page = "login"
      BY <1>2, <1>3, <2>2 DEF Onward, PrivatePages, Url
    <3>3. HopsLessen(a)
      BY <1>3, <2>2, <3>2 DEF HopsLessen
    <3>4. KeepsGoal(a)
      BY <1>3, <2>1, <2>2, <3>1 DEF KeepsGoal, Nowhere, SitePages, AUTH_PAGES, PrivatePages
    <3>5. TellsWay(a)
      BY <2>2 DEF TellsWay, SitePages, AUTH_PAGES, PrivatePages, Nowhere
    <3> QED BY <2>2, <3>1, <3>3, <3>4, <3>5 DEF Reply
  <2> QED BY <2>3 DEF a
<1>4. CASE tab.method = "GET"
  <2>1. CASE tab.url.page \in PrivatePages /\ ~account_of
    <3>1. HopsLeft = 1
      BY <1>2, <1>4, <2>1 DEF Asked, HopsLeft, Onward, PrivatePages
    <3>2. inside(tab.url.page, "home") = tab.url.page /\ tab.url.page \notin EntryPages
      BY <2>1 DEF inside, PrivatePages, EntryPages, AUTH_PAGES, Nowhere, Outside
    <3> QED BY <1>1, <1>3, <1>4, <2>1, <3>1, <3>2 DEF Handled, SignInRequired
  <2> QED BY <1>4, <2>1, OpenedReply DEF Handled
<1>5. CASE tab.method = "POST"
  <2>1. HopsLeft > 0
    BY <1>5 DEF Asked, HopsLeft
  <2>2. CASE PrivateForm(tab.action) /\ ~account_of
    <3>1. tab.from.page \notin EntryPages
      BY <1>5, <2>2 DEF Asked, BrowserIInv, FormsStand, PrivateForm, PrivateForms
    <3>2. inside(tab.from.page, "home") = tab.from.page
      BY <1>1 DEF inside, SitePages, PrivatePages, AUTH_PAGES, Nowhere, Outside
    <3> QED BY <1>1, <1>3, <1>5, <2>1, <2>2, <3>1, <3>2 DEF Handled, SignInRequired
  <2>3. CASE ~(PrivateForm(tab.action) /\ ~account_of) /\ ~guard
    <3>1. jar.csrf = NoCookie
      BY <1>1, <1>5, <2>3 DEF Asked, BrowserIInv, FormsStand, guard, NoCookie
    <3>2. HopsLeft = 3
      BY <1>5, <3>1 DEF Asked, HopsLeft
    <3> DEFINE a == [redirect(tab.from, "expired") EXCEPT !.token = tab.token]
    <3>3. /\ a \in AnswerSet /\ a.kind = "sent" /\ a.url = tab.from /\ a.mails = {} /\ a.stopped = Nowhere
          /\ a.session = jar.session /\ a.me = me /\ a.token = tab.token /\ a.notice = "expired"
      BY <1>1, AnswerShape DEF redirect, AnswerSet, NoticeName
    <3>4. goal # Nowhere /\ tab.from.page \in EntryPages /\ tab.from.next # Nowhere => landing(tab.from.next) = goal
      BY <1>5 DEF Asked, BrowserIInv, GoalCarried
    <3>5. Reply(a)
      <4> HIDE DEF a
      <4>1. ~Lands(a) /\ KeepsSession(a)
        BY <3>3, NothingLands DEF Asked, BrowserIInv, CookiesStand, KeepsSession
      <4>2. Onward(tab.from.page, tab.token, me, jar.session) < HopsLeft
        BY <1>1, <3>2, OnwardBound
      <4>3. TellsWay(a)
        BY <3>3 DEF TellsWay, Forgets
      <4> QED BY <3>3, <3>4, <4>1, <4>2, <4>3, SentReply
    <3> QED BY <1>5, <2>3, <3>5 DEF Handled, PageExpired, a
  <2>4. CASE ~(PrivateForm(tab.action) /\ ~account_of) /\ guard
    BY <1>5, <2>4, SentFormReply DEF Handled, Submitted
  <2> QED BY <2>2, <2>3, <2>4
<1> QED BY <1>1, <1>4, <1>5

-----------------------------------------------------------------------------
(* Every step keeps it.                                                    *)

\* A write on the tab leaves a tab.
LEMMA TabGoes ==
  ASSUME NEW t \in BrowserTab, NEW token \in Nat, NEW landed \in LandedPairs
  PROVE  [t EXCEPT !.token = token, !.landed = landed] \in BrowserTab
BY DEF BrowserTab

LEMMA TabTold ==
  ASSUME NEW t \in BrowserTab, NEW token \in Nat
  PROVE  [t EXCEPT !.token = token] \in BrowserTab
BY DEF BrowserTab

LEMMA TabLeaves ==
  ASSUME NEW t \in BrowserTab, NEW u, u = [t EXCEPT !.at = "gateway", !.hops = 0]
  PROVE  u \in BrowserTab /\ u.at = "gateway" /\ u.hops = 0 /\ u.landed = t.landed
BY DEF BrowserTab

LEMMA TabDraws ==
  ASSUME NEW t \in BrowserTab, NEW url \in SiteUrl, NEW field \in FieldValue, NEW shows \in SUBSET {"mine"}, NEW flashes \in NoticeName, NEW due \in NoticeName,
         NEW csrf \in {NoCookie, 1}, NEW landed \in LandedPairs
  PROVE  [t EXCEPT !.at = "drawn", !.url = url, !.field = field, !.hops = 0, !.shows = shows, !.flashes = flashes, !.due = due, !.csrf = csrf, !.landed = landed] \in BrowserTab
<1> DEFINE w == [t EXCEPT !.at = "drawn", !.url = url, !.field = field, !.hops = 0]
<1>1. w \in BrowserTab
  BY DEF BrowserTab
<1>2. [t EXCEPT !.at = "drawn", !.url = url, !.field = field, !.hops = 0, !.shows = shows, !.flashes = flashes, !.due = due, !.csrf = csrf, !.landed = landed]
        = [w EXCEPT !.shows = shows, !.flashes = flashes, !.due = due, !.csrf = csrf, !.landed = landed]
  BY DEF BrowserTab
<1>3. [w EXCEPT !.shows = shows, !.flashes = flashes, !.due = due, !.csrf = csrf, !.landed = landed] \in BrowserTab
  <2> HIDE DEF w
  <2> QED BY <1>1 DEF BrowserTab
<1> QED BY <1>2, <1>3

LEMMA AskingShape ==
  ASSUME NEW url \in SiteUrl, NEW hops \in Nat
  PROVE  /\ Asking(url, hops) \in BrowserTab /\ Asking(url, hops).at = "asks" /\ Asking(url, hops).method = "GET" /\ Asking(url, hops).url = url
         /\ Asking(url, hops).hops = hops /\ Asking(url, hops).landed = {} /\ Asking(url, hops).token = 0
         /\ Asking(url, hops).csrf = NoCookie /\ Asking(url, hops).form = Nowhere
<1>1. Nowhere \in Destination /\ To("home") \in SiteUrl /\ Silent \in NoticeName
  BY DEF Destination, To, Url, SiteUrl, SitePages, Record, NoticeName
<1> QED BY <1>1 DEF Asking, BrowserTab, FieldValue, ActionName, LandedPairs

\* An answer reaches the browser.
LEMMA AnswersStep == BrowserIInv /\ Answers => BrowserIInv'
<1> SUFFICES ASSUME BrowserIInv, Answers PROVE BrowserIInv'
  OBVIOUS
<1> DEFINE a == Handled
<1>1. Asked /\ tab.at = "asks"
  BY DEF Asked, Answers
<1>2. Reply(a)
  BY <1>1, HandledReply
<1> HIDE DEF a
<1>3. /\ a \in AnswerSet /\ a.kind \in {"drawn", "sent", "missing", "left"} /\ a.url \in SiteUrl /\ a.notice \in NoticeName /\ a.session \in Nat /\ a.me \in PersonRow
      /\ a.token \in Nat /\ a.stopped \in Destination /\ a.mails \in SUBSET LetterSent /\ a.url.page \in SitePages /\ a.url.next \in Destination
      /\ a.field \in FieldValue /\ a.shows \in SUBSET {"mine"} /\ a.sale \in {"none", "PENDING", "PAID", "FAILED"}
  BY <1>2 DEF Reply, AnswerSet, SiteUrl
<1>4. /\ me' = a.me /\ sale' = a.sale /\ mailbox' = mailbox \cup a.mails
      /\ jar' = [session |-> a.session, flash |-> LeftFlash(a), csrf |-> IF a.kind \in {"drawn", "missing"} /\ jar.csrf = NoCookie THEN 1 ELSE jar.csrf]
      /\ told' = IF a.notice # Silent THEN a.notice ELSE IF a.kind \in {"drawn", "missing"} THEN Silent ELSE told
      /\ goal' = IF a.stopped # Nowhere THEN a.stopped ELSE IF Lands(a) \/ Forgets(a) THEN Nowhere ELSE goal
      /\ a.kind = "sent" => tab' = [Asking(a.url, tab.hops + 1) EXCEPT !.token = a.token, !.landed = IF Lands(a) /\ goal # Nowhere THEN {<<goal, a.url.page>>} ELSE {}]
      /\ a.kind = "left" => tab' = [tab EXCEPT !.at = "gateway", !.hops = 0]
      /\ a.kind \in {"drawn", "missing"} =>
            tab' = [tab EXCEPT !.at = "drawn", !.url = a.url, !.field = a.field, !.hops = 0, !.shows = a.shows,
                               !.flashes = jar.flash, !.due = told, !.csrf = IF jar.csrf = NoCookie THEN 1 ELSE jar.csrf, !.landed = {}]
      /\ asksProof' = asksProof /\ clicks' = clicks /\ turns' = turns
  BY <1>3 DEF Answers, a
<1>5. /\ jar \in [session : Nat, flash : NoticeName, csrf : {NoCookie, 1}] /\ tab \in BrowserTab /\ told \in NoticeName /\ goal \in Destination
      /\ tab.hops \in Nat /\ tab.landed \in LandedPairs /\ turns \in Nat /\ mailbox \in SUBSET LetterSent /\ jar.flash = told
      /\ asksProof \in BOOLEAN /\ clicks \in Nat /\ jar.csrf \in {NoCookie, 1} /\ jar.flash \in NoticeName
  BY DEF BrowserIInv, BrowserShape, BrowserTab, CookiesStand
<1>6. LeftFlash(a) \in NoticeName /\ LeftFlash(a) = told' /\ Silent \in NoticeName /\ Nowhere \in Destination
  BY <1>3, <1>4, <1>5 DEF LeftFlash, NoticeName, Destination
<1>7. jar'.session = a.session /\ jar'.csrf = (IF a.kind \in {"drawn", "missing"} /\ jar.csrf = NoCookie THEN 1 ELSE jar.csrf) /\ jar'.flash = told'
  BY <1>4, <1>6
<1>8. CASE a.kind = "sent"
  <2>1. tab.hops + 1 \in Nat /\ Asking(a.url, tab.hops + 1) \in BrowserTab
    BY <1>3, <1>5, AskingShape
  <2>2. (IF Lands(a) /\ goal # Nowhere THEN {<<goal, a.url.page>>} ELSE {}) \in LandedPairs
    BY <1>3, <1>5 DEF LandedPairs
  <2>3. /\ tab' \in BrowserTab /\ tab'.at = "asks" /\ tab'.method = "GET" /\ tab'.url = a.url /\ tab'.hops = tab.hops + 1 /\ tab'.token = a.token
        /\ tab'.landed = IF Lands(a) /\ goal # Nowhere THEN {<<goal, a.url.page>>} ELSE {}
    <3> DEFINE landed == IF Lands(a) /\ goal # Nowhere THEN {<<goal, a.url.page>>} ELSE {}
    <3>1. [Asking(a.url, tab.hops + 1) EXCEPT !.token = a.token, !.landed = landed] \in BrowserTab
      BY <1>3, <2>1, <2>2, TabGoes
    <3>2. tab' = [Asking(a.url, tab.hops + 1) EXCEPT !.token = a.token, !.landed = landed]
      BY <1>4, <1>8
    <3> HIDE DEF landed
    <3>3. /\ tab'.at = "asks" /\ tab'.method = "GET" /\ tab'.url = a.url /\ tab'.hops = tab.hops + 1 /\ tab'.token = a.token /\ tab'.landed = landed
      BY <1>3, <2>1, <3>2 DEF Asking
    <3> QED BY <3>1, <3>2, <3>3 DEF landed
  <2>4. BrowserShape'
    BY <1>3, <1>4, <1>5, <1>6, <2>3 DEF BrowserShape
  <2>5. CookiesStand'
    BY <1>2, <1>4, <1>7, <1>8 DEF CookiesStand, Reply, KeepsSession, BrowserIInv
  <2>6. FormsStand' /\ NoticeDrawnOnce'
    BY <2>3 DEF FormsStand, NoticeDrawnOnce
  <2>7. HopsLeft' = Onward(a.url.page, a.token, a.me, a.session)
    BY <1>4, <1>7, <2>3 DEF HopsLeft
  <2>8. HopsCounted'
    <3>1. HopsLeft \in Int
      BY <1>3, OnwardBound DEF BrowserIInv, BrowserShape, BrowserTab, SiteUrl, HopsLeft
    <3>2. Onward(a.url.page, a.token, a.me, a.session) \in 0..2 /\ Onward(a.url.page, a.token, a.me, a.session) < HopsLeft
      BY <1>2, <1>3, <1>8, OnwardBound DEF Reply, HopsLessen
    <3> QED BY <1>4, <1>5, <2>3, <2>7, <3>1, <3>2 DEF HopsCounted, BrowserIInv
  <2>9. GoalCarried'
    <3>1. \A l \in mailbox' : l.goal # Nowhere => (landing(l.goal) = l.goal /\ landing(l.next) = l.goal)
      BY <1>2, <1>4 DEF Reply, KeepsGoal, BrowserIInv, GoalCarried
    <3>2. goal' # Nowhere => landing(goal') = goal'
      BY <1>2, <1>4 DEF Reply, KeepsGoal, BrowserIInv, GoalCarried
    <3>3. (goal' # Nowhere /\ a.url.page \in EntryPages) => landing(a.url.next) = goal'
      <4>1. CASE a.stopped # Nowhere
        BY <1>2, <1>4, <4>1 DEF Reply, KeepsGoal, Url
      <4>2. CASE a.stopped = Nowhere
        BY <1>2, <1>4, <1>8, <4>2 DEF Reply, KeepsGoal, TellsWay
      <4> QED BY <4>1, <4>2
    <3> QED BY <2>3, <3>1, <3>2, <3>3 DEF GoalCarried
  <2>10. LandsWhereWanted'
    BY <1>2, <2>3 DEF LandsWhereWanted, Reply, KeepsGoal
  <2> QED BY <2>4, <2>5, <2>6, <2>8, <2>9, <2>10 DEF BrowserIInv
<1>9. CASE a.kind \in {"drawn", "missing"}
  <2>1. a.stopped = Nowhere /\ ~Lands(a) /\ ~Forgets(a) /\ goal' = goal
    BY <1>2, <1>4, <1>9 DEF Reply, KeepsGoal, Lands, Forgets
  <2>2. /\ tab' \in BrowserTab /\ tab'.at = "drawn" /\ tab'.url = a.url /\ tab'.field = a.field /\ tab'.hops = 0 /\ tab'.flashes = jar.flash /\ tab'.due = told
        /\ tab'.csrf = (IF jar.csrf = NoCookie THEN 1 ELSE jar.csrf) /\ tab'.landed = {}
    <3> DEFINE token == IF jar.csrf = NoCookie THEN 1 ELSE jar.csrf
    <3>1. token \in {NoCookie, 1}
      BY <1>5
    <3> HIDE DEF token
    <3>2. tab' = [tab EXCEPT !.at = "drawn", !.url = a.url, !.field = a.field, !.hops = 0, !.shows = a.shows, !.flashes = jar.flash, !.due = told, !.csrf = token, !.landed = {}]
      BY <1>4, <1>9 DEF token
    <3>3. /\ tab \in BrowserTab /\ a.url \in SiteUrl /\ a.field \in FieldValue /\ a.shows \in SUBSET {"mine"} /\ jar.flash \in NoticeName /\ told \in NoticeName
          /\ {} \in LandedPairs
      BY <1>3, <1>5 DEF LandedPairs
    <3>4. tab' \in BrowserTab
      <4>1. \A url \in SiteUrl, field \in FieldValue, shows \in SUBSET {"mine"}, flashes \in NoticeName, due \in NoticeName :
              [tab EXCEPT !.at = "drawn", !.url = url, !.field = field, !.hops = 0, !.shows = shows, !.flashes = flashes, !.due = due, !.csrf = token, !.landed = {}] \in BrowserTab
        BY <3>1, <3>3, TabDraws
      <4> QED BY <3>2, <3>3, <4>1
    <3>5. /\ tab'.at = "drawn" /\ tab'.url = a.url /\ tab'.field = a.field /\ tab'.hops = 0 /\ tab'.flashes = jar.flash /\ tab'.due = told
          /\ tab'.csrf = token /\ tab'.landed = {}
      <4>1. DOMAIN tab = {"at", "method", "url", "from", "field", "action", "form", "csrf", "token", "hops", "shows", "flashes", "due", "landed"}
        BY <3>3 DEF BrowserTab
      <4> QED BY <3>2, <4>1
    <3> QED BY <3>4, <3>5 DEF token
  <2>3. BrowserShape'
    BY <1>3, <1>4, <1>5, <1>6, <2>1, <2>2 DEF BrowserShape
  <2>4. CookiesStand'
    BY <1>2, <1>4, <1>5, <1>7, <1>9 DEF CookiesStand, Reply, KeepsSession, BrowserIInv, NoCookie
  <2>5. FormsStand' /\ NoticeDrawnOnce'
    BY <1>2, <1>5, <1>9, <2>2 DEF FormsStand, NoticeDrawnOnce, Reply, KeepsGoal, NoCookie
  <2>6. HopsCounted'
    BY <1>4, <1>5, <2>2 DEF HopsCounted, HopsLeft
  <2>7. GoalCarried'
    <3>1. \A l \in mailbox' : l.goal # Nowhere => (landing(l.goal) = l.goal /\ landing(l.next) = l.goal)
      BY <1>2, <1>4 DEF Reply, KeepsGoal, BrowserIInv, GoalCarried
    <3>2. (goal # Nowhere /\ a.url.page \in EntryPages) => landing(a.field) = goal /\ (a.url.next # Nowhere => landing(a.url.next) = goal)
      BY <1>2, <1>9, <2>1 DEF Reply, KeepsGoal
    <3> QED BY <2>1, <2>2, <3>1, <3>2 DEF GoalCarried, BrowserIInv
  <2>8. LandsWhereWanted'
    BY <2>2 DEF LandsWhereWanted
  <2> QED BY <2>3, <2>4, <2>5, <2>6, <2>7, <2>8 DEF BrowserIInv
<1>10. CASE a.kind = "left"
  <2>1. a.stopped = Nowhere /\ ~Lands(a) /\ ~Forgets(a) /\ goal' = goal
    BY <1>2, <1>4, <1>10 DEF Reply, KeepsGoal, Lands, Forgets
  <2>2. tab' \in BrowserTab /\ tab'.at = "gateway" /\ tab'.hops = 0 /\ tab'.landed = tab.landed
    BY <1>4, <1>5, <1>10, TabLeaves
  <2>3. BrowserShape'
    BY <1>3, <1>4, <1>5, <1>6, <2>1, <2>2 DEF BrowserShape
  <2>4. CookiesStand'
    BY <1>2, <1>4, <1>7, <1>10 DEF CookiesStand, Reply, KeepsSession, BrowserIInv
  <2>5. FormsStand' /\ NoticeDrawnOnce' /\ LandsWhereWanted'
    BY <2>2 DEF FormsStand, NoticeDrawnOnce, LandsWhereWanted, BrowserIInv
  <2>6. HopsCounted'
    BY <1>4, <1>5, <2>2 DEF HopsCounted, HopsLeft
  <2>7. GoalCarried'
    <3>1. \A l \in mailbox' : l.goal # Nowhere => (landing(l.goal) = l.goal /\ landing(l.next) = l.goal)
      BY <1>2, <1>4 DEF Reply, KeepsGoal, BrowserIInv, GoalCarried
    <3> QED BY <2>1, <2>2, <3>1 DEF GoalCarried, BrowserIInv
  <2> QED BY <2>3, <2>4, <2>5, <2>6, <2>7 DEF BrowserIInv
<1> QED BY <1>3, <1>8, <1>9, <1>10

\* A page is asked for by a click: the account, the cookies and the posted stay.
LEMMA AsksStep ==
  ASSUME BrowserIInv, NEW url \in SiteUrl, NEW token \in Nat, tab' = [Asking(url, 0) EXCEPT !.token = token], goal' \in Destination, clicks' \in Nat,
         UNCHANGED <<asksProof, me, sale, jar, mailbox, told, turns>>,
         goal' # Nowhere => (landing(goal') = goal' /\ (url.page \in EntryPages => landing(url.next) = goal'))
  PROVE  BrowserIInv'
<1>1. Asking(url, 0) \in BrowserTab
  BY AskingShape
<1>2. [Asking(url, 0) EXCEPT !.token = token] \in BrowserTab
  BY <1>1, TabTold
<1>3. tab' \in BrowserTab
  BY <1>2
<1>4. tab'.at = "asks" /\ tab'.method = "GET" /\ tab'.url = url /\ tab'.hops = 0 /\ tab'.token = token /\ tab'.landed = {}
  BY DEF Asking
<1>5. BrowserShape'
  BY <1>3 DEF BrowserIInv, BrowserShape
<1>6. CookiesStand' /\ FormsStand' /\ NoticeDrawnOnce' /\ LandsWhereWanted'
  BY <1>4 DEF BrowserIInv, CookiesStand, FormsStand, NoticeDrawnOnce, LandsWhereWanted
<1>7. HopsCounted'
  <2>1. url.page \in SitePages /\ me \in PersonRow /\ jar.session \in Nat /\ turns \in Nat
    BY DEF BrowserIInv, BrowserShape, SiteUrl
  <2>2. HopsLeft' = Onward(url.page, token, me, jar.session)
    BY <1>4 DEF HopsLeft
  <2>3. Onward(url.page, token, me, jar.session) \in 0..2
    BY <2>1, OnwardBound
  <2> QED BY <1>4, <2>1, <2>2, <2>3 DEF HopsCounted
<1>8. GoalCarried'
  BY <1>4 DEF GoalCarried, BrowserIInv
<1> QED BY <1>5, <1>6, <1>7, <1>8 DEF BrowserIInv

LEMMA OpensPageStep == BrowserIInv /\ (\E url \in Asked_url : Opens_page(url)) => BrowserIInv'
<1> SUFFICES ASSUME BrowserIInv, NEW url \in Asked_url, Opens_page(url) PROVE BrowserIInv'
  OBVIOUS
<1>1. url \in SiteUrl
  BY DEF Asked_url, SiteUrl, To, Url, Destination, SitePages, PrivatePages, AUTH_PAGES, Record, Nowhere, Outside
<1>2. tab' = [Asking(url, 0) EXCEPT !.token = 0]
  BY DEF Opens_page, Asking
<1>3. goal' = Nowhere /\ Nowhere \in Destination /\ clicks' \in Nat /\ UNCHANGED <<asksProof, me, sale, jar, mailbox, told, turns>>
  BY DEF Opens_page, Clicked, Destination, BrowserIInv, BrowserShape
<1> QED BY <1>1, <1>2, <1>3, AsksStep

LEMMA FollowsLinkStep == BrowserIInv /\ (\E page \in {"login", "signup", "recovery", "email-login"} : FollowsLink(page)) => BrowserIInv'
<1> SUFFICES ASSUME BrowserIInv, NEW page \in {"login", "signup", "recovery", "email-login"}, FollowsLink(page) PROVE BrowserIInv'
  OBVIOUS
<1> DEFINE url == Url(page, tab.field, Nowhere)
<1>1. tab.at = "drawn" /\ tab.url.page \in EntryPages
  BY DEF FollowsLink, Clicked, EntryPages, AUTH_PAGES
<1>2. tab.field \in Destination /\ (goal # Nowhere => landing(tab.field) = goal /\ landing(goal) = goal)
  BY <1>1 DEF BrowserIInv, FormsStand, GoalCarried
<1>3. url \in SiteUrl /\ url.next = tab.field
  BY <1>2 DEF Url, SiteUrl, SitePages, AUTH_PAGES
<1>4. tab' = [Asking(url, 0) EXCEPT !.token = 0]
  BY DEF FollowsLink, Asking
<1>5. goal' = goal /\ goal \in Destination /\ clicks' \in Nat /\ UNCHANGED <<asksProof, me, sale, jar, mailbox, told, turns>>
  BY DEF FollowsLink, Clicked, BrowserIInv, BrowserShape
<1> HIDE DEF url
<1> QED BY <1>2, <1>3, <1>4, <1>5, AsksStep

LEMMA OpensLetterStep == BrowserIInv /\ (\E l \in mailbox : OpensLetter(l)) => BrowserIInv'
<1> SUFFICES ASSUME BrowserIInv, NEW l \in mailbox, OpensLetter(l) PROVE BrowserIInv'
  OBVIOUS
<1> DEFINE url == Url(l.kind, l.next, Nowhere)
<1>1. l \in LetterSent /\ l.kind \in {"confirm", "reset"} /\ l.next \in Destination /\ l.goal \in Destination /\ l.token \in Nat
  BY DEF BrowserIInv, BrowserShape, LetterSent
<1>2. url \in SiteUrl /\ url.next = l.next
  BY <1>1 DEF Url, SiteUrl, SitePages, Record
<1>3. tab' = [Asking(url, 0) EXCEPT !.token = l.token]
  BY DEF OpensLetter
<1>4. goal' = l.goal /\ clicks' \in Nat /\ UNCHANGED <<asksProof, me, sale, jar, mailbox, told, turns>>
  BY DEF OpensLetter, Clicked, BrowserIInv, BrowserShape
<1>5. l.goal # Nowhere => (landing(l.goal) = l.goal /\ landing(l.next) = l.goal)
  BY DEF BrowserIInv, GoalCarried
<1> HIDE DEF url
<1> QED BY <1>1, <1>2, <1>3, <1>4, <1>5, AsksStep

LEMMA GatewayReturnsStep == BrowserIInv /\ (\E page \in {"success", "error"}, id \in {"mine", Nowhere} : GatewayReturns(page, id)) => BrowserIInv'
<1> SUFFICES ASSUME BrowserIInv, NEW page \in {"success", "error"}, NEW id \in {"mine", Nowhere}, GatewayReturns(page, id) PROVE BrowserIInv'
  OBVIOUS
<1> DEFINE url == Url(page, Nowhere, id)
<1>1. url \in SiteUrl /\ url.page \notin EntryPages
  BY DEF Url, SiteUrl, SitePages, Record, Destination, EntryPages, AUTH_PAGES
<1>2. tab' = [Asking(url, 0) EXCEPT !.token = 0]
  BY DEF GatewayReturns, Asking
<1>3. goal' = goal /\ goal \in Destination /\ clicks' \in Nat /\ UNCHANGED <<asksProof, me, sale, jar, mailbox, told, turns>>
  BY DEF GatewayReturns, BrowserIInv, BrowserShape
<1>4. goal # Nowhere => landing(goal) = goal
  BY DEF BrowserIInv, GoalCarried
<1> HIDE DEF url
<1> QED BY <1>1, <1>2, <1>3, <1>4, AsksStep

\* A form is sent from the page that draws it.
LEMMA SendsFormStep ==
  ASSUME BrowserIInv, NEW f, NEW how \in {"good", "bad"}, SendsForm(f, how)
  PROVE  BrowserIInv'
<1>1. /\ tab.at = "drawn" /\ f \in FormsOf(tab.url.page) \cup {"logout"} /\ clicks' \in Nat
      /\ tab' = [Asking(tab.url, 0) EXCEPT !.method = "POST", !.from = tab.url, !.field = tab.field, !.action = f, !.form = how, !.csrf = tab.csrf, !.token = tab.token]
      /\ goal' = (IF f = "logout" THEN Nowhere ELSE goal) /\ UNCHANGED <<asksProof, me, sale, jar, mailbox, told, turns>>
  BY DEF SendsForm, Clicked, BrowserIInv, BrowserShape
<1>2. /\ tab \in BrowserTab /\ tab.url \in SiteUrl /\ tab.url.page \in SitePages /\ tab.field \in FieldValue /\ tab.csrf = 1 /\ tab.token \in Nat
      /\ goal \in Destination /\ Nowhere \in Destination /\ turns \in Nat
  BY <1>1 DEF BrowserIInv, BrowserShape, BrowserTab, FormsStand, SiteUrl, Destination
<1>3. /\ f \in ActionName /\ f # Nowhere
      /\ f \in EntryPages => tab.url.page \in EntryPages
      /\ f \in PrivateForms => tab.url.page \notin EntryPages
  <2>1. f = "logout" \/ f \in FormsOf(tab.url.page)
    BY <1>1
  <2>2. CASE f = "logout"
    BY <2>2 DEF ActionName, Nowhere, EntryPages, AUTH_PAGES, PrivateForms
  <2>3. CASE tab.url.page = "profile" /\ f \in FormsOf(tab.url.page)
    BY <2>3 DEF FormsOf, ActionName, Nowhere, EntryPages, AUTH_PAGES, PrivateForms
  <2>4. CASE tab.url.page # "profile" /\ f \in FormsOf(tab.url.page)
    <3>1. tab.url.page \in AUTH_PAGES \cup {"confirmation", "confirm", "reset", "password", "address", "delete", "connections", "product", "plans"} /\ f = tab.url.page
      BY <2>4 DEF FormsOf
    <3> QED BY <3>1 DEF ActionName, Nowhere, EntryPages, AUTH_PAGES, PrivateForms
  <2> QED BY <2>1, <2>2, <2>3, <2>4
<1>4. /\ tab' \in BrowserTab
      /\ tab'.at = "asks" /\ tab'.method = "POST" /\ tab'.url = tab.url /\ tab'.from = tab.url /\ tab'.field = tab.field /\ tab'.action = f
      /\ tab'.csrf = 1 /\ tab'.token = tab.token /\ tab'.hops = 0 /\ tab'.landed = {}
  <2>1. tab' = [at |-> "asks", method |-> "POST", url |-> tab.url, from |-> tab.url, field |-> tab.field, action |-> f, form |-> how, csrf |-> tab.csrf,
                token |-> tab.token, hops |-> 0, shows |-> {}, flashes |-> Silent, due |-> Silent, landed |-> {}]
    BY <1>1 DEF Asking
  <2>2. Silent \in NoticeName /\ {} \in LandedPairs /\ how \in {"good", "bad", Nowhere} /\ tab.csrf \in {NoCookie, 1} /\ {} \in SUBSET {"mine"}
    BY <1>2 DEF NoticeName, LandedPairs
  <2>3. tab' \in BrowserTab
    BY <1>2, <1>3, <2>1, <2>2 DEF BrowserTab
  <2> QED BY <1>2, <2>1, <2>3
<1>5. BrowserShape'
  BY <1>1, <1>2, <1>4 DEF BrowserIInv, BrowserShape
<1>6. CookiesStand' /\ NoticeDrawnOnce' /\ LandsWhereWanted'
  BY <1>1, <1>4 DEF BrowserIInv, CookiesStand, NoticeDrawnOnce, LandsWhereWanted
<1>7. FormsStand'
  BY <1>1, <1>3, <1>4 DEF BrowserIInv, FormsStand
<1>8. HopsCounted'
  BY <1>1, <1>2, <1>4 DEF BrowserIInv, HopsCounted, HopsLeft, CookiesStand
<1>9. GoalCarried'
  BY <1>1, <1>3, <1>4 DEF BrowserIInv, GoalCarried
<1> QED BY <1>5, <1>6, <1>7, <1>8, <1>9 DEF BrowserIInv

\* What happens elsewhere costs a request one redirect at most.
LEMMA ElsewhereStep ==
  ASSUME BrowserIInv, Turned, sale' \in {"none", "PENDING", "PAID", "FAILED"}, me' \in PersonRow, jar' \in [session : Nat, flash : NoticeName, csrf : {NoCookie, 1}],
         told' \in NoticeName, jar'.flash = told', jar'.session <= me'.epoch, me'.status = "PENDING" => me'.confirmation # 0,
         HopsLeft' <= HopsLeft + 1
  PROVE  BrowserIInv'
<1>1. turns' = turns + 1 /\ turns \in Nat /\ turns' \in Nat /\ UNCHANGED <<asksProof, tab, mailbox, goal, clicks>>
  BY DEF Turned, BrowserIInv, BrowserShape
<1>2. BrowserShape' /\ CookiesStand' /\ FormsStand' /\ NoticeDrawnOnce' /\ LandsWhereWanted' /\ GoalCarried'
  BY <1>1 DEF BrowserIInv, BrowserShape, CookiesStand, FormsStand, NoticeDrawnOnce, LandsWhereWanted, GoalCarried
<1>3. HopsCounted'
  <2>1. HopsLeft \in 0..3 /\ tab.hops \in Nat
    BY OnwardBound DEF BrowserIInv, BrowserShape, BrowserTab, SiteUrl, HopsLeft
  <2>2. HopsLeft' \in 0..3
    BY <1>1, OnwardBound DEF BrowserIInv, BrowserShape, BrowserTab, SiteUrl, HopsLeft
  <2> QED BY <1>1, <2>1, <2>2 DEF BrowserIInv, HopsCounted
<1> QED BY <1>2, <1>3 DEF BrowserIInv

LEMMA MovesElsewhereStep == BrowserIInv /\ (\E person \in Moved : MovesElsewhere(person)) => BrowserIInv'
<1> SUFFICES ASSUME BrowserIInv, NEW person \in Moved, MovesElsewhere(person) PROVE BrowserIInv'
  OBVIOUS
<1>1. /\ Turned /\ me.status = "ACTIVE" /\ me' = person /\ UNCHANGED <<sale, jar, told, tab>>
  BY DEF MovesElsewhere, Turned
<1>2. /\ me \in PersonRow /\ jar \in [session : Nat, flash : NoticeName, csrf : {NoCookie, 1}] /\ jar.session \in Nat /\ jar.session <= me.epoch /\ jar.flash = told /\ told \in NoticeName
      /\ sale \in {"none", "PENDING", "PAID", "FAILED"} /\ tab.url.page \in SitePages /\ tab.token \in Nat /\ me.epoch \in Nat
  BY DEF BrowserIInv, BrowserShape, BrowserTab, SiteUrl, CookiesStand, PersonRow
<1>3. /\ person \in PersonRow /\ person.status \in {"ACTIVE", "ERASED"} /\ person.recovery = 0 /\ person.epoch >= me.epoch
      /\ ~SignedIn(person, jar.session)
  <2>1. CASE person = [me EXCEPT !.epoch = @ + 1, !.recovery = 0]
    <3>1. person \in PersonRow /\ person.status = "ACTIVE" /\ person.recovery = 0 /\ person.epoch = me.epoch + 1
      BY <1>1, <1>2, <2>1, PersonFacts DEF PersonRow
    <3> QED BY <1>2, <3>1 DEF SignedIn
  <2>2. CASE person = [me EXCEPT !.status = "ERASED", !.confirmation = 0, !.recovery = 0]
    <3>1. person \in PersonRow /\ person.status = "ERASED" /\ person.recovery = 0 /\ person.epoch = me.epoch
      BY <1>1, <1>2, <2>2, PersonFacts DEF PersonRow
    <3> QED BY <1>2, <3>1 DEF SignedIn
  <2> QED BY <2>1, <2>2 DEF Moved
<1>4. Onward(tab.url.page, tab.token, person, jar.session) <= Onward(tab.url.page, tab.token, me, jar.session) + 1
  BY <1>1, <1>2, <1>3 DEF Onward, PrivatePages
<1>5. HopsLeft' <= HopsLeft + 1
  BY <1>1, <1>2, <1>4 DEF HopsLeft
<1>6. jar'.session <= me'.epoch
  BY <1>1, <1>2, <1>3 DEF PersonRow
<1> QED BY <1>1, <1>2, <1>3, <1>5, <1>6, ElsewhereStep

LEMMA PaymentSettlesStep == BrowserIInv /\ (\E status \in {"PAID", "FAILED"} : PaymentSettles(status)) => BrowserIInv'
<1> SUFFICES ASSUME BrowserIInv, NEW status \in {"PAID", "FAILED"}, PaymentSettles(status) PROVE BrowserIInv'
  OBVIOUS
<1>1. Turned /\ sale' = status /\ UNCHANGED <<me, jar, told, tab>>
  BY DEF PaymentSettles, Turned
<1>2. /\ me \in PersonRow /\ jar \in [session : Nat, flash : NoticeName, csrf : {NoCookie, 1}] /\ jar.session <= me.epoch /\ jar.flash = told /\ told \in NoticeName
      /\ me.status = "PENDING" => me.confirmation # 0
  BY DEF BrowserIInv, BrowserShape, CookiesStand
<1>3. HopsLeft' = HopsLeft /\ HopsLeft \in Int
  BY <1>1, OnwardBound DEF HopsLeft, BrowserIInv, BrowserShape, BrowserTab, SiteUrl
<1> QED BY <1>1, <1>2, <1>3, ElsewhereStep

LEMMA LapsesStep == BrowserIInv /\ (\E what \in {"flash", "csrf", "session", "window"} : Lapses(what)) => BrowserIInv'
<1> SUFFICES ASSUME BrowserIInv, NEW what \in {"flash", "csrf", "session", "window"}, Lapses(what) PROVE BrowserIInv'
  OBVIOUS
<1>1. Turned /\ sale' = sale /\ tab' = tab
  BY DEF Lapses, Turned
<1>2. /\ me \in PersonRow /\ jar \in [session : Nat, flash : NoticeName, csrf : {NoCookie, 1}] /\ jar.session \in Nat /\ jar.session <= me.epoch /\ jar.flash = told /\ told \in NoticeName
      /\ sale \in {"none", "PENDING", "PAID", "FAILED"} /\ tab.url.page \in SitePages /\ tab.token \in Nat /\ me.epoch \in Nat /\ me.epoch # 0
      /\ me.status = "PENDING" => me.confirmation # 0
      /\ Silent \in NoticeName /\ NoCookie \in Nat
  BY DEF BrowserIInv, BrowserShape, BrowserTab, SiteUrl, CookiesStand, PersonRow, NoticeName, NoCookie
<1>3. CASE what = "flash"
  <2>1. jar' = [jar EXCEPT !.flash = Silent] /\ told' = Silent /\ me' = me
    BY <1>3 DEF Lapses
  <2>2. jar' \in [session : Nat, flash : NoticeName, csrf : {NoCookie, 1}] /\ jar'.flash = told' /\ jar'.session = jar.session /\ jar'.csrf = jar.csrf
    BY <1>2, <2>1
  <2>3. HopsLeft' = HopsLeft /\ HopsLeft \in Int
    BY <1>1, <1>2, <2>1, <2>2, OnwardBound DEF HopsLeft
  <2> QED BY <1>1, <1>2, <2>1, <2>2, <2>3, ElsewhereStep
<1>4. CASE what = "csrf"
  <2>1. jar' = [jar EXCEPT !.csrf = NoCookie] /\ told' = told /\ me' = me
    BY <1>4 DEF Lapses
  <2>2. jar' \in [session : Nat, flash : NoticeName, csrf : {NoCookie, 1}] /\ jar'.flash = told' /\ jar'.session = jar.session
    BY <1>2, <2>1
  <2>3. HopsLeft' <= HopsLeft + 1
    BY <1>1, <1>2, <2>1, <2>2, OnwardBound DEF HopsLeft
  <2> QED BY <1>1, <1>2, <2>1, <2>2, <2>3, ElsewhereStep
<1>5. CASE what = "session"
  <2>1. jar' = [jar EXCEPT !.session = NoCookie] /\ told' = told /\ me' = me
    BY <1>5 DEF Lapses
  <2>2. jar' \in [session : Nat, flash : NoticeName, csrf : {NoCookie, 1}] /\ jar'.flash = told' /\ jar'.session = NoCookie /\ jar'.csrf = jar.csrf
    BY <1>2, <2>1
  <2>3. Onward(tab.url.page, tab.token, me, NoCookie) <= Onward(tab.url.page, tab.token, me, jar.session) + 1
    BY <1>2 DEF Onward, PrivatePages, SignedIn, NoCookie
  <2>4. HopsLeft' <= HopsLeft + 1
    BY <1>1, <1>2, <2>1, <2>2, <2>3 DEF HopsLeft
  <2>5. jar'.session <= me'.epoch
    BY <1>2, <2>1, <2>2 DEF NoCookie
  <2> QED BY <1>1, <1>2, <2>1, <2>2, <2>4, <2>5, ElsewhereStep
<1>6. CASE what = "window"
  <2>1. me' = [me EXCEPT !.held = {}] /\ jar' = jar /\ told' = told
    BY <1>6 DEF Lapses
  <2>2. me' \in PersonRow /\ me'.epoch = me.epoch /\ me'.status = me.status /\ me'.confirmation = me.confirmation /\ me'.recovery = me.recovery
    BY <1>2, <2>1, PersonFacts DEF PersonRow
  <2>3. Onward(tab.url.page, tab.token, me, jar.session) = Onward(tab.url.page, tab.token, me', jar.session)
    BY <2>2 DEF Onward, SignedIn
  <2>4. HopsLeft' = HopsLeft /\ HopsLeft \in Int
    BY <1>1, <1>2, <2>1, <2>3, OnwardBound DEF HopsLeft
  <2> QED BY <1>1, <1>2, <2>1, <2>2, <2>4, ElsewhereStep
<1> QED BY <1>3, <1>4, <1>5, <1>6

LEMMA BrowserStart == BrowserInit => BrowserIInv
<1> SUFFICES ASSUME BrowserInit PROVE BrowserIInv
  OBVIOUS
<1>1. /\ To("home") \in SiteUrl /\ Silent \in NoticeName /\ Nowhere \in Destination /\ 0 \in Nat /\ {} \in SUBSET LetterSent
      /\ "home" \notin EntryPages
  BY DEF To, Url, SiteUrl, SitePages, Record, NoticeName, Destination, EntryPages, AUTH_PAGES
<1>2. /\ me \in PersonRow /\ me.epoch = 1 /\ me.status \in {"none", "ACTIVE"} /\ jar \in [session : Nat, flash : NoticeName, csrf : {NoCookie, 1}]
      /\ jar.session <= 1 /\ jar.csrf = 1 /\ jar.flash = Silent
  BY <1>1 DEF BrowserInit, PersonRow, NoCookie
<1>3. /\ tab \in BrowserTab /\ tab.at = "drawn" /\ tab.url = To("home") /\ tab.csrf = 1 /\ tab.hops = 0 /\ tab.landed = {} /\ tab.flashes = Silent /\ tab.due = Silent
  <2>1. tab = [at |-> "drawn", method |-> "GET", url |-> To("home"), from |-> To("home"), field |-> Nowhere, action |-> Nowhere, form |-> Nowhere, csrf |-> 1,
               token |-> 0, hops |-> 0, shows |-> {}, flashes |-> Silent, due |-> Silent, landed |-> {}]
    BY DEF BrowserInit, Asking
  <2>2. Nowhere \in FieldValue /\ Nowhere \in ActionName /\ {} \in LandedPairs /\ {} \in SUBSET {"mine"}
    BY <1>1 DEF FieldValue, ActionName, LandedPairs
  <2> QED BY <1>1, <2>1, <2>2 DEF BrowserTab
<1>4. BrowserShape
  BY <1>1, <1>2, <1>3 DEF BrowserInit, BrowserShape
<1>5. CookiesStand /\ NoticeDrawnOnce /\ LandsWhereWanted /\ HopsCounted
  BY <1>2, <1>3 DEF BrowserInit, CookiesStand, NoticeDrawnOnce, LandsWhereWanted, HopsCounted, HopsLeft, NoCookie
<1>6. FormsStand /\ GoalCarried
  BY <1>1, <1>3 DEF BrowserInit, FormsStand, GoalCarried, To, Url
<1> QED BY <1>4, <1>5, <1>6 DEF BrowserIInv

LEMMA BrowserStep == BrowserIInv /\ [BrowserNext]_browserVars => BrowserIInv'
<1> SUFFICES ASSUME BrowserIInv, [BrowserNext]_browserVars PROVE BrowserIInv'
  OBVIOUS
<1>1. CASE UNCHANGED browserVars
  BY <1>1 DEF browserVars, BrowserIInv, BrowserShape, CookiesStand, FormsStand, HopsCounted, HopsLeft, GoalCarried, NoticeDrawnOnce, LandsWhereWanted
<1>2. CASE \E f \in UNION {FormsOf(p) : p \in SitePages} \cup {"logout"}, how \in {"good", "bad"} : SendsForm(f, how)
  BY <1>2, SendsFormStep
<1> QED BY <1>1, <1>2, AnswersStep, OpensPageStep, FollowsLinkStep, OpensLetterStep, GatewayReturnsStep, MovesElsewhereStep, PaymentSettlesStep, LapsesStep DEF BrowserNext

LEMMA BrowserFollows == BrowserIInv => BrowserInv
<1> SUFFICES ASSUME BrowserIInv PROVE BrowserInv
  OBVIOUS
<1>1. BrowserTypeOK
  BY DEF BrowserIInv, BrowserShape, BrowserTypeOK, PersonRow, BrowserTab, SiteUrl
<1>2. RedirectsEnd
  BY OnwardBound DEF BrowserIInv, HopsCounted, HopsLeft, RedirectsEnd, BrowserShape, BrowserTab, SiteUrl
<1>3. DrawnIsOwn
  BY DEF BrowserIInv, BrowserShape, BrowserTab, DrawnIsOwn
<1> QED BY <1>1, <1>2, <1>3 DEF BrowserInv, BrowserIInv

\* However many clicks, posted, devices and lapses: the pages send nobody round, put a person stopped to sign in where they were going, tell what was done
\* once, and draw nobody else's records.
THEOREM PeopleArrive == BrowserInit /\ [][BrowserNext]_browserVars => []BrowserInv
BY BrowserStart, BrowserStep, BrowserFollows, PTL

-----------------------------------------------------------------------------
(* A listing read page after page.                                         *)

\* A question every filter of which is read.
AnsweredIn(q) == q \in Query /\ q.filter \notin {"unknown", "unreadable"}

\* The table is of numbered rows, and an account page takes no filter.
TableKept ==
  /\ IsFiniteSet(DOMAIN listed) /\ DOMAIN listed \subseteq Nat
  /\ query.surface = "site" => query.filter = "absent"

\* The first rows of an order, so many of them.
FirstOf(seen, s, many) ==
  /\ Len(seen) = IF many < Len(s) THEN many ELSE Len(s)
  /\ \A n \in 1 .. Len(seen) : seen[n] = s[n]

\* What was seen so far are the first rows of the only order there is, a page of them for every page read.
ReadSoFar ==
  (walk.at = "reads" /\ AnsweredIn(query) /\ (query.surface = "site" => walk.page <= LAST_PAGE)) =>
    \A s \in Orders(query) : FirstOf(walk.seen, s, walk.page * query.limit)

\* An account page is still read where there is a page after the last one read, also when no number can ask for it.
StillMore ==
  (walk.at = "reads" /\ query.surface = "site" /\ walk.page > 0) =>
    \A s \in Orders(query) : pages(Len(s), query.limit) > IF walk.page < LAST_PAGE THEN walk.page ELSE LAST_PAGE

\* What ended was read, to the last row of the order or as the options of a form.
Ended ==
  /\ walk.at = "read" => AnsweredIn(query) /\ walk.seen \in Orders(query)
  /\ walk.at = "offered" => AnsweredIn(query) /\ \A n \in DOMAIN walk.seen : walk.seen[n] \in Matching(query)

ListingIInv == ListingTypeOK /\ TableKept /\ ReadSoFar /\ StillMore /\ Ended

\* What matches is reached, has the value asked for and is found by the search asked for.
LEMMA MatchingRows ==
  ASSUME ListingTypeOK, TableKept, NEW q \in Query, AnsweredIn(q)
  PROVE  /\ Matching(q) \subseteq DOMAIN listed /\ Matching(q) \subseteq Nat
         /\ IsFiniteSet(Matching(q)) /\ Cardinality(Matching(q)) \in Nat
         /\ \A i \in Matching(q) : listed[i].reached /\ (q.filter = "value" => listed[i].value = 1) /\ (q.search => listed[i].found)
<1>1. Matching(q) \subseteq DOMAIN listed
  BY DEF Matching, confine, apply_filters, apply_search
<1>2. IsFiniteSet(Matching(q)) /\ Cardinality(Matching(q)) \in Nat
  BY <1>1, FS_Subset, FS_CardinalityType DEF TableKept
<1>3. \A i \in Matching(q) : listed[i].reached
  BY DEF Matching, confine
<1>4. \A i \in Matching(q) : q.filter = "value" => listed[i].value = 1
  BY DEF Matching, confine, apply_filters, parse_filters, coerce
<1>5. \A i \in Matching(q) : q.search => listed[i].found
  BY DEF Matching, confine, apply_filters, apply_search
<1> QED BY <1>1, <1>2, <1>3, <1>4, <1>5 DEF TableKept

\* An order holds every row that matches and none twice.
LEMMA OrderHoldsAll ==
  ASSUME ListingTypeOK, TableKept, NEW q \in Query, AnsweredIn(q), NEW s \in Orders(q)
  PROVE  /\ s \in Seq(Matching(q)) /\ s \in Seq(DOMAIN listed) /\ Len(s) = Cardinality(Matching(q)) /\ Len(s) \in Nat
         /\ {s[n] : n \in 1 .. Len(s)} = Matching(q)
         /\ \A m, n \in 1 .. Len(s) : m < n => s[m] # s[n] /\ apply_ordering(q, s[m], s[n])
<1> DEFINE ids == Matching(q)
           N == Cardinality(ids)
<1>1. /\ ids \subseteq DOMAIN listed /\ ids \subseteq Nat /\ IsFiniteSet(ids) /\ N \in Nat
  BY MatchingRows
<1>2. s \in [1 .. N -> ids] /\ \A m, n \in DOMAIN s : m < n => s[m] # s[n] /\ apply_ordering(q, s[m], s[n])
  BY DEF Orders
<1> HIDE DEF ids, N
<1>3. \A m, n \in 1 .. N : m < n => s[m] # s[n]
  BY <1>2
<1>4. s \in Seq(ids) /\ Len(s) = N
  BY <1>1, <1>2
<1>5. \A m, n \in 1 .. N : s[m] = s[n] => m = n
  BY <1>1, <1>3
<1>6. s \in Injection(1 .. N, ids)
  BY <1>2, <1>5 DEF Injection, IsInjective
<1>7. Cardinality(1 .. N) = N
  BY <1>1, FS_Interval
<1>8. s \in Surjection(1 .. N, ids)
  BY <1>1, <1>6, <1>7, FS_Injection DEF N
<1>9. {s[n] : n \in 1 .. N} = ids
  BY <1>2, <1>8 DEF Surjection
<1>10. s \in Seq(DOMAIN listed)
  BY <1>1, <1>4
<1> QED BY <1>1, <1>2, <1>4, <1>9, <1>10 DEF ids, N

\* The key breaks every tie, so there is one order only.
LEMMA OneOrder ==
  ASSUME ListingTypeOK, TableKept, NEW q \in Query, AnsweredIn(q), NEW s \in Orders(q), NEW t \in Orders(q)
  PROVE  s = t
<1> DEFINE ids == Matching(q)
           N == Cardinality(ids)
<1>1. /\ ids \subseteq DOMAIN listed /\ ids \subseteq Nat /\ N \in Nat
  BY MatchingRows
<1>2. /\ s \in Seq(ids) /\ Len(s) = N /\ {s[n] : n \in 1 .. N} = ids
      /\ \A m, n \in 1 .. N : m < n => s[m] # s[n] /\ apply_ordering(q, s[m], s[n])
  BY OrderHoldsAll
<1>3. /\ t \in Seq(ids) /\ Len(t) = N /\ {t[n] : n \in 1 .. N} = ids
      /\ \A m, n \in 1 .. N : m < n => t[m] # t[n] /\ apply_ordering(q, t[m], t[n])
  BY OrderHoldsAll
<1>4. \A i, j \in ids : apply_ordering(q, i, j) /\ apply_ordering(q, j, i) => i = j
  <2>1. \A i \in ids : i \in Nat /\ listed[i].position \in Nat
    BY <1>1 DEF ListingTypeOK, ListRow
  <2> QED BY <2>1 DEF apply_ordering
<1> HIDE DEF ids, N
<1> DEFINE Apart == {n \in 1 .. N : s[n] # t[n]}
<1>5. CASE Apart = {}
  <2>1. \A n \in 1 .. N : s[n] = t[n]
    BY <1>5
  <2> QED BY <1>1, <1>2, <1>3, <2>1
<1>6. CASE Apart # {}
  <2>1. PICK n \in Apart : \A k \in Apart : n <= k
    <3>1. Apart \in SUBSET Nat
      BY <1>1
    <3> HIDE DEF Apart
    <3> QED BY <1>6, <3>1, HasLeast
  <2>2. n \in 1 .. N /\ s[n] # t[n] /\ \A k \in 1 .. N : k < n => s[k] = t[k]
    BY <1>1, <2>1
  <2>3. s[n] \in ids /\ t[n] \in ids
    BY <1>2, <1>3, <2>2
  <2>4. PICK k \in 1 .. N : t[k] = s[n]
    BY <1>3, <2>3
  <2>5. PICK m \in 1 .. N : s[m] = t[n]
    BY <1>2, <2>3
  <2>6. n < k
    <3>1. k # n
      BY <2>2, <2>4
    <3>2. CASE k < n
      <4>1. s[k] = s[n]
        BY <2>2, <2>4, <3>2
      <4> QED BY <1>2, <2>2, <3>2, <4>1
    <3> QED BY <1>1, <2>2, <3>1, <3>2
  <2>7. n < m
    <3>1. m # n
      BY <2>2, <2>5
    <3>2. CASE m < n
      <4>1. t[m] = t[n]
        BY <2>2, <2>5, <3>2
      <4> QED BY <1>3, <2>2, <3>2, <4>1
    <3> QED BY <1>1, <2>2, <3>1, <3>2
  <2>8. apply_ordering(q, t[n], s[n])
    BY <1>3, <2>2, <2>4, <2>6
  <2>9. apply_ordering(q, s[n], t[n])
    BY <1>2, <2>2, <2>5, <2>7
  <2> QED BY <1>4, <2>2, <2>3, <2>8, <2>9
<1> QED BY <1>5, <1>6

\* A page is the rows of the order from its offset on, as far as there are any.
LEMMA PageRows ==
  ASSUME NEW S, NEW s \in Seq(S), NEW offset \in Nat, NEW limit \in Nat \ {0}, offset <= Len(s)
  PROVE  /\ PageOf(s, offset, limit) \in Seq(S)
         /\ Len(PageOf(s, offset, limit)) = (IF offset + limit < Len(s) THEN limit ELSE Len(s) - offset)
         /\ \A n \in 1 .. Len(PageOf(s, offset, limit)) : PageOf(s, offset, limit)[n] = s[offset + n]
<1> DEFINE last == IF offset + limit < Len(s) THEN offset + limit ELSE Len(s)
<1>1. last \in Nat /\ last <= Len(s) /\ offset <= last /\ Len(s) \in Nat
  OBVIOUS
<1>2. PageOf(s, offset, limit) = [n \in 1 .. last - offset |-> s[offset + n]]
  <2>1. PageOf(s, offset, limit) = SubSeq(s, offset + 1, last)
    BY DEF PageOf
  <2>2. SubSeq(s, offset + 1, last) = [n \in 1 .. (1 + last - (offset + 1)) |-> s[n + (offset + 1) - 1]]
    BY <1>1
  <2>3. 1 + last - (offset + 1) = last - offset /\ \A n \in Nat : n + (offset + 1) - 1 = offset + n
    BY <1>1
  <2> QED BY <1>1, <2>1, <2>2, <2>3
<1>3. \A n \in 1 .. last - offset : s[offset + n] \in S
  BY <1>1
<1> QED BY <1>1, <1>2, <1>3
\* The first rows and the page after them are the first rows of one page more.
LEMMA PageExtends ==
  ASSUME NEW S, NEW s \in Seq(S), NEW seen \in Seq(S), NEW offset \in Nat, NEW limit \in Nat \ {0}, FirstOf(seen, s, offset)
  PROVE  LET more == seen \o PageOf(s, offset, limit)
         IN more \in Seq(S) /\ FirstOf(more, s, offset + limit)
<1> DEFINE drawn == PageOf(s, offset, limit)
           more == seen \o drawn
<1>1. Len(s) \in Nat /\ Len(seen) \in Nat
  OBVIOUS
<1>2. CASE offset <= Len(s)
  <2>1. /\ drawn \in Seq(S) /\ Len(drawn) = (IF offset + limit < Len(s) THEN limit ELSE Len(s) - offset)
        /\ \A n \in 1 .. Len(drawn) : drawn[n] = s[offset + n]
    BY <1>1, <1>2, PageRows
  <2>2. Len(seen) = offset /\ \A n \in 1 .. offset : seen[n] = s[n]
    BY <1>1, <1>2 DEF FirstOf
  <2> HIDE DEF drawn
  <2>3. more \in Seq(S) /\ Len(more) = offset + Len(drawn) /\ \A n \in 1 .. Len(more) : more[n] = IF n <= offset THEN seen[n] ELSE drawn[n - offset]
    <3>1. \A a, b \in Seq(S) : a \o b \in Seq(S) /\ Len(a \o b) = Len(a) + Len(b) /\ \A n \in 1 .. Len(a \o b) : (a \o b)[n] = IF n <= Len(a) THEN a[n] ELSE b[n - Len(a)]
      BY ConcatProperties
    <3> QED BY <2>1, <2>2, <3>1
  <2>4. Len(more) = IF offset + limit < Len(s) THEN offset + limit ELSE Len(s)
    BY <1>1, <1>2, <2>1, <2>3
  <2>5. ASSUME NEW n \in 1 .. Len(more) PROVE more[n] = s[n]
    <3>1. n \in Nat /\ Len(more) \in Nat /\ Len(drawn) \in Nat /\ n >= 1 /\ n <= offset + Len(drawn)
      BY <1>1, <2>1, <2>3
    <3>2. CASE n <= offset
      BY <2>2, <2>3, <3>1, <3>2
    <3>3. CASE n > offset
      <4>1. n - offset \in 1 .. Len(drawn) /\ offset + (n - offset) = n
        BY <1>1, <3>1, <3>3
      <4>2. drawn[n - offset] = s[offset + (n - offset)]
        BY <2>1, <4>1
      <4> QED BY <1>1, <2>3, <3>1, <3>3, <4>1, <4>2
    <3> QED BY <1>1, <3>1, <3>2, <3>3
  <2>6. FirstOf(more, s, offset + limit)
    BY <2>4, <2>5 DEF FirstOf
  <2> QED BY <1>1, <2>3, <2>6 DEF drawn
<1>3. CASE offset > Len(s)
  <2>1. Len(seen) = Len(s) /\ \A n \in 1 .. Len(s) : seen[n] = s[n]
    BY <1>1, <1>3 DEF FirstOf
  <2>2. drawn = <<>>
    <3>1. PageOf(s, offset, limit) = SubSeq(s, offset + 1, Len(s))
      BY <1>1, <1>3 DEF PageOf
    <3> QED BY <1>1, <1>3, <3>1
  <2> HIDE DEF drawn
  <2>3. more = seen
    BY <2>2
  <2>4. FirstOf(more, s, offset + limit)
    BY <1>1, <1>3, <2>1, <2>3 DEF FirstOf
  <2> QED BY <1>1, <2>3, <2>4 DEF drawn
<1> QED BY <1>1, <1>2, <1>3

\* The last page drawn is the one that holds the last row.
LEMMA LastPage ==
  ASSUME NEW many \in Nat, NEW limit \in Nat \ {0}, NEW page \in Nat, page >= pages(many, limit)
  PROVE  page * limit >= many
<1> DEFINE whole == (many + limit - 1) \div limit
<1>1. whole \in Int /\ whole * limit > many - 1
  OBVIOUS
<1> HIDE DEF whole
<1>2. page >= whole
  BY <1>1 DEF pages, whole
<1>3. page * limit >= whole * limit
  BY <1>1, <1>2
<1> QED BY <1>1, <1>3

\* A listing read to the last of its first rows is the order.
LEMMA FirstRowsAreAll ==
  ASSUME NEW S, NEW s \in Seq(S), NEW seen \in Seq(S), NEW many \in Nat, many >= Len(s), FirstOf(seen, s, many)
  PROVE  seen = s
<1>1. Len(seen) = Len(s) /\ \A n \in 1 .. Len(s) : seen[n] = s[n]
  BY DEF FirstOf
<1> QED BY <1>1

\* What is asked is the same for every page, and so are its orders.
LEMMA OrdersStay ==
  ASSUME UNCHANGED <<listed, query>>
  PROVE  /\ TableKept => TableKept'
         /\ \A q : Matching(q) = (Matching(q))' /\ Orders(q) = (Orders(q))'
<1>1. TableKept => TableKept'
  BY DEF TableKept
<1>2. \A q : Matching(q) = (Matching(q))'
  BY DEF Matching, confine, apply_filters, apply_search
<1>3. \A q : Orders(q) = (Orders(q))'
  BY <1>2 DEF Orders, apply_ordering
<1> QED BY <1>1, <1>2, <1>3

LEMMA ListingStart == ListingInit => ListingIInv
<1> SUFFICES ASSUME ListingInit PROVE ListingIInv  OBVIOUS
<1>1. listed \in ListTables /\ query \in ListQueries /\ walk = [at |-> "reads", page |-> 0, seen |-> <<>>]
  BY DEF ListingInit
<1>2. ListingTypeOK /\ TableKept
  BY <1>1, ListingAssumption DEF ListingTypeOK, TableKept
<1>3. query.limit \in Nat /\ 0 * query.limit = 0
  BY <1>2 DEF ListingTypeOK, Query
<1>4. ReadSoFar
  <2> SUFFICES ASSUME AnsweredIn(query), NEW s \in Orders(query) PROVE FirstOf(walk.seen, s, walk.page * query.limit)
    BY DEF ReadSoFar
  <2>1. Len(s) \in Nat
    BY <1>2, OrderHoldsAll DEF AnsweredIn
  <2> QED BY <1>1, <1>3, <2>1 DEF FirstOf
<1>5. StillMore /\ Ended
  BY <1>1 DEF StillMore, Ended
<1> QED BY <1>2, <1>4, <1>5 DEF ListingIInv

\* A page more: what was seen before it are the first rows of the order the database answers now.
LEMMA PageMore ==
  ASSUME ListingIInv, walk.at = "reads", AnsweredIn(query), query.surface = "site" => walk.page <= LAST_PAGE, NEW s \in Orders(query)
  PROVE  LET more == walk.seen \o PageOf(s, walk.page * query.limit, query.limit)
         IN /\ more \in Seq(DOMAIN listed) /\ more \in Seq(Matching(query))
            /\ FirstOf(more, s, (walk.page + 1) * query.limit)
            /\ (walk.page + 1) * query.limit >= Len(s) => more = s
<1> DEFINE offset == walk.page * query.limit
           more == walk.seen \o PageOf(s, offset, query.limit)
<1>1. /\ walk.page \in Nat /\ query \in Query /\ query.limit \in Nat \ {0} /\ walk.seen \in Seq(DOMAIN listed)
  BY DEF ListingIInv, ListingTypeOK, Query
<1>2. offset \in Nat /\ (walk.page + 1) * query.limit = offset + query.limit
  BY <1>1
<1>3. s \in Seq(Matching(query)) /\ s \in Seq(DOMAIN listed) /\ Len(s) \in Nat
  BY <1>1, OrderHoldsAll DEF ListingIInv
<1>4. FirstOf(walk.seen, s, offset)
  BY DEF ListingIInv, ReadSoFar
<1>5. walk.seen \in Seq(Matching(query))
  <2>1. \A n \in 1 .. Len(walk.seen) : walk.seen[n] = s[n] /\ n \in 1 .. Len(s)
    BY <1>1, <1>2, <1>3, <1>4 DEF FirstOf
  <2>2. \A n \in 1 .. Len(walk.seen) : walk.seen[n] \in Matching(query)
    BY <1>3, <2>1
  <2> QED BY <1>1, <2>2
<1> HIDE DEF offset
<1>6. more \in Seq(Matching(query)) /\ FirstOf(more, s, offset + query.limit)
  BY <1>1, <1>2, <1>3, <1>4, <1>5, PageExtends
<1>7. more \in Seq(DOMAIN listed)
  BY <1>1, <1>2, <1>3, <1>4, PageExtends
<1> HIDE DEF more
<1>8. offset + query.limit >= Len(s) => more = s
  BY <1>1, <1>2, <1>3, <1>6, FirstRowsAreAll
<1> QED BY <1>2, <1>6, <1>7, <1>8 DEF more, offset

\* A page read makes the walk one page and its rows longer.
LEMMA WalkGoesOn ==
  ASSUME NEW ids, NEW w \in [at : {"reads", "read", "offered", "refused"}, page : Nat, seen : Seq(ids)], NEW more \in Seq(ids), NEW at \in {"read", "reads"}
  PROVE  LET next == [w EXCEPT !.seen = more, !.page = w.page + 1, !.at = at]
         IN /\ next.seen = more /\ next.page = w.page + 1 /\ next.at = at
            /\ next \in [at : {"reads", "read", "offered", "refused"}, page : Nat, seen : Seq(ids)]
<1> DEFINE drawn == Seq(ids)
<1>1. w.page + 1 \in Nat /\ more \in drawn /\ w \in [at : {"reads", "read", "offered", "refused"}, page : Nat, seen : drawn]
  OBVIOUS
<1> HIDE DEF drawn
<1> QED BY <1>1 DEF drawn

LEMMA PaginateKeeps == ListingIInv /\ paginate => ListingIInv'
<1> SUFFICES ASSUME ListingIInv, paginate PROVE ListingIInv'  OBVIOUS
<1>1. /\ UNCHANGED <<listed, query>> /\ query.surface = "panel" /\ walk.at = "reads"
      /\ walk.page \in Nat /\ query \in Query /\ query.limit \in Nat \ {0} /\ walk.seen \in Seq(DOMAIN listed)
  BY DEF paginate, ListingIInv, ListingTypeOK, Query
<1>2. /\ TableKept' /\ \A q : Matching(q) = (Matching(q))' /\ Orders(q) = (Orders(q))'
  BY <1>1, OrdersStay DEF ListingIInv
<1>3. CASE Refused(query)
  <2>1. walk' = [walk EXCEPT !.at = "refused"]
    BY <1>3 DEF paginate
  <2>2. walk'.at = "refused" /\ walk' \in [at : {"reads", "read", "offered", "refused"}, page : Nat, seen : Seq(DOMAIN listed)]
    BY <2>1 DEF ListingIInv, ListingTypeOK
  <2>3. ListingTypeOK'
    BY <1>1, <2>2 DEF ListingIInv, ListingTypeOK
  <2> QED BY <1>2, <2>2, <2>3 DEF ListingIInv, ReadSoFar, StillMore, Ended
<1>4. CASE ~Refused(query)
  <2>1. AnsweredIn(query)
    BY <1>1, <1>4 DEF Refused, AnsweredIn, parse_filters
  <2>2. PICK s \in Orders(query) :
          walk' = [walk EXCEPT !.seen = @ \o PageOf(s, walk.page * query.limit, query.limit), !.page = @ + 1,
                               !.at = IF (walk.page + 1) * query.limit >= Len(s) THEN "read" ELSE "reads"]
    BY <1>4 DEF paginate
  <2> DEFINE more == walk.seen \o PageOf(s, walk.page * query.limit, query.limit)
  <2>3. /\ walk'.seen = more /\ walk'.page = walk.page + 1
        /\ walk'.at = IF (walk.page + 1) * query.limit >= Len(s) THEN "read" ELSE "reads"
    BY <2>2 DEF ListingIInv, ListingTypeOK
  <2>4. /\ more \in Seq(DOMAIN listed) /\ FirstOf(more, s, (walk.page + 1) * query.limit)
        /\ (walk.page + 1) * query.limit >= Len(s) => more = s
    BY <1>1, <2>1, PageMore
  <2> HIDE DEF more
  <2>5. \A t \in Orders(query) : t = s
    BY <1>1, <2>1, OneOrder DEF ListingIInv
  <2>6. ListingTypeOK'
    <3>1. walk' \in [at : {"reads", "read", "offered", "refused"}, page : Nat, seen : Seq(DOMAIN listed)]
      <4>1. walk' = [walk EXCEPT !.seen = more, !.page = walk.page + 1, !.at = IF (walk.page + 1) * query.limit >= Len(s) THEN "read" ELSE "reads"]
        BY <2>2 DEF more
      <4>2. ASSUME NEW at \in {"read", "reads"} PROVE [walk EXCEPT !.seen = more, !.page = walk.page + 1, !.at = at]
                   \in [at : {"reads", "read", "offered", "refused"}, page : Nat, seen : Seq(DOMAIN listed)]
        BY <2>4, WalkGoesOn DEF ListingIInv, ListingTypeOK
      <4> QED BY <4>1, <4>2
    <3> QED BY <1>1, <3>1 DEF ListingIInv, ListingTypeOK
  <2>7. ReadSoFar'
    <3>1. \A t \in Orders(query) : FirstOf(walk'.seen, t, walk'.page * query.limit)
      BY <2>3, <2>4, <2>5
    <3> QED BY <1>1, <1>2, <3>1 DEF ReadSoFar
  <2>8. StillMore'
    BY <1>1 DEF StillMore
  <2>9. Ended'
    <3>1. AnsweredIn(query)'
      BY <1>1, <2>1 DEF AnsweredIn
    <3>2. walk'.at = "read" => walk'.seen = s
      BY <2>3, <2>4
    <3> QED BY <1>1, <1>2, <2>3, <3>1, <3>2 DEF Ended
  <2> QED BY <1>2, <2>6, <2>7, <2>8, <2>9 DEF ListingIInv
<1> QED BY <1>3, <1>4

LEMMA LookupKeeps == ListingIInv /\ lookup => ListingIInv'
<1> SUFFICES ASSUME ListingIInv, lookup PROVE ListingIInv'  OBVIOUS
<1>1. /\ UNCHANGED <<listed, query>> /\ query.surface = "lookup" /\ walk.at = "reads"
      /\ walk.page \in Nat /\ query \in Query /\ query.limit \in Nat \ {0} /\ walk.seen \in Seq(DOMAIN listed)
  BY DEF lookup, ListingIInv, ListingTypeOK, Query
<1>2. /\ TableKept' /\ \A q : Matching(q) = (Matching(q))' /\ Orders(q) = (Orders(q))'
  BY <1>1, OrdersStay DEF ListingIInv
<1>3. CASE Refused(query)
  <2>1. walk' = [walk EXCEPT !.at = "refused"]
    BY <1>3 DEF lookup
  <2>2. walk'.at = "refused" /\ walk' \in [at : {"reads", "read", "offered", "refused"}, page : Nat, seen : Seq(DOMAIN listed)]
    BY <2>1 DEF ListingIInv, ListingTypeOK
  <2>3. ListingTypeOK'
    BY <1>1, <2>2 DEF ListingIInv, ListingTypeOK
  <2> QED BY <1>2, <2>2, <2>3 DEF ListingIInv, ReadSoFar, StillMore, Ended
<1>4. CASE ~Refused(query)
  <2> DEFINE asked == label_ordering(query)
  <2>1. AnsweredIn(query)
    BY <1>1, <1>4 DEF Refused, AnsweredIn, parse_filters
  <2>2. asked \in Query /\ AnsweredIn(asked) /\ asked.filter = query.filter /\ asked.search = query.search
    BY <1>1, <2>1 DEF label_ordering, AnsweredIn, Query
  <2>3. Matching(asked) = Matching(query)
    BY <2>2 DEF Matching, confine, apply_filters, apply_search, parse_filters, coerce
  <2>4. PICK s \in Orders(asked) : walk' = [walk EXCEPT !.seen = PageOf(s, 0, query.limit), !.at = "offered"]
    BY <1>4 DEF lookup
  <2>5. walk'.seen = PageOf(s, 0, query.limit) /\ walk'.at = "offered" /\ walk'.page = walk.page
    BY <2>4 DEF ListingIInv, ListingTypeOK
  <2> HIDE DEF asked
  <2>6. s \in Seq(Matching(query)) /\ s \in Seq(DOMAIN listed) /\ Len(s) \in Nat
    BY <2>2, <2>3, OrderHoldsAll DEF ListingIInv
  <2>7. walk'.seen \in Seq(Matching(query)) /\ walk'.seen \in Seq(DOMAIN listed)
    BY <1>1, <2>5, <2>6, PageRows
  <2>8. \A n \in DOMAIN walk'.seen : walk'.seen[n] \in Matching(query)
    BY <2>7
  <2>9. ListingTypeOK' /\ ReadSoFar' /\ StillMore'
    <3>1. walk' \in [at : {"reads", "read", "offered", "refused"}, page : Nat, seen : Seq(DOMAIN listed)]
      BY <1>1, <2>4, <2>5, <2>7 DEF ListingIInv, ListingTypeOK
    <3>2. ListingTypeOK'
      BY <1>1, <3>1 DEF ListingIInv, ListingTypeOK
    <3> QED BY <2>5, <3>2 DEF ReadSoFar, StillMore
  <2>10. Ended'
    <3>1. AnsweredIn(query)'
      BY <1>1, <2>1 DEF AnsweredIn
    <3>2. \A n \in DOMAIN walk'.seen : walk'.seen[n] \in Matching(query)'
      BY <1>1, <1>2, <2>8
    <3> QED BY <1>1, <2>5, <3>1, <3>2 DEF Ended
  <2> QED BY <1>2, <2>9, <2>10 DEF ListingIInv
<1> QED BY <1>3, <1>4

LEMMA AccountListKeeps == ListingIInv /\ list_for_account => ListingIInv'
<1> SUFFICES ASSUME ListingIInv, list_for_account PROVE ListingIInv'  OBVIOUS
<1>1. /\ UNCHANGED <<listed, query>> /\ query.surface = "site" /\ walk.at = "reads"
      /\ walk.page \in Nat /\ query \in Query /\ query.limit \in Nat \ {0} /\ walk.seen \in Seq(DOMAIN listed)
      /\ LAST_PAGE \in Nat \ {0}
  BY ListingAssumption DEF list_for_account, ListingIInv, ListingTypeOK, Query
<1>2. /\ TableKept' /\ \A q : Matching(q) = (Matching(q))' /\ Orders(q) = (Orders(q))'
  BY <1>1, OrdersStay DEF ListingIInv
<1> DEFINE page == page_number(walk.page + 1)
<1>3. AnsweredIn(query) /\ AnsweredIn(query)'
  BY <1>1 DEF AnsweredIn, ListingIInv, TableKept
<1>4. PICK s \in Orders(query) :
        walk' = [walk EXCEPT !.seen = @ \o PageOf(s, (page - 1) * query.limit, query.limit), !.page = @ + 1,
                             !.at = IF page >= pages(Len(s), query.limit) THEN "read" ELSE "reads"]
  BY DEF list_for_account
<1>5. page \in Nat \ {0} /\ page = IF walk.page + 1 <= LAST_PAGE THEN walk.page + 1 ELSE 1
  BY <1>1 DEF page_number
<1>6. s \in Seq(DOMAIN listed) /\ Len(s) \in Nat
  BY <1>1, <1>3, OrderHoldsAll DEF ListingIInv
<1> DEFINE drawn == PageOf(s, (page - 1) * query.limit, query.limit)
           last == pages(Len(s), query.limit)
<1>7. last \in Int
  BY <1>1, <1>6 DEF pages
<1>8. \A t \in Orders(query) : t = s
  BY <1>1, <1>3, OneOrder DEF ListingIInv
<1>9. drawn \in Seq(DOMAIN listed)
  <2>1. (page - 1) * query.limit \in Nat
    BY <1>1, <1>5
  <2>2. ASSUME NEW offset \in Nat PROVE PageOf(s, offset, query.limit) \in Seq(DOMAIN listed)
    <3>1. CASE offset <= Len(s)
      BY <1>1, <1>6, <3>1, PageRows
    <3>2. CASE offset > Len(s)
      <4>1. PageOf(s, offset, query.limit) = <<>>
        BY <1>1, <1>6, <3>2 DEF PageOf
      <4> QED BY <4>1
    <3> QED BY <1>6, <3>1, <3>2
  <2> QED BY <2>1, <2>2
<1> HIDE DEF page, drawn, last
<1>10. /\ walk'.seen = walk.seen \o drawn /\ walk'.page = walk.page + 1 /\ walk'.at = IF page >= last THEN "read" ELSE "reads"
       /\ walk' \in [at : {"reads", "read", "offered", "refused"}, page : Nat, seen : Seq(DOMAIN listed)]
  <2>1. walk' = [walk EXCEPT !.seen = walk.seen \o drawn, !.page = walk.page + 1, !.at = IF page >= last THEN "read" ELSE "reads"]
    BY <1>4 DEF drawn, last, page
  <2>2. walk.seen \o drawn \in Seq(DOMAIN listed)
    BY <1>1, <1>9, ConcatProperties
  <2> DEFINE more == walk.seen \o drawn
  <2> HIDE DEF more
  <2>3. ASSUME NEW at \in {"read", "reads"}
        PROVE  LET next == [walk EXCEPT !.seen = more, !.page = walk.page + 1, !.at = at]
               IN /\ next.seen = more /\ next.page = walk.page + 1 /\ next.at = at
                  /\ next \in [at : {"reads", "read", "offered", "refused"}, page : Nat, seen : Seq(DOMAIN listed)]
    BY <2>2, WalkGoesOn DEF ListingIInv, ListingTypeOK, more
  <2> QED BY <2>1, <2>3 DEF more
<1>11. ListingTypeOK'
  BY <1>1, <1>10 DEF ListingIInv, ListingTypeOK
<1>12. CASE walk.page + 1 <= LAST_PAGE
  <2>1. page = walk.page + 1 /\ page - 1 = walk.page /\ walk.page <= LAST_PAGE
    BY <1>1, <1>5, <1>12
  <2>2. /\ FirstOf(walk'.seen, s, (walk.page + 1) * query.limit)
        /\ (walk.page + 1) * query.limit >= Len(s) => walk'.seen = s
    BY <1>1, <1>3, <1>10, <2>1, PageMore DEF drawn
  <2>3. ReadSoFar'
    <3>1. \A t \in Orders(query) : FirstOf(walk'.seen, t, walk'.page * query.limit)
      BY <1>8, <1>10, <2>2
    <3> QED BY <1>1, <1>2, <3>1 DEF ReadSoFar
  <2>4. ASSUME walk'.at = "reads" PROVE last > IF walk'.page < LAST_PAGE THEN walk'.page ELSE LAST_PAGE
    BY <1>1, <1>5, <1>7, <1>10, <1>12, <2>1, <2>4
  <2>5. StillMore'
    <3>1. walk'.at = "reads" => \A t \in Orders(query) : pages(Len(t), query.limit) > IF walk'.page < LAST_PAGE THEN walk'.page ELSE LAST_PAGE
      BY <1>8, <2>4 DEF last
    <3> QED BY <1>1, <1>2, <3>1 DEF StillMore
  <2>6. walk'.at = "read" => walk'.seen = s
    <3> SUFFICES ASSUME walk'.at = "read" PROVE walk'.seen = s  OBVIOUS
    <3>1. page >= last
      BY <1>10
    <3>2. page * query.limit >= Len(s)
      BY <1>1, <1>5, <1>6, <3>1, LastPage DEF last
    <3> QED BY <2>1, <2>2, <3>2
  <2>7. Ended'
    BY <1>1, <1>2, <1>3, <1>10, <2>6 DEF Ended
  <2> QED BY <1>2, <1>11, <2>3, <2>5, <2>7 DEF ListingIInv
<1>13. CASE walk.page + 1 > LAST_PAGE
  <2>1. page = 1 /\ walk.page >= LAST_PAGE /\ walk.page > 0
    BY <1>1, <1>5, <1>13
  <2>2. last > LAST_PAGE
    <3>1. last > IF walk.page < LAST_PAGE THEN walk.page ELSE LAST_PAGE
      BY <1>1, <2>1 DEF ListingIInv, StillMore, last
    <3> QED BY <1>1, <1>7, <2>1, <3>1
  <2>3. walk'.at = "reads" /\ walk'.page > LAST_PAGE
    BY <1>1, <1>7, <1>10, <1>13, <2>1, <2>2
  <2>4. ReadSoFar' /\ Ended'
    BY <1>1, <1>10, <2>3 DEF ReadSoFar, Ended
  <2>5. StillMore'
    <3>1. \A t \in Orders(query) : pages(Len(t), query.limit) > IF walk'.page < LAST_PAGE THEN walk'.page ELSE LAST_PAGE
      BY <1>1, <1>8, <1>10, <2>2, <2>3 DEF last
    <3> QED BY <1>1, <1>2, <3>1 DEF StillMore
  <2> QED BY <1>2, <1>11, <2>4, <2>5 DEF ListingIInv
<1> QED BY <1>1, <1>12, <1>13

LEMMA ListingStep == ListingIInv /\ [ListingNext]_listingVars => ListingIInv'
<1> SUFFICES ASSUME ListingIInv, [ListingNext]_listingVars PROVE ListingIInv'  OBVIOUS
<1>1. CASE UNCHANGED listingVars
  <2>1. UNCHANGED <<listed, query>> /\ walk' = walk
    BY <1>1 DEF listingVars
  <2>2. TableKept' /\ Matching(query)' = Matching(query) /\ Orders(query)' = Orders(query)
    BY <2>1, OrdersStay DEF ListingIInv
  <2> QED BY <2>1, <2>2 DEF ListingIInv, ListingTypeOK, ReadSoFar, StillMore, Ended, AnsweredIn
<1> QED BY <1>1, PaginateKeeps, LookupKeeps, AccountListKeeps DEF ListingNext

LEMMA ListingFollows == ListingIInv => ListingInv
<1> SUFFICES ASSUME ListingIInv PROVE ListingInv  OBVIOUS
<1>1. ListingTypeOK /\ TableKept /\ query \in Query /\ walk.seen \in Seq(DOMAIN listed)
  BY DEF ListingIInv, ListingTypeOK
<1>2. EveryRowOnce
  <2> SUFFICES ASSUME walk.at = "read"
               PROVE  {walk.seen[n] : n \in DOMAIN walk.seen} = Matching(query) /\ Len(walk.seen) = Cardinality(Matching(query))
    BY DEF EveryRowOnce
  <2>1. AnsweredIn(query) /\ walk.seen \in Orders(query)
    BY DEF ListingIInv, Ended
  <2> QED BY <1>1, <2>1, OrderHoldsAll
<1>3. NarrowedAsAsked
  <2> SUFFICES ASSUME walk.at \in {"read", "offered"}
               PROVE  /\ query.filter \notin {"unknown", "unreadable"}
                      /\ \A n \in DOMAIN walk.seen :
                           /\ listed[walk.seen[n]].reached
                           /\ query.filter = "value" => listed[walk.seen[n]].value = 1
                           /\ query.search => listed[walk.seen[n]].found
    BY DEF NarrowedAsAsked
  <2>1. AnsweredIn(query)
    BY DEF ListingIInv, Ended
  <2>2. \A n \in DOMAIN walk.seen : walk.seen[n] \in Matching(query)
    <3>1. CASE walk.at = "offered"
      BY <3>1 DEF ListingIInv, Ended
    <3>2. CASE walk.at = "read"
      <4>1. {walk.seen[n] : n \in DOMAIN walk.seen} = Matching(query)
        BY <1>2, <3>2 DEF EveryRowOnce
      <4> QED BY <4>1
    <3> QED BY <3>1, <3>2
  <2> QED BY <1>1, <2>1, <2>2, MatchingRows DEF AnsweredIn
<1> QED BY <1>1, <1>2, <1>3 DEF ListingInv

\* However many rows share a position, whatever the database answers ties in, and also past the last page a number can ask for: a listing read to its end
\* held every row asked for once, and none was answered that the question leaves out.
THEOREM PagesHoldAll == ListingInit /\ [][ListingNext]_listingVars => []ListingInv
BY ListingStart, ListingStep, ListingFollows, PTL

-----------------------------------------------------------------------------
(* The civil calendar.                                                     *)

\* A day there is, and its place among all days.
CivilDay(d) == d \in [year : Nat, month : 1 .. 12, day : Nat \ {0}] /\ d.day <= monthrange(d.year, d.month)
Place(d) == DaysBefore(d.year, d.month) + d.day

\* Every fourth year is a leap one, but three of the four that end a century.
LEMMA LeapsCounted ==
  ASSUME NEW y \in Nat
  PROVE  ((y + 4) \div 4) - ((y + 100) \div 100) + ((y + 400) \div 400)
         = ((y + 3) \div 4) - ((y + 99) \div 100) + ((y + 399) \div 400) + IF Leap(y) THEN 1 ELSE 0
<1>1. ((y + 4) \div 4) = ((y + 3) \div 4) + IF y % 4 = 0 THEN 1 ELSE 0
  OBVIOUS
<1>2. ((y + 100) \div 100) = ((y + 99) \div 100) + IF y % 100 = 0 THEN 1 ELSE 0
  OBVIOUS
<1>3. ((y + 400) \div 400) = ((y + 399) \div 400) + IF y % 400 = 0 THEN 1 ELSE 0
  OBVIOUS
<1>4. (y % 400 = 0 => y % 100 = 0) /\ (y % 100 = 0 => y % 4 = 0)
  OBVIOUS
<1>5. /\ (y + 4) \div 4 \in Int /\ (y + 3) \div 4 \in Int /\ (y + 100) \div 100 \in Int
      /\ (y + 99) \div 100 \in Int /\ (y + 400) \div 400 \in Int /\ (y + 399) \div 400 \in Int
  OBVIOUS
<1> QED BY <1>1, <1>2, <1>3, <1>4, <1>5 DEF Leap

\* Where every month begins.
LEMMA MonthsBegin ==
  ASSUME NEW y \in Nat
  PROVE  LET first == DaysBefore(y, 1)
             leap == IF Leap(y) THEN 1 ELSE 0
         IN /\ first \in Int
            /\ DaysBefore(y, 2) = first + 31 /\ DaysBefore(y, 3) = first + 59 + leap /\ DaysBefore(y, 4) = first + 90 + leap
            /\ DaysBefore(y, 5) = first + 120 + leap /\ DaysBefore(y, 6) = first + 151 + leap /\ DaysBefore(y, 7) = first + 181 + leap
            /\ DaysBefore(y, 8) = first + 212 + leap /\ DaysBefore(y, 9) = first + 243 + leap /\ DaysBefore(y, 10) = first + 273 + leap
            /\ DaysBefore(y, 11) = first + 304 + leap /\ DaysBefore(y, 12) = first + 334 + leap
            /\ DaysBefore(y + 1, 1) = first + 365 + leap
<1> DEFINE leaps == ((y + 3) \div 4) - ((y + 99) \div 100) + ((y + 399) \div 400)
           next == ((y + 4) \div 4) - ((y + 100) \div 100) + ((y + 400) \div 400)
           before == <<0, 31, 59, 90, 120, 151, 181, 212, 243, 273, 304, 334>>
           leap == IF Leap(y) THEN 1 ELSE 0
<1>1. leaps \in Int /\ next \in Int /\ next = leaps + leap
  BY LeapsCounted
<1>2. (y + 1) + 3 = y + 4 /\ (y + 1) + 99 = y + 100 /\ (y + 1) + 399 = y + 400
  OBVIOUS
<1>3. \A m \in 1 .. 12 : DaysBefore(y, m) = 365 * y + leaps + before[m] + (IF m > 2 /\ Leap(y) THEN 1 ELSE 0)
  BY DEF DaysBefore
<1>4. DaysBefore(y + 1, 1) = 365 * (y + 1) + next + before[1] + 0
  <2>1. DaysBefore(y + 1, 1) = 365 * (y + 1) + ((((y + 1) + 3) \div 4) - (((y + 1) + 99) \div 100) + (((y + 1) + 399) \div 400)) + before[1] + 0
    BY DEF DaysBefore
  <2> QED BY <1>2, <2>1
<1> HIDE DEF leaps, next
<1> QED BY <1>1, <1>3, <1>4

\* A year has more than nothing, and the years before another one end before it.
LEMMA YearsGrow ==
  ASSUME NEW y \in Nat, NEW z \in Nat
  PROVE  /\ DaysBefore(y + z, 1) \in Int /\ DaysBefore(y + z, 1) >= DaysBefore(y, 1) + 365 * z
<1> DEFINE Short == {k \in Nat : DaysBefore(y + k, 1) < DaysBefore(y, 1) + 365 * k}
<1>1. \A k \in Nat : DaysBefore(y + k, 1) \in Int /\ DaysBefore(y + (k + 1), 1) >= DaysBefore(y + k, 1) + 365
  <2> TAKE k \in Nat
  <2>1. y + k \in Nat /\ y + (k + 1) = (y + k) + 1
    OBVIOUS
  <2> HIDE DEF Short
  <2> QED BY <2>1, MonthsBegin
<1>2. ASSUME Short # {} PROVE FALSE
  <2>1. PICK k \in Short : \A l \in Short : k <= l
    <3>1. Short \in SUBSET Nat
      OBVIOUS
    <3> HIDE DEF Short
    <3> QED BY <1>2, <3>1, HasLeast
  <2>2. k \in Nat /\ DaysBefore(y + k, 1) < DaysBefore(y, 1) + 365 * k
    BY <2>1
  <2>3. k # 0
    <3>1. y + 0 = y /\ 365 * 0 = 0 /\ DaysBefore(y, 1) \in Int
      BY MonthsBegin
    <3>2. ASSUME k = 0 PROVE FALSE
      <4>1. DaysBefore(y + 0, 1) < DaysBefore(y, 1) + 365 * 0
        BY <2>2, <3>2
      <4>2. DaysBefore(y, 1) < DaysBefore(y, 1)
        BY <3>1, <4>1
      <4> QED BY <3>1, <4>2
    <3> QED BY <3>2
  <2>4. k - 1 \in Nat /\ (k - 1) + 1 = k
    BY <2>2, <2>3
  <2>5. DaysBefore(y + k, 1) >= DaysBefore(y + (k - 1), 1) + 365 /\ DaysBefore(y + (k - 1), 1) \in Int
    BY <1>1, <2>4
  <2>6. k - 1 \notin Short
    BY <2>1, <2>4
  <2>7. DaysBefore(y + (k - 1), 1) >= DaysBefore(y, 1) + 365 * (k - 1)
    BY <1>1, <2>4, <2>6, MonthsBegin
  <2>8. DaysBefore(y, 1) \in Int /\ DaysBefore(y + k, 1) \in Int
    BY <1>1, <2>2, MonthsBegin
  <2> QED BY <2>2, <2>4, <2>5, <2>7, <2>8
<1>3. DaysBefore(y + z, 1) \in Int /\ DaysBefore(y, 1) \in Int /\ z \notin Short
  BY <1>1, <1>2, MonthsBegin
<1> QED BY <1>3
\* A month begins where the one before it ends, and lies within its year.
LEMMA MonthsFollow ==
  ASSUME NEW y \in Nat, NEW m \in 1 .. 12
  PROVE  /\ DaysBefore(y, m) \in Int /\ monthrange(y, m) \in 28 .. 31
         /\ DaysBefore(y, 1) <= DaysBefore(y, m) /\ DaysBefore(y, m) + monthrange(y, m) <= DaysBefore(y + 1, 1)
         /\ \A n \in 1 .. 12 : m < n => DaysBefore(y, m) + monthrange(y, m) <= DaysBefore(y, n)
         /\ m < 12 => DaysBefore(y, m) + monthrange(y, m) = DaysBefore(y, m + 1)
         /\ m = 12 => DaysBefore(y, m) + monthrange(y, m) = DaysBefore(y + 1, 1)
<1> DEFINE first == DaysBefore(y, 1)
           leap == IF Leap(y) THEN 1 ELSE 0
           after == DaysBefore(y + 1, 1)
           lengths == monthrange(y, m)
<1>1. /\ first \in Int /\ after = first + 365 + leap
      /\ DaysBefore(y, 2) = first + 31 /\ DaysBefore(y, 3) = first + 59 + leap /\ DaysBefore(y, 4) = first + 90 + leap
      /\ DaysBefore(y, 5) = first + 120 + leap /\ DaysBefore(y, 6) = first + 151 + leap /\ DaysBefore(y, 7) = first + 181 + leap
      /\ DaysBefore(y, 8) = first + 212 + leap /\ DaysBefore(y, 9) = first + 243 + leap /\ DaysBefore(y, 10) = first + 273 + leap
      /\ DaysBefore(y, 11) = first + 304 + leap /\ DaysBefore(y, 12) = first + 334 + leap
  BY MonthsBegin
<1>2. monthrange(y, m) = IF m = 2 THEN 28 + leap ELSE IF m \in {4, 6, 9, 11} THEN 30 ELSE 31
  BY DEF monthrange
<1>3. leap \in {0, 1}
  OBVIOUS
<1>4. first = DaysBefore(y, 1) /\ after = DaysBefore(y + 1, 1)
  OBVIOUS
<1> HIDE DEF first, leap, after
<1>5. m = 1 \/ m = 2 \/ m = 3 \/ m = 4 \/ m = 5 \/ m = 6 \/ m = 7 \/ m = 8 \/ m = 9 \/ m = 10 \/ m = 11 \/ m = 12
  OBVIOUS
<1>6. \A n \in 1 .. 12 : n = 1 \/ n = 2 \/ n = 3 \/ n = 4 \/ n = 5 \/ n = 6 \/ n = 7 \/ n = 8 \/ n = 9 \/ n = 10 \/ n = 11 \/ n = 12
  OBVIOUS
<1>7. monthrange(y, m) \in 28 .. 31 /\ DaysBefore(y, m) \in Int /\ DaysBefore(y, 1) <= DaysBefore(y, m) /\ DaysBefore(y, m) + monthrange(y, m) <= DaysBefore(y + 1, 1)
  BY <1>1, <1>2, <1>3, <1>4, <1>5
<1>8. \A n \in 1 .. 12 : m < n => DaysBefore(y, m) + monthrange(y, m) <= DaysBefore(y, n)
  BY <1>1, <1>2, <1>3, <1>4, <1>5, <1>6
<1>9. /\ m < 12 => DaysBefore(y, m) + monthrange(y, m) = DaysBefore(y, m + 1)
      /\ m = 12 => DaysBefore(y, m) + monthrange(y, m) = DaysBefore(y + 1, 1)
  BY <1>1, <1>2, <1>3, <1>4, <1>5
<1> QED BY <1>7, <1>8, <1>9

\* A day lies in its month and in its year.
LEMMA DayInYear ==
  ASSUME NEW d, CivilDay(d)
  PROVE  /\ Place(d) \in Int /\ Place(d) > DaysBefore(d.year, d.month) /\ Place(d) <= DaysBefore(d.year, d.month) + monthrange(d.year, d.month)
         /\ Place(d) > DaysBefore(d.year, 1) /\ Place(d) <= DaysBefore(d.year + 1, 1)
<1>1. d.year \in Nat /\ d.month \in 1 .. 12 /\ d.day \in Nat \ {0} /\ d.day <= monthrange(d.year, d.month)
  BY DEF CivilDay
<1>2. /\ DaysBefore(d.year, d.month) \in Int /\ monthrange(d.year, d.month) \in 28 .. 31
      /\ DaysBefore(d.year, 1) <= DaysBefore(d.year, d.month) /\ DaysBefore(d.year, d.month) + monthrange(d.year, d.month) <= DaysBefore(d.year + 1, 1)
  BY <1>1, MonthsFollow
<1>3. DaysBefore(d.year, 1) \in Int /\ DaysBefore(d.year + 1, 1) \in Int
  BY <1>1, MonthsFollow
<1>4. Place(d) = DaysBefore(d.year, d.month) + d.day
  BY DEF Place
<1> QED BY <1>1, <1>2, <1>3, <1>4

\* A later day has a later place.
LEMMA LaterPlace ==
  ASSUME NEW a, NEW b, CivilDay(a), CivilDay(b), Later(a, b)
  PROVE  Place(a) > Place(b)
<1>1. /\ a.year \in Nat /\ a.month \in 1 .. 12 /\ a.day \in Nat /\ b.year \in Nat /\ b.month \in 1 .. 12 /\ b.day \in Nat
  BY DEF CivilDay
<1>2. /\ Place(a) \in Int /\ Place(a) > DaysBefore(a.year, a.month) /\ Place(a) > DaysBefore(a.year, 1)
      /\ Place(b) \in Int /\ Place(b) <= DaysBefore(b.year, b.month) + monthrange(b.year, b.month) /\ Place(b) <= DaysBefore(b.year + 1, 1)
      /\ Place(a) = DaysBefore(a.year, a.month) + a.day /\ Place(b) = DaysBefore(b.year, b.month) + b.day
  BY DayInYear DEF Place
<1>3. CASE a.year > b.year
  <2> DEFINE gap == a.year - (b.year + 1)
  <2>1. gap \in Nat /\ b.year + 1 \in Nat /\ (b.year + 1) + gap = a.year
    BY <1>1, <1>3
  <2> HIDE DEF gap
  <2>2. DaysBefore((b.year + 1) + gap, 1) \in Int /\ DaysBefore((b.year + 1) + gap, 1) >= DaysBefore(b.year + 1, 1) + 365 * gap
    BY <2>1, YearsGrow
  <2>3. DaysBefore(a.year, 1) \in Int /\ DaysBefore(b.year + 1, 1) \in Int
    BY <1>1, <2>1, MonthsFollow
  <2> QED BY <1>2, <2>1, <2>2, <2>3
<1>4. CASE a.year = b.year /\ a.month > b.month
  <2>1. DaysBefore(b.year, b.month) + monthrange(b.year, b.month) <= DaysBefore(b.year, a.month)
    BY <1>1, <1>4, MonthsFollow
  <2>2. /\ DaysBefore(b.year, b.month) \in Int /\ monthrange(b.year, b.month) \in Int /\ DaysBefore(b.year, a.month) \in Int
    <3>1. DaysBefore(b.year, b.month) \in Int /\ monthrange(b.year, b.month) \in 28 .. 31
      BY <1>1, MonthsFollow
    <3>2. DaysBefore(b.year, a.month) \in Int
      BY <1>1, MonthsFollow
    <3> QED BY <3>1, <3>2
  <2>3. DaysBefore(a.year, a.month) = DaysBefore(b.year, a.month)
    BY <1>4
  <2> QED BY <1>2, <2>1, <2>2, <2>3
<1>5. CASE a.year = b.year /\ a.month = b.month /\ a.day > b.day
  <2>1. DaysBefore(b.year, b.month) \in Int /\ DaysBefore(a.year, a.month) = DaysBefore(b.year, b.month)
    BY <1>1, <1>5, MonthsFollow
  <2> QED BY <1>1, <1>2, <1>5, <2>1
<1> QED BY <1>3, <1>4, <1>5 DEF Later

\* So one of two days is later, or they are one.
LEMMA PlacesOrder ==
  ASSUME NEW a, NEW b, CivilDay(a), CivilDay(b)
  PROVE  /\ Place(a) > Place(b) => Later(a, b)
         /\ Place(a) = Place(b) => a = b
<1>1. /\ a \in [year : Nat, month : 1 .. 12, day : Nat \ {0}] /\ b \in [year : Nat, month : 1 .. 12, day : Nat \ {0}]
  BY DEF CivilDay
<1>2. a = b \/ Later(a, b) \/ Later(b, a)
  BY <1>1 DEF Later
<1>3. Place(a) \in Int /\ Place(b) \in Int
  BY DayInYear
<1>4. (Later(a, b) => Place(a) > Place(b)) /\ (Later(b, a) => Place(b) > Place(a))
  BY LaterPlace
<1> QED BY <1>2, <1>3, <1>4

\* So many days on there is a day, and it is so many days on.
LEMMA PlusDaysCounts ==
  ASSUME NEW moment, CivilDay(moment), NEW days \in Nat
  PROVE  CivilDay(PlusDays(moment, days)) /\ Place(PlusDays(moment, days)) = Place(moment) + days
<1> DEFINE target == DaysBefore(moment.year, moment.month) + moment.day + days
           most == (days \div 365) + 1
           InYear(y) == DaysBefore(y, 1) < target /\ target <= DaysBefore(y + 1, 1)
           year == CHOOSE y \in moment.year .. moment.year + (days \div 365) + 1 : InYear(y)
           InMonth(m) == DaysBefore(year, m) < target /\ target <= DaysBefore(year, m) + monthrange(year, m)
           month == CHOOSE m \in 1 .. 12 : InMonth(m)
<1>1. moment.year \in Nat /\ moment.month \in 1 .. 12 /\ moment.day \in Nat
  BY DEF CivilDay
<1>2. target = Place(moment) + days /\ target \in Int /\ Place(moment) \in Int /\ DaysBefore(moment.year, 1) < target /\ target <= DaysBefore(moment.year + 1, 1) + days
  <2>1. DaysBefore(moment.year, 1) \in Int /\ DaysBefore(moment.year + 1, 1) \in Int
    BY <1>1, MonthsFollow
  <2>2. Place(moment) \in Int /\ Place(moment) > DaysBefore(moment.year, 1) /\ Place(moment) <= DaysBefore(moment.year + 1, 1)
    BY DayInYear
  <2>3. target = Place(moment) + days
    BY DEF Place
  <2> HIDE DEF target
  <2> QED BY <2>1, <2>2, <2>3
<1>3. most \in Nat /\ 365 * most >= days /\ moment.year + (days \div 365) + 1 = moment.year + most
  BY <1>1
<1>4. PlusDays(moment, days) = Day(year, month, target - DaysBefore(year, month))
  BY DEF PlusDays
<1> HIDE DEF target, most
<1>5. \E y \in moment.year .. moment.year + most : InYear(y)
  <2> DEFINE Reach == {k \in Nat : target <= DaysBefore(moment.year + k + 1, 1)}
  <2>1. most \in Reach
    <3>1. moment.year + 1 \in Nat /\ (moment.year + 1) + most = moment.year + most + 1
      BY <1>1, <1>3
    <3>2. DaysBefore((moment.year + 1) + most, 1) \in Int /\ DaysBefore((moment.year + 1) + most, 1) >= DaysBefore(moment.year + 1, 1) + 365 * most
      BY <1>3, <3>1, YearsGrow
    <3>3. DaysBefore(moment.year + 1, 1) \in Int
      BY <1>1, MonthsFollow
    <3> QED BY <1>2, <1>3, <3>1, <3>2, <3>3
  <2>2. PICK k \in Reach : \A l \in Reach : k <= l
    <3>1. Reach \in SUBSET Nat /\ Reach # {}
      BY <2>1
    <3> HIDE DEF Reach
    <3> QED BY <3>1, HasLeast
  <2>3. k \in Nat /\ k <= most /\ target <= DaysBefore(moment.year + k + 1, 1)
    BY <2>1, <2>2
  <2>4. DaysBefore(moment.year + k, 1) < target
    <3>1. CASE k = 0
      <4>1. moment.year + 0 = moment.year
        BY <1>1
      <4> QED BY <1>2, <3>1, <4>1
    <3>2. CASE k # 0
      <4>1. k - 1 \in Nat /\ k - 1 < k /\ moment.year + (k - 1) + 1 = moment.year + k /\ moment.year + k \in Nat
        BY <1>1, <2>3, <3>2
      <4>2. k - 1 \notin Reach
        BY <2>2, <2>3, <4>1
      <4>3. ~(target <= DaysBefore(moment.year + k, 1)) /\ DaysBefore(moment.year + k, 1) \in Int
        BY <4>1, <4>2, MonthsFollow
      <4> QED BY <1>2, <4>3
    <3> QED BY <3>1, <3>2
  <2>5. moment.year + k \in moment.year .. moment.year + most
    BY <1>1, <1>3, <2>3
  <2> QED BY <2>3, <2>4, <2>5
<1>6. year \in moment.year .. moment.year + most /\ InYear(year)
  BY <1>3, <1>5
<1>7. year \in Nat /\ DaysBefore(year, 1) < target /\ target <= DaysBefore(year + 1, 1)
  BY <1>1, <1>3, <1>6
<1> HIDE DEF year
<1>8. \E m \in 1 .. 12 : InMonth(m)
  <2> DEFINE Reach == {n \in 1 .. 12 : target <= DaysBefore(year, n) + monthrange(year, n)}
  <2>1. 12 \in Reach
    BY <1>7, MonthsFollow
  <2>2. PICK m \in Reach : \A l \in Reach : m <= l
    <3>1. Reach \in SUBSET Nat /\ Reach # {}
      BY <2>1
    <3> HIDE DEF Reach
    <3> QED BY <3>1, HasLeast
  <2>3. m \in 1 .. 12 /\ target <= DaysBefore(year, m) + monthrange(year, m)
    BY <2>2
  <2>4. DaysBefore(year, m) < target
    <3>1. CASE m = 1
      BY <1>7, <3>1
    <3>2. CASE m # 1
      <4>1. m - 1 \in 1 .. 12 /\ m - 1 < 12 /\ m - 1 < m /\ (m - 1) + 1 = m
        BY <2>3, <3>2
      <4>2. m - 1 \notin Reach
        BY <2>2, <2>3, <4>1
      <4>3. ~(target <= DaysBefore(year, m - 1) + monthrange(year, m - 1))
        BY <4>1, <4>2
      <4>4. DaysBefore(year, m - 1) + monthrange(year, m - 1) = DaysBefore(year, m) /\ DaysBefore(year, m) \in Int
        <5>1. DaysBefore(year, m - 1) + monthrange(year, m - 1) = DaysBefore(year, (m - 1) + 1)
          BY <1>7, <4>1, MonthsFollow
        <5>2. DaysBefore(year, m) \in Int
          BY <1>7, <2>3, MonthsFollow
        <5> QED BY <4>1, <5>1, <5>2
      <4> QED BY <1>2, <4>3, <4>4
    <3> QED BY <3>1, <3>2
  <2> QED BY <2>3, <2>4
<1>9. month \in 1 .. 12 /\ DaysBefore(year, month) < target /\ target <= DaysBefore(year, month) + monthrange(year, month)
  BY <1>8
<1> HIDE DEF month
<1>10. DaysBefore(year, month) \in Int /\ monthrange(year, month) \in 28 .. 31
  BY <1>7, <1>9, MonthsFollow
<1> DEFINE day == target - DaysBefore(year, month)
<1>11. day \in Nat \ {0} /\ day <= monthrange(year, month) /\ DaysBefore(year, month) + day = target
  BY <1>2, <1>9, <1>10
<1> HIDE DEF day
<1>12. PlusDays(moment, days) = [year |-> year, month |-> month, day |-> day]
  BY <1>4 DEF Day, day
<1> QED BY <1>2, <1>7, <1>9, <1>11, <1>12 DEF CivilDay, Place

\* The months of a day tell its year and its month.
LEMMA MonthsTell ==
  ASSUME NEW y \in Nat, NEW m \in 1 .. 12
  PROVE  LET months == y * 12 + m - 1 IN months \in Nat /\ months \div 12 = y /\ (months % 12) + 1 = m
<1>1. y * 12 + m - 1 \in Nat
  OBVIOUS
<1> DEFINE months == y * 12 + m - 1
<1>2. months \in Nat /\ months = 12 * y + (m - 1) /\ m - 1 \in 0 .. 11
  BY <1>1
<1> HIDE DEF months
<1>3. months \div 12 = y /\ months % 12 = m - 1
  BY <1>2
<1> QED BY <1>2, <1>3 DEF months

\* Months are whole years and the months of the last one.
LEMMA WholeYears ==
  ASSUME NEW months \in Nat, NEW years, NEW rest, years = months \div 12, rest = months % 12
  PROVE  years \in Nat /\ rest \in 0 .. 11 /\ months = 12 * years + rest
<1>1. months \div 12 \in Int /\ months \div 12 >= 0
  OBVIOUS
<1>2. months % 12 \in 0 .. 11
  OBVIOUS
<1>3. months = 12 * years + rest
  OBVIOUS
<1> QED BY <1>1, <1>2, <1>3

\* So many months on there is a day, so many months on, the same or the last of its month.
LEMMA AddMonthsCounts ==
  ASSUME NEW moment, CivilDay(moment), NEW months \in Nat
  PROVE  LET then == add_months(moment, months)
             long == monthrange(MonthsOf(then) \div 12, (MonthsOf(then) % 12) + 1)
         IN /\ CivilDay(then) /\ MonthsOf(moment) \in Nat /\ MonthsOf(then) = MonthsOf(moment) + months
            /\ long \in 28 .. 31 /\ then.day = IF moment.day < long THEN moment.day ELSE long
            /\ months = 0 => then = moment
<1> DEFINE summed == moment.month - 1 + months
           year == moment.year + summed \div 12
           month == (summed % 12) + 1
           day == IF moment.day < monthrange(year, month) THEN moment.day ELSE monthrange(year, month)
           then == add_months(moment, months)
<1>1. /\ moment \in [year : Nat, month : 1 .. 12, day : Nat \ {0}] /\ moment.day <= monthrange(moment.year, moment.month)
  BY DEF CivilDay
<1>2. summed \in Nat
  BY <1>1
<1>3. then = [year |-> year, month |-> month, day |-> day]
  BY DEF add_months, Day
<1>4. /\ year \in Nat /\ month \in 1 .. 12 /\ year * 12 + month - 1 = (moment.year * 12 + moment.month - 1) + months
      /\ moment.year * 12 + moment.month - 1 \in Nat
  <2> DEFINE years == summed \div 12
             rest == summed % 12
  <2>1. summed = moment.month - 1 + months /\ year = moment.year + years /\ month = rest + 1
    OBVIOUS
  <2>2. years \in Nat /\ rest \in 0 .. 11 /\ summed = 12 * years + rest
    BY <1>2, WholeYears
  <2> HIDE DEF summed, year, month, years, rest
  <2>3. moment.year \in Nat /\ moment.month \in 1 .. 12
    BY <1>1
  <2> QED BY <2>1, <2>2, <2>3
<1>5. months = 0 => year = moment.year /\ month = moment.month
  <2> SUFFICES ASSUME months = 0 PROVE year = moment.year /\ month = moment.month
    OBVIOUS
  <2>1. summed = moment.month - 1 /\ summed \in 0 .. 11
    BY <1>1
  <2> HIDE DEF summed
  <2>2. summed \div 12 = 0 /\ summed % 12 = summed
    BY <2>1
  <2> QED BY <1>1, <2>1, <2>2
<1> HIDE DEF year, month, summed
<1>6. monthrange(year, month) \in 28 .. 31
  BY <1>4, MonthsFollow
<1>7. day \in Nat \ {0} /\ day <= monthrange(year, month)
  BY <1>1, <1>6
<1>8. MonthsOf(then) = year * 12 + month - 1 /\ MonthsOf(moment) = moment.year * 12 + moment.month - 1 /\ then.day = day
  BY <1>3 DEF MonthsOf
<1>9. MonthsOf(then) \div 12 = year /\ (MonthsOf(then) % 12) + 1 = month
  BY <1>4, <1>8, MonthsTell
<1>10. CivilDay(then)
  BY <1>3, <1>4, <1>7 DEF CivilDay
<1>11. months = 0 => then = moment
  <2> SUFFICES ASSUME months = 0 PROVE then = moment
    OBVIOUS
  <2>1. year = moment.year /\ month = moment.month
    BY <1>5
  <2>2. day = moment.day
    BY <1>1, <1>6, <2>1
  <2> HIDE DEF day
  <2> QED BY <1>1, <1>3, <2>1, <2>2
<1> QED BY <1>4, <1>6, <1>8, <1>9, <1>10, <1>11

\* No days on is the same day.
LEMMA NoDays ==
  ASSUME NEW moment, CivilDay(moment)
  PROVE  PlusDays(moment, 0) = moment
<1>1. CivilDay(PlusDays(moment, 0)) /\ Place(PlusDays(moment, 0)) = Place(moment) + 0 /\ Place(moment) \in Int
  BY PlusDaysCounts, DayInYear
<1>2. Place(PlusDays(moment, 0)) = Place(moment)
  BY <1>1
<1> QED BY <1>1, <1>2, PlacesOrder

\* An interval is so many days or so many months, never both and never none.
LEMMA Intervals ==
  ASSUME NEW unit \in IntervalUnit
  PROVE  \/ STEPS(unit)[1] \in Nat \ {0} /\ STEPS(unit)[2] = 0
         \/ STEPS(unit)[1] = 0 /\ STEPS(unit)[2] \in Nat \ {0}
<1>1. CASE unit = "DAY"
  <2>1. STEPS(unit) = <<1, 0>>
    BY <1>1 DEF STEPS
  <2> QED BY <2>1
<1>2. CASE unit = "WEEK"
  <2>1. STEPS(unit) = <<7, 0>>
    BY <1>2 DEF STEPS
  <2> QED BY <2>1
<1>3. CASE unit = "MONTH"
  <2>1. STEPS(unit) = <<0, 1>>
    BY <1>3 DEF STEPS
  <2> QED BY <2>1
<1>4. CASE unit = "YEAR"
  <2>1. STEPS(unit) = <<0, 12>>
    BY <1>4 DEF STEPS
  <2> QED BY <2>1
<1> QED BY <1>1, <1>2, <1>3, <1>4 DEF IntervalUnit

\* The next slot is a later day, by months where the interval is of months.
LEMMA NextSlot ==
  ASSUME NEW moment, CivilDay(moment), NEW unit \in IntervalUnit, NEW value \in Nat \ {0}
  PROVE  LET then == add_interval(moment, unit, value)
         IN /\ CivilDay(then) /\ Later(then, moment)
            /\ STEPS(unit)[2] > 0 => then = add_months(moment, STEPS(unit)[2] * value)
<1> DEFINE days == STEPS(unit)[1] * value
           months == STEPS(unit)[2] * value
           reached == PlusDays(moment, days)
           then == add_interval(moment, unit, value)
<1>1. then = add_months(reached, months)
  BY DEF add_interval
<1>2. CASE STEPS(unit)[1] \in Nat \ {0} /\ STEPS(unit)[2] = 0
  <2>1. days \in Nat \ {0} /\ months = 0
    BY <1>2
  <2> HIDE DEF days, months
  <2>2. CivilDay(reached) /\ Place(reached) = Place(moment) + days /\ Place(moment) \in Int
    BY <2>1, PlusDaysCounts, DayInYear
  <2>3. then = reached
    <3>1. add_months(reached, 0) = reached
      <4> HIDE DEF reached
      <4> QED BY <2>2, AddMonthsCounts
    <3> QED BY <1>1, <2>1, <3>1
  <2>4. Later(reached, moment)
    <3>1. Place(reached) > Place(moment)
      BY <2>1, <2>2
    <3> HIDE DEF reached
    <3> QED BY <2>2, <3>1, PlacesOrder
  <2> QED BY <1>2, <2>2, <2>3, <2>4
<1>3. CASE STEPS(unit)[1] = 0 /\ STEPS(unit)[2] \in Nat \ {0}
  <2>1. days = 0 /\ months \in Nat \ {0}
    BY <1>3
  <2>2. then = add_months(moment, months)
    BY <1>1, <2>1, NoDays
  <2> HIDE DEF days, months
  <2>3. CivilDay(then) /\ MonthsOf(moment) \in Nat /\ MonthsOf(then) = MonthsOf(moment) + months
    BY <2>1, <2>2, AddMonthsCounts
  <2> HIDE DEF then
  <2>4. Later(then, moment)
    <3>1. /\ then.year \in Nat /\ then.month \in 1 .. 12 /\ moment.year \in Nat /\ moment.month \in 1 .. 12
      BY <2>3 DEF CivilDay
    <3>2. then.year * 12 + then.month - 1 > moment.year * 12 + moment.month - 1
      BY <2>1, <2>3 DEF MonthsOf
    <3> QED BY <3>1, <3>2 DEF Later
  <2> QED BY <2>2, <2>3, <2>4 DEF then, months
<1> QED BY <1>2, <1>3, Intervals

\* The months a schedule has gone through, and the day that leaves it.
Shortest(from, to, apart, many) ==
  LET lengths == {monthrange((MonthsOf(from) + n * apart) \div 12, ((MonthsOf(from) + n * apart) % 12) + 1) : n \in 0 .. many} \cup {from.day}
  IN to.day \in lengths /\ \A d \in lengths : to.day <= d

\* One month more leaves the shorter of the day there was and the month.
LEMMA ShortestSoFar ==
  ASSUME NEW from, NEW to, NEW then, CivilDay(from), CivilDay(to), CivilDay(then), NEW apart \in Nat, NEW many \in Nat, Shortest(from, to, apart, many),
         MonthsOf(from) \in Nat, MonthsOf(then) = MonthsOf(from) + (many + 1) * apart,
         LET long == monthrange(MonthsOf(then) \div 12, (MonthsOf(then) % 12) + 1)
         IN long \in 28 .. 31 /\ then.day = IF to.day < long THEN to.day ELSE long
  PROVE  Shortest(from, then, apart, many + 1)
<1> DEFINE Long(n) == monthrange((MonthsOf(from) + n * apart) \div 12, ((MonthsOf(from) + n * apart) % 12) + 1)
<1>1. Long(many + 1) \in 28 .. 31 /\ then.day = IF to.day < Long(many + 1) THEN to.day ELSE Long(many + 1)
  OBVIOUS
<1> HIDE DEF Long
<1>2. /\ to.day \in {Long(n) : n \in 0 .. many} \cup {from.day}
      /\ \A d \in {Long(n) : n \in 0 .. many} \cup {from.day} : to.day <= d
  BY DEF Shortest, Long
<1>3. from.day \in Nat /\ to.day \in Nat
  BY DEF CivilDay
<1>4. \A n \in 0 .. many + 1 : n \in 0 .. many \/ n = many + 1
  OBVIOUS
<1>5. 0 .. many \subseteq 0 .. many + 1 /\ many + 1 \in 0 .. many + 1
  OBVIOUS
<1>6. then.day \in {Long(n) : n \in 0 .. many + 1} \cup {from.day}
  BY <1>1, <1>2, <1>5
<1>7. ASSUME NEW d \in {Long(n) : n \in 0 .. many + 1} \cup {from.day} PROVE then.day <= d
  <2>1. CASE d = from.day
    <3>1. to.day <= from.day
      BY <1>2
    <3>2. then.day \in Nat /\ then.day <= to.day
      BY <1>1, <1>3
    <3> QED BY <1>3, <2>1, <3>1, <3>2
  <2>2. CASE d = Long(many + 1)
    BY <1>1, <1>3, <2>2
  <2>3. CASE \E n \in 0 .. many : d = Long(n)
    <3>1. to.day <= d
      BY <1>2, <2>3
    <3>2. then.day = to.day \/ then.day <= to.day
      BY <1>1, <1>3
    <3>3. PICK n \in 0 .. many : d = Long(n)
      BY <2>3
    <3>4. d \in Int
      <4>1. to.day <= Long(n) /\ MonthsOf(from) + n * apart \in Nat
        BY <3>1, <3>3
      <4>2. ASSUME NEW months \in Nat PROVE monthrange(months \div 12, (months % 12) + 1) \in Int
        BY DEF monthrange
      <4> QED BY <3>3, <4>1, <4>2 DEF Long
    <3> QED BY <1>1, <1>3, <3>1, <3>2, <3>4
  <2> QED BY <1>4, <2>1, <2>2, <2>3
<1> QED BY <1>6, <1>7 DEF Shortest, Long

\* The schedule is of days there are, and its interval is one the panel accepted.
CalendarIInv ==
  /\ CivilDay(anchor) /\ CivilDay(slot) /\ walked \in 0 .. MaxIntervals
  /\ interval \in [unit : IntervalUnit, value : IntervalValues] /\ interval.value \in Nat \ {0}
  /\ MonthsAreWhole

LEMMA CalendarStart == CalendarInit => CalendarIInv
<1> SUFFICES ASSUME CalendarInit PROVE CalendarIInv  OBVIOUS
<1>1. anchor \in Anchors /\ slot = anchor /\ walked = 0 /\ interval \in [unit : IntervalUnit, value : IntervalValues]
  BY DEF CalendarInit
<1>2. interval.value >= 1 /\ interval.value \in Nat \ {0}
  <2>1. validate_interval(anchor, interval.unit, interval.value)
    BY DEF CalendarInit
  <2>2. interval.value \in Nat
    BY <1>1, CalendarAssumption
  <2> QED BY <2>1, <2>2 DEF validate_interval
<1>3. CivilDay(anchor) /\ CivilDay(slot) /\ MaxIntervals \in Nat
  BY <1>1, CalendarAssumption DEF CivilDay
<1>4. MonthsAreWhole
  <2> DEFINE apart == STEPS(interval.unit)[2] * interval.value
  <2> SUFFICES ASSUME STEPS(interval.unit)[2] > 0
               PROVE  MonthsOf(slot) = MonthsOf(anchor) + walked * apart /\ Shortest(anchor, slot, apart, walked)
    BY DEF MonthsAreWhole, Shortest
  <2>1. apart \in Nat
    BY <1>1, <1>2, Intervals
  <2> HIDE DEF apart
  <2>2. anchor.year \in Nat /\ anchor.month \in 1 .. 12 /\ anchor.day \in Nat /\ anchor.day <= monthrange(anchor.year, anchor.month)
    BY <1>3 DEF CivilDay
  <2>3. MonthsOf(anchor) \in Nat /\ MonthsOf(anchor) \div 12 = anchor.year /\ (MonthsOf(anchor) % 12) + 1 = anchor.month
    BY <2>2, MonthsTell DEF MonthsOf
  <2>4. MonthsOf(anchor) + 0 * apart = MonthsOf(anchor) /\ 0 .. 0 = {0}
    BY <2>1, <2>3
  <2>5. MonthsOf(slot) = MonthsOf(anchor) + walked * apart
    BY <1>1, <2>4
  <2>6. Shortest(anchor, anchor, apart, 0)
    <3> DEFINE Long(n) == monthrange((MonthsOf(anchor) + n * apart) \div 12, ((MonthsOf(anchor) + n * apart) % 12) + 1)
    <3>1. Long(0) = monthrange(anchor.year, anchor.month)
      BY <2>3, <2>4
    <3> HIDE DEF Long
    <3>2. \A d \in {Long(n) : n \in 0 .. 0} \cup {anchor.day} : anchor.day <= d
      BY <2>2, <2>4, <3>1
    <3> QED BY <3>2 DEF Shortest, Long
  <2> QED BY <1>1, <2>5, <2>6
<1> QED BY <1>1, <1>2, <1>3, <1>4 DEF CalendarIInv

LEMMA WalksOnKeeps == CalendarIInv /\ WalksOn => CalendarIInv' /\ Later(slot', slot)
<1> SUFFICES ASSUME CalendarIInv, WalksOn PROVE CalendarIInv' /\ Later(slot', slot)  OBVIOUS
<1>1. /\ CivilDay(anchor) /\ CivilDay(slot) /\ walked \in 0 .. MaxIntervals /\ interval.unit \in IntervalUnit /\ interval.value \in Nat \ {0}
      /\ interval \in [unit : IntervalUnit, value : IntervalValues]
  BY DEF CalendarIInv
<1>2. /\ slot' = add_interval(slot, interval.unit, interval.value) /\ walked' = walked + 1 /\ walked < MaxIntervals
      /\ UNCHANGED <<anchor, interval>> /\ MaxIntervals \in Nat
  BY CalendarAssumption DEF WalksOn
<1>3. /\ CivilDay(slot') /\ Later(slot', slot)
      /\ STEPS(interval.unit)[2] > 0 => slot' = add_months(slot, STEPS(interval.unit)[2] * interval.value)
  BY <1>1, <1>2, NextSlot
<1>4. walked' \in 0 .. MaxIntervals
  BY <1>1, <1>2
<1>5. MonthsAreWhole'
  <2> DEFINE apart == STEPS(interval.unit)[2] * interval.value
  <2> SUFFICES ASSUME STEPS(interval.unit)[2] > 0
               PROVE  MonthsOf(slot') = MonthsOf(anchor) + (walked + 1) * apart /\ Shortest(anchor, slot', apart, walked + 1)
    BY <1>2 DEF MonthsAreWhole, Shortest, MonthsOf
  <2>1. MonthsOf(slot) = MonthsOf(anchor) + walked * apart /\ Shortest(anchor, slot, apart, walked)
    BY DEF CalendarIInv, MonthsAreWhole, Shortest
  <2>2. apart \in Nat /\ walked \in Nat
    BY <1>1, Intervals
  <2>3. slot' = add_months(slot, apart)
    BY <1>3
  <2> HIDE DEF apart
  <2>4. MonthsOf(anchor) \in Nat
    <3>1. anchor.year \in Nat /\ anchor.month \in 1 .. 12
      BY <1>1 DEF CivilDay
    <3> QED BY <3>1, MonthsTell DEF MonthsOf
  <2> DEFINE then == add_months(slot, apart)
             long == monthrange(MonthsOf(then) \div 12, (MonthsOf(then) % 12) + 1)
  <2>5. /\ MonthsOf(slot) \in Nat /\ MonthsOf(then) = MonthsOf(slot) + apart
        /\ long \in 28 .. 31 /\ then.day = IF slot.day < long THEN slot.day ELSE long
    BY <1>1, <2>2, AddMonthsCounts
  <2>6. CivilDay(then)
    BY <1>1, <2>2, AddMonthsCounts
  <2> HIDE DEF then
  <2>7. (walked + 1) * apart = walked * apart + apart /\ walked * apart \in Nat
    BY <2>2
  <2>8. MonthsOf(then) = MonthsOf(anchor) + (walked + 1) * apart
    BY <2>1, <2>2, <2>4, <2>5, <2>7
  <2>9. Shortest(anchor, then, apart, walked + 1)
    BY <1>1, <2>1, <2>2, <2>4, <2>5, <2>6, <2>8, ShortestSoFar
  <2>10. slot' = then
    BY <2>3 DEF then
  <2> QED BY <2>8, <2>9, <2>10
<1> QED BY <1>1, <1>2, <1>3, <1>4, <1>5 DEF CalendarIInv, CivilDay

LEMMA CalendarStep == CalendarIInv /\ [CalendarNext]_calendarVars => CalendarIInv' /\ (walked' # walked => Later(slot', slot))
<1> SUFFICES ASSUME CalendarIInv, [CalendarNext]_calendarVars PROVE CalendarIInv' /\ (walked' # walked => Later(slot', slot))  OBVIOUS
<1>1. CASE WalksOn
  BY <1>1, WalksOnKeeps
<1>2. CASE UNCHANGED calendarVars
  <2>1. UNCHANGED <<anchor, interval, slot, walked>>
    BY <1>2 DEF calendarVars
  <2>2. MonthsAreWhole'
    BY <2>1 DEF CalendarIInv, MonthsAreWhole, MonthsOf
  <2> QED BY <2>1, <2>2 DEF CalendarIInv, CivilDay
<1> QED BY <1>1, <1>2 DEF CalendarNext

LEMMA CalendarFollows == CalendarIInv => CalendarTypeOK /\ MonthsAreWhole
<1> SUFFICES ASSUME CalendarIInv PROVE CalendarTypeOK /\ MonthsAreWhole  OBVIOUS
<1>1. /\ slot.month \in 1 .. 12 /\ slot.year \in Nat /\ slot.day \in Nat \ {0} /\ slot.day <= monthrange(slot.year, slot.month)
  BY DEF CalendarIInv, CivilDay
<1>2. monthrange(slot.year, slot.month) \in 28 .. 31
  BY <1>1, MonthsFollow
<1>3. slot.day \in 1 .. monthrange(slot.year, slot.month)
  BY <1>1, <1>2
<1> QED BY <1>1, <1>3 DEF CalendarIInv, CalendarTypeOK

\* Whatever day a benefit begins on and whatever interval the panel accepted: every slot is a day of the calendar later than the one before it, and a schedule
\* of months skips none, doubles none and never comes back to a longer day.
THEOREM SlotsMoveOn == CalendarInit /\ [][CalendarNext]_calendarVars => CalendarKeeps
<1>1. CalendarIInv /\ [CalendarNext]_calendarVars => [walked' # walked => Later(slot', slot)]_calendarVars
  BY CalendarStep
<1>2. CalendarIInv /\ [CalendarNext]_calendarVars => CalendarIInv'
  BY CalendarStep
<1> QED BY <1>1, <1>2, CalendarStart, CalendarFollows, PTL DEF CalendarKeeps, MovesOn

=============================================================================
