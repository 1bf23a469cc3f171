-------------------------- MODULE MCReconciliation --------------------------
(***************************************************************************)
(* Two sessions over the purchases of two accounts in a catalogue of two   *)
(* products.  Behaviours begin with nothing bought, or with an account     *)
(* that was heard of before: one product of it ended and another one runs  *)
(* or is paused, which takes three or more changes of the gateway to come  *)
(* to otherwise; one of the changes the bounds allow is spent, but for a   *)
(* gateway that is asked of a purchase that is paused.                     *)
(***************************************************************************)
EXTENDS Reconciliation, TLC

CONSTANTS s1, s2, u1, u2, basic, gold

Changes == [k \in GatewayKinds |-> IF k = "stated" THEN 4 ELSE 2]

LastYear == [user |-> u1, product |-> gold, ext |-> 91, status |-> "EXPIRED", period |-> 91, stated |-> 0, closed |-> None, cycle |-> 0, moves |-> 0]
ThisYear(raw) == [LastYear EXCEPT !.product = basic, !.ext = 92, !.status = IF raw = "active" THEN "ACTIVE" ELSE "SUSPENDED", !.period = 92]

HeardBefore(u, raw) ==
  /\ kind \in GatewayKinds
  /\ clock = 0
  /\ gatewayHolds = [v \in User |-> [p \in Product |->
       IF v # u THEN None ELSE IF p = gold THEN [ext |-> 91, raw |-> IF kind = "stated" THEN "canceled" ELSE "expired", period |-> 91] ELSE [ext |-> 92, raw |-> raw, period |-> 92]]]
  /\ notices = {} /\ window = {} /\ unheard = {} /\ crossed = {} /\ lost = {}
  /\ rows = [r \in Row |-> CASE r = 1 -> [LastYear EXCEPT !.user = u] [] r = 2 -> [ThisYear(raw) EXCEPT !.user = u] [] OTHER -> None]
  /\ work = [s \in Session |-> Idle]
  /\ changes = (IF kind = "queried" /\ raw = "paused" THEN 0 ELSE 1) /\ asks = 0 /\ faults = 0

ReconciliationInit == Init \/ \E u \in User, raw \in {"active", "paused"} : HeardBefore(u, raw)
ReconciliationSpec == ReconciliationInit /\ [][Next]_vars

Alike == Permutations(Session) \cup Permutations(User)
=============================================================================
