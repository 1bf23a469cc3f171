------------------------------- MODULE Delivery -------------------------------
(***************************************************************************)
(* The engine of services/delivery_service.py: what a subscription turns   *)
(* into, one idempotent grant per cycle, while several nodes run its       *)
(* passes at once.                                                         *)
(*                                                                         *)
(* A node works inside one database session at READ COMMITTED.  A step of  *)
(* this module is what the session does up to a commit, or up to a read    *)
(* whose answer it keeps and uses after others may have written.  What     *)
(* happens between hold_subscription and the next commit is one step: the  *)
(* locks on the subscription and on the benefit keep every other writer of *)
(* the two rows out.  A crash loses what the node kept and nothing that    *)
(* was committed.                                                          *)
(*                                                                         *)
(* Time is a clock of ticks; a recurring benefit repeats every Interval    *)
(* ticks, and every subscription started at tick 0.                        *)
(***************************************************************************)
EXTENDS Integers, FiniteSets

CONSTANTS
  Node,          \* sessions that run passes, activations and operator calls
  Sub,           \* rows of the subscription table
  Benefit,       \* rows of subscription_benefit, one per subscription and catalogue benefit
  User,          \* accounts a receipt can belong to
  Plan,          \* plans a subscription can be on
  None,          \* NULL
  SubOf,         \* [Benefit -> Sub]
  Promises,      \* [Plan -> SUBSET Benefit], the active benefits of the plan
  Type,          \* [Benefit -> Types]
  Cadence,       \* [Benefit -> Cadences]
  OnActivation,  \* [Benefit -> BOOLEAN], grant_on_activation
  Missed,        \* [Benefit -> MissedPolicies]
  NarrowPolicy,  \* what a plan hands over in a trial or in a grace period
  MAX_ATTEMPTS,  \* tries a grant is given
  Interval,      \* ticks between two slots of a recurring benefit
  Reported,      \* the states a gateway reports, of an instance
  SlowNodes,     \* whether a session may outlive ABANDONED_AFTER
  MaxCalls,      \* bound on what gateways and operators ask
  MaxCrashes,    \* bound on the crashes
  MaxTime,       \* bound on the clock
  MaxCycle       \* bound on the cycles opened by a release

Types == {"ACCESS", "CREDIT", "PRODUCT"}
Cadences == {"ON_ACTIVATION", "RECURRING", "ONCE_PER_USER"}
MissedPolicies == {"SKIP", "LATEST_ONLY", "CATCH_UP"}
Policies == {"NONE", "ACCESS_ONLY", "ALL"}

ASSUME DeliveryAssumption ==
  /\ SubOf \in [Benefit -> Sub]
  /\ Promises \in [Plan -> SUBSET Benefit]
  /\ Type \in [Benefit -> Types]
  /\ Cadence \in [Benefit -> Cadences]
  /\ OnActivation \in [Benefit -> BOOLEAN]
  /\ Missed \in [Benefit -> MissedPolicies]
  /\ NarrowPolicy \in Policies
  /\ MAX_ATTEMPTS \in Nat /\ MAX_ATTEMPTS > 1
  /\ Interval \in Nat \ {0}
  /\ Reported \subseteq {"ACTIVE", "TRIALING", "PAUSED"}
  /\ SlowNodes \in BOOLEAN
  /\ MaxCalls \in Nat /\ MaxCrashes \in Nat /\ MaxTime \in Nat /\ MaxCycle \in Nat
  /\ None \notin Nat /\ None \notin User

VARIABLES
  clock,      \* now()
  sub,        \* [Sub -> status, holder and plan]
  benefit,    \* [Benefit -> the snapshot row]
  access,     \* [Benefit -> status of the entitlement the benefit hangs from]
  grants,     \* subscription_benefit_grant, a function on the grant keys written so far
  delivered,  \* ledger entries and product ownership, which outlive the subscription
  node,       \* what each session keeps between two steps
  calls,      \* how much was asked so far
  crashes     \* how often a node died so far

vars == <<clock, sub, benefit, access, grants, delivered, node, calls, crashes>>

-----------------------------------------------------------------------------
(* The rows.                                                               *)

\* TRIALING stands for the two eligible states a plan narrows (trial, grace), PAUSED for pending and suspended, CLOSED for expired and revoked.
SubStatus == {"ACTIVE", "TRIALING", "PAUSED", "CLOSED"}
BenefitStatus == {"ABSENT", "ACTIVE", "PAUSED", "ENDED"}
GrantStatus == {"PROCESSING", "COMPLETED", "SKIPPED", "FAILED"}

\* A cycle key is the date of a slot, or the name of the activation of one cycle.
Key == {"slot", "activation"} \X Nat
GrantId == Benefit \X Key

SubRow == [status : SubStatus, user : User, plan : Plan]
BenefitRow == [status : BenefitStatus, next : Nat \cup {None}, last : Nat \cup {None}, cycle : Nat]
GrantRow == [status : GrantStatus, attempts : Nat, slot : Nat, cycle : Nat, reserved : User \cup {None}, stale : BOOLEAN]
Entry == [key : GrantId, user : User, attempt : Nat]

Ops == {"none", "activate", "renew", "due", "retry"}
Places == {"idle", "next", "release", "activate", "skip", "cycle", "insert", "insert_skipped", "deliver", "finish", "advance", "drop"}
Session == [op : Ops, at : Places, todo : SUBSET (Benefit \cup GrantId), moment : Nat, sub : Sub \cup {None}, g : GrantId \cup {None},
            slot : Nat, cycle : Nat, seen : [Benefit -> Nat], reserved : User \cup {None}]

\* What a session keeps: its call, the next step of it, what is left of the batch, and the grant it is on.
Idle == [op |-> "none", at |-> "idle", todo |-> {}, moment |-> 0, sub |-> None, g |-> None, slot |-> 0, cycle |-> 0, seen |-> [b \in Benefit |-> 0], reserved |-> None]

Init ==
  /\ clock = 0
  /\ sub \in [Sub -> [status : {"PAUSED"}, user : User, plan : Plan]]
  /\ benefit = [b \in Benefit |-> [status |-> "ABSENT", next |-> None, last |-> None, cycle |-> 0]]
  /\ access = [b \in Benefit |-> "ABSENT"]
  /\ grants = [g \in {} |-> None]
  /\ delivered = {}
  /\ node = [n \in Node |-> Idle]
  /\ calls = 0 /\ crashes = 0

-----------------------------------------------------------------------------
(* What the code asks of the rows.                                         *)

\* is_eligible_for_benefits
Eligible(s) == sub[s].status \in {"ACTIVE", "TRIALING"}

still_owed(b) == benefit[b].status = "ACTIVE" /\ Eligible(SubOf[b])

policy_allows(b) ==
  LET policy == IF sub[SubOf[b]].status = "TRIALING" THEN NarrowPolicy ELSE "ALL"
  IN  policy = "ALL" \/ (policy = "ACCESS_ONLY" /\ Type[b] = "ACCESS")

\* The last slot at or before `moment` on the walk that starts at `since`.
Walk(since, moment) == IF since > moment THEN since ELSE since + Interval * ((moment - since) \div Interval)

landing(since) == Walk(since, clock)

\* The anchor is started_at, tick 0.
first_due(b) == IF Cadence[b] = "RECURRING" THEN landing(0) ELSE IF OnActivation[b] THEN 0 ELSE None

\* The slot run_cycle stores for an activation, which is never null there.
ActivationSlot(b) == IF Cadence[b] = "RECURRING" THEN landing(0) ELSE 0

cycle_key(slot) == <<"slot", slot>>

activation_key(b, slot, cycle) == IF Cadence[b] = "RECURRING" /\ cycle = 0 THEN cycle_key(slot) ELSE <<"activation", cycle>>

\* Variant: the ledger key names the try, not the cycle.
Settled_PerAttempt(g) == \E e \in delivered : e.key = g /\ e.attempt = grants[g].attempts

\* Evidence that a key was paid, or that an account was given the product.
Settled(g) == \E e \in delivered : e.key = g

Owns(u) == \E e \in delivered : e.user = u /\ Type[e.key[1]] = "PRODUCT"

\* Every ONCE_PER_USER benefit of the model is one catalogue benefit, promised by several subscriptions.
OncePerUser == {b \in Benefit : Cadence[b] = "ONCE_PER_USER"}

\* Variant: only the grants are asked, not the ledger.
already_held_by_user_GrantsOnly(u) == \E g \in DOMAIN grants : grants[g].reserved = u /\ grants[g].status = "COMPLETED"

already_held_by_user(u) ==
  \/ \E g \in DOMAIN grants : grants[g].reserved = u /\ grants[g].status = "COMPLETED"
  \/ \E e \in delivered : e.user = u /\ e.key[1] \in OncePerUser

\* Variant: what a dead node left processing is nobody's.
takeable_FailedOnly(row) == row.status = "FAILED" /\ row.attempts < MAX_ATTEMPTS

takeable(row) == (row.status = "FAILED" \/ (row.status = "PROCESSING" /\ row.stale)) /\ row.attempts < MAX_ATTEMPTS

exhausted(row) == row.status = "PROCESSING" /\ row.stale /\ row.attempts >= MAX_ATTEMPTS

waiting(b) == \E g \in DOMAIN grants : g[1] = b /\ grants[g].status \in {"FAILED", "PROCESSING"}

Due(b, moment) ==
  /\ benefit[b].status = "ACTIVE" /\ Cadence[b] = "RECURRING"
  /\ benefit[b].next # None /\ benefit[b].next <= moment
  /\ Eligible(SubOf[b]) /\ ~waiting(b)

-----------------------------------------------------------------------------
(* Writes several steps share.                                             *)

\* The schedule moves only for a settled grant of the cycle the row is still in; `table` is the benefit table the statement meets.
advance(b, row, table) ==
  IF row.status \in {"COMPLETED", "SKIPPED"} /\ table[b].cycle = row.cycle /\ table[b].status = "ACTIVE"
  THEN [table EXCEPT ![b] = [@ EXCEPT !.last = clock, !.next = IF Cadence[b] = "RECURRING" THEN row.slot + Interval ELSE None]]
  ELSE table

\* drop and give_up close a grant where it stands and let its reservation go.
drop(row) == [row EXCEPT !.status = "SKIPPED", !.reserved = None, !.stale = FALSE]

\* Variant: a state the enum does not hold.
complete_Unknown(row) == [row EXCEPT !.status = "DELIVERED", !.stale = FALSE]

complete(row) == [row EXCEPT !.status = "COMPLETED", !.stale = FALSE]

Write(g, row) == grants' = [grants EXCEPT ![g] = row]

\* insert_or_read, for a key nobody holds.
Insert(g, row) == grants' = [x \in DOMAIN grants \cup {g} |-> IF x = g THEN row ELSE grants[x]]

end_benefits(s) ==
  /\ benefit' = [b \in Benefit |-> IF SubOf[b] = s /\ benefit[b].status # "ABSENT" THEN [benefit[b] EXCEPT !.status = "ENDED", !.next = None] ELSE benefit[b]]
  /\ access' = [b \in Benefit |-> IF SubOf[b] = s /\ access[b] # "ABSENT" THEN "EXPIRED" ELSE access[b]]

\* A benefit that was not running comes back on the slot it lands in.
resume(b) ==
  LET row == benefit[b]
  IN  IF row.status = "ACTIVE" THEN row
      ELSE IF Cadence[b] # "RECURRING" THEN [row EXCEPT !.status = "ACTIVE"]
      ELSE [row EXCEPT !.status = "ACTIVE", !.next = landing(IF row.last # None THEN row.last + Interval ELSE 0)]

\* The snapshot of a plan: what it promises is taken or resumed, what it does not promise ends.
snapshot_benefits(s, plan) ==
  [b \in Benefit |->
    IF SubOf[b] # s THEN benefit[b]
    ELSE IF b \in Promises[plan]
         THEN IF benefit[b].status = "ABSENT" THEN [status |-> "ACTIVE", next |-> first_due(b), last |-> None, cycle |-> 0] ELSE resume(b)
    ELSE IF benefit[b].status = "ABSENT" THEN benefit[b] ELSE [benefit[b] EXCEPT !.status = "ENDED", !.next = None]]

reconcile_entitlements(s, plan) ==
  [b \in Benefit |->
    IF SubOf[b] # s THEN access[b]
    ELSE IF b \in Promises[plan] THEN "ACTIVE"
    ELSE IF access[b] = "ABSENT" THEN "ABSENT" ELSE "EXPIRED"]

\* The session is through with one item of its batch.
Rest(n, item) ==
  LET left == node[n].todo \ {item}
  IN  node' = [node EXCEPT ![n] = IF left = {} THEN Idle
                                  ELSE [Idle EXCEPT !.op = node[n].op, !.at = "next", !.todo = left, !.moment = node[n].moment, !.seen = node[n].seen]]

Item(n) == IF node[n].op = "retry" THEN node[n].g ELSE node[n].g[1]

At(n, at) == node[n].at = at

Goto(n, at) == node' = [node EXCEPT ![n] = [@ EXCEPT !.at = at]]

\* The session takes up a grant that is written, or the cycle of one that is not.
Take(n, at, g) == node' = [node EXCEPT ![n] = [@ EXCEPT !.at = at, !.g = g]]

TakeCycle(n, at, g, slot, cycle) == node' = [node EXCEPT ![n] = [@ EXCEPT !.at = at, !.g = g, !.slot = slot, !.cycle = cycle]]

-----------------------------------------------------------------------------
(* activate.                                                               *)

\* The first transaction of activate, under the subscription lock: what the provider or the operator wrote on the row is flushed with it.
ActivateRow(n, s, status, plan) ==
  /\ sub' = [sub EXCEPT ![s] = [@ EXCEPT !.status = status, !.plan = plan]]
  /\ IF status \in {"ACTIVE", "TRIALING"}
     THEN /\ benefit' = snapshot_benefits(s, plan)
          /\ access' = reconcile_entitlements(s, plan)
          /\ LET first == {b \in Promises[plan] : SubOf[b] = s /\ OnActivation[b] /\ benefit'[b].last = None}
             IN  node' = [node EXCEPT ![n] = IF first = {} THEN Idle
                            ELSE [Idle EXCEPT !.op = "activate", !.at = "next", !.todo = first, !.seen = [b \in Benefit |-> benefit'[b].cycle]]]
     ELSE /\ benefit' = [b \in Benefit |-> IF SubOf[b] = s /\ benefit[b].status = "ACTIVE" THEN [benefit[b] EXCEPT !.status = "PAUSED", !.next = None] ELSE benefit[b]]
          /\ access' = [b \in Benefit |-> IF SubOf[b] = s /\ access[b] # "ABSENT" THEN "EXPIRED" ELSE access[b]]
          /\ node' = [node EXCEPT ![n] = Idle]
  /\ UNCHANGED <<clock, grants, delivered>>

\* A notice or a refresh carries a state onto the row, and an operator activates it as it stands.
Activate(n, s, status, plan) ==
  /\ At(n, "idle")
  /\ status \in Reported \cup {sub[s].status}
  /\ ActivateRow(n, s, status, plan)

\* The bound on new cycles, asked where one begins.
Renewable(s) == \A b \in Benefit : SubOf[b] = s => benefit[b].cycle < MaxCycle

\* release_cycle: an operator's new cycle, or a move to another plan that owes one.
release_cycle(n, s, plan) ==
  /\ sub' = [sub EXCEPT ![s].plan = plan]
  /\ benefit' = [b \in Benefit |-> IF SubOf[b] = s /\ benefit[b].status # "ABSENT" THEN [benefit[b] EXCEPT !.cycle = benefit[b].cycle + 1, !.last = None] ELSE benefit[b]]
  /\ node' = [node EXCEPT ![n] = [Idle EXCEPT !.op = "renew", !.at = "activate", !.sub = s]]
  /\ UNCHANGED <<clock, access, grants, delivered>>

OpenNewCycle(n, s, plan) == At(n, "idle") /\ Renewable(s) /\ release_cycle(n, s, plan)

\* hand_over: the receipt is somebody else's, its benefits end, and the new holder is owed a cycle of their own.
HandOver(n, s, u, status) ==
  /\ At(n, "idle") /\ Renewable(s) /\ sub[s].user # u /\ status \in Reported
  /\ sub' = [sub EXCEPT ![s] = [@ EXCEPT !.user = u, !.status = status]]
  /\ end_benefits(s)
  /\ node' = [node EXCEPT ![n] = [Idle EXCEPT !.op = "renew", !.at = "release", !.sub = s]]
  /\ UNCHANGED <<clock, grants, delivered>>

HandOverRelease(n) == At(n, "release") /\ release_cycle(n, node[n].sub, sub[node[n].sub].plan)

\* The activation that follows a release reads the row as it stands.
RenewActivate(n) ==
  /\ At(n, "activate")
  /\ LET s == node[n].sub IN ActivateRow(n, s, sub[s].status, sub[s].plan)

\* expire_subscriptions and close: one transaction that ends the row and all that hangs from it.
Close(s) ==
  /\ sub[s].status # "CLOSED"
  /\ sub' = [sub EXCEPT ![s].status = "CLOSED"]
  /\ end_benefits(s)
  /\ UNCHANGED <<clock, grants, delivered, node>>

-----------------------------------------------------------------------------
(* process_due.                                                            *)

StartDue(n) ==
  /\ At(n, "idle")
  /\ LET due == {b \in Benefit : Due(b, clock)}
     IN  /\ due # {}
         /\ node' = [node EXCEPT ![n] = [Idle EXCEPT !.op = "due", !.at = "next", !.todo = due, !.moment = clock]]
  /\ UNCHANGED <<clock, sub, benefit, access, grants, delivered>>

\* None stands for the slot a benefit under SKIP is moved past without delivering.
resolve_due_slot(b, moment) ==
  LET next == benefit[b].next
  IN  IF next + Interval > moment \/ Missed[b] = "CATCH_UP" THEN next
      ELSE IF Missed[b] = "LATEST_ONLY" THEN Walk(next, moment)
      ELSE None

\* The benefit is read again when its turn comes, and it may have ended since the batch was read: a null date ends the pass with an exception.
DueNext(n, b) ==
  /\ At(n, "next") /\ node[n].op = "due" /\ b \in node[n].todo
  /\ IF benefit[b].next = None THEN node' = [node EXCEPT ![n] = Idle]
     ELSE LET slot == resolve_due_slot(b, node[n].moment)
          IN  IF slot = None
              THEN TakeCycle(n, "skip", <<b, cycle_key(0)>>, Walk(benefit[b].next, node[n].moment) + Interval, benefit[b].cycle)
              ELSE TakeCycle(n, "cycle", <<b, cycle_key(slot)>>, slot, benefit[b].cycle)
  /\ UNCHANGED <<clock, sub, benefit, access, grants, delivered>>

\* The date of a skipped stretch is written on whatever the row has become.
DueSkip(n) ==
  /\ At(n, "skip")
  /\ benefit' = [benefit EXCEPT ![node[n].g[1]] = [@ EXCEPT !.next = node[n].slot]]
  /\ Rest(n, Item(n))
  /\ UNCHANGED <<clock, sub, access, grants, delivered>>

\* The activation of one benefit, with the cycle it had when the snapshot committed.
ActivateNext(n, b) ==
  /\ At(n, "next") /\ node[n].op = "activate" /\ b \in node[n].todo
  /\ LET slot == ActivationSlot(b) cycle == node[n].seen[b]
     IN  TakeCycle(n, "cycle", <<b, activation_key(b, slot, cycle)>>, slot, cycle)
  /\ UNCHANGED <<clock, sub, benefit, access, grants, delivered>>

-----------------------------------------------------------------------------
(* run_cycle.                                                              *)

NewRow(n, status) == [status |-> status, attempts |-> 1, slot |-> node[n].slot, cycle |-> node[n].cycle, reserved |-> IF status = "SKIPPED" THEN None ELSE node[n].reserved, stale |-> FALSE]

\* Variant: a cycle already written answers at once and leaves the schedule where it is.
CycleMet_KeepsSchedule(n) ==
  /\ At(n, "cycle") /\ node[n].g \in DOMAIN grants
  /\ Rest(n, Item(n))
  /\ UNCHANGED <<clock, sub, benefit, access, grants, delivered>>

\* A cycle already written only moves the schedule on.
CycleMet(n) ==
  /\ At(n, "cycle") /\ node[n].g \in DOMAIN grants
  /\ benefit' = advance(node[n].g[1], grants[node[n].g], benefit)
  /\ Rest(n, Item(n))
  /\ UNCHANGED <<clock, sub, access, grants, delivered>>

\* What the account already holds and what the plan withholds are read here, and acted on when the row is written.
CycleRead(n) ==
  /\ At(n, "cycle") /\ node[n].g \notin DOMAIN grants
  /\ LET b == node[n].g[1]
         u == IF Cadence[b] = "ONCE_PER_USER" THEN sub[SubOf[b]].user ELSE None
         withheld == (u # None /\ already_held_by_user(u)) \/ ~policy_allows(b)
     IN  node' = [node EXCEPT ![n] = [@ EXCEPT !.at = IF withheld THEN "insert_skipped" ELSE "insert", !.reserved = u]]
  /\ UNCHANGED <<clock, sub, benefit, access, grants, delivered>>

\* skip: the schedule moves and the row is written in one transaction, and a row somebody else wrote meanwhile stays.
InsertSkipped(n) ==
  /\ At(n, "insert_skipped")
  /\ LET g == node[n].g row == NewRow(n, "SKIPPED")
     IN  /\ benefit' = advance(g[1], row, benefit)
         /\ IF g \in DOMAIN grants THEN UNCHANGED grants ELSE Insert(g, row)
  /\ Rest(n, Item(n))
  /\ UNCHANGED <<clock, sub, access, delivered>>

\* settled: the grant key and the reservation are unique, and whoever loses either leaves the row to the winner.
Taken(n) == node[n].g \in DOMAIN grants \/ (node[n].reserved # None /\ \E g \in DOMAIN grants : grants[g].reserved = node[n].reserved)

InsertWon(n) ==
  /\ At(n, "insert") /\ ~Taken(n)
  /\ Insert(node[n].g, NewRow(n, "PROCESSING"))
  /\ Goto(n, "deliver")
  /\ UNCHANGED <<clock, sub, benefit, access, delivered>>

InsertLost(n) ==
  /\ At(n, "insert") /\ Taken(n)
  /\ Rest(n, Item(n))
  /\ UNCHANGED <<clock, sub, benefit, access, grants, delivered>>

-----------------------------------------------------------------------------
(* deliver, under the locks of the subscription and of the benefit.        *)

\* Variant: what was owed when the cycle was read is not read again under the locks.
Deliverable_NotReread(n) == policy_allows(node[n].g[1])

\* What the locks let the delivery see: the benefit still owed, in the cycle of the grant, and not withheld by the plan.
Deliverable(n) ==
  LET g == node[n].g
  IN  still_owed(g[1]) /\ grants[g].cycle = benefit[g[1]].cycle /\ policy_allows(g[1])

\* The grant is settled and the schedule moved in one commit.
SettleGrant(n, row) ==
  /\ Write(node[n].g, row)
  /\ benefit' = advance(node[n].g[1], row, benefit)
  /\ Rest(n, Item(n))

DeliverDropped(n) ==
  /\ At(n, "deliver") /\ ~Deliverable(n)
  /\ SettleGrant(n, drop(grants[node[n].g]))
  /\ UNCHANGED <<clock, sub, access, delivered>>

deliver_access(n) ==
  /\ At(n, "deliver") /\ Deliverable(n) /\ Type[node[n].g[1]] = "ACCESS"
  /\ access' = [access EXCEPT ![node[n].g[1]] = "ACTIVE"]
  /\ SettleGrant(n, complete(grants[node[n].g]))
  /\ UNCHANGED <<clock, sub, delivered>>

\* The ledger and the ownership row commit before the grant says so, and let the locks go.
Pay(n) ==
  LET g == node[n].g
  IN  /\ delivered' = delivered \cup {[key |-> g, user |-> sub[SubOf[g[1]]].user, attempt |-> grants[g].attempts]}
      /\ Goto(n, "finish")
      /\ UNCHANGED <<clock, sub, benefit, access, grants>>

\* move: a key the ledger already holds is answered with the entry it wrote.
deliver_credit(n) ==
  /\ At(n, "deliver") /\ Deliverable(n) /\ Type[node[n].g[1]] = "CREDIT"
  /\ IF Settled(node[n].g)
     THEN SettleGrant(n, complete(grants[node[n].g])) /\ UNCHANGED <<clock, sub, access, delivered>>
     ELSE Pay(n)

\* A product already owned is a cycle nothing was handed over in.
deliver_product(n) ==
  /\ At(n, "deliver") /\ Deliverable(n) /\ Type[node[n].g[1]] = "PRODUCT"
  /\ IF Owns(sub[SubOf[node[n].g[1]]].user)
     THEN /\ SettleGrant(n, [grants[node[n].g] EXCEPT !.status = "SKIPPED", !.stale = FALSE])
          /\ UNCHANGED <<clock, sub, access, delivered>>
     ELSE Pay(n)

DeliverFinish(n) ==
  /\ At(n, "finish")
  /\ SettleGrant(n, complete(grants[node[n].g]))
  /\ UNCHANGED <<clock, sub, access, delivered>>

\* Variant: the last try that fails is left failed.
DeliverFailed_NeverGivesUp(n) ==
  /\ At(n, "deliver") /\ Deliverable(n)
  /\ Write(node[n].g, [grants[node[n].g] EXCEPT !.status = "FAILED", !.stale = FALSE])
  /\ Rest(n, Item(n))
  /\ UNCHANGED <<clock, sub, benefit, access, delivered>>

\* Variant: the exception is swallowed and the grant closes as if it had been handed over.
DeliverFailed_Swallowed(n) ==
  /\ At(n, "deliver") /\ Deliverable(n)
  /\ Write(node[n].g, complete(grants[node[n].g]))
  /\ Rest(n, Item(n))
  /\ UNCHANGED <<clock, sub, benefit, access, delivered>>

\* The handler raised: the transaction is undone and the grant waits for the retry, or is given up on when its tries ran out.
DeliverFailed(n) ==
  /\ At(n, "deliver") /\ Deliverable(n)
  /\ LET g == node[n].g
         givenUp == node[n].op = "retry" /\ grants[g].attempts >= MAX_ATTEMPTS
     IN  IF givenUp
         THEN Write(g, drop(grants[g])) /\ Goto(n, "advance")
         ELSE Write(g, [grants[g] EXCEPT !.status = "FAILED", !.stale = FALSE]) /\ Rest(n, Item(n))
  /\ UNCHANGED <<clock, sub, benefit, access, delivered>>

\* give_up commits with its log entry, so the schedule moves in a transaction of its own.
AdvanceGivenUp(n) ==
  /\ At(n, "advance")
  /\ benefit' = advance(node[n].g[1], grants[node[n].g], benefit)
  /\ Rest(n, Item(n))
  /\ UNCHANGED <<clock, sub, access, grants, delivered>>

-----------------------------------------------------------------------------
(* retry_failed_grants.                                                    *)

StartRetry(n) ==
  /\ At(n, "idle")
  /\ LET list == {g \in DOMAIN grants : takeable(grants[g]) \/ exhausted(grants[g])}
     IN  /\ list # {}
         /\ node' = [node EXCEPT ![n] = [Idle EXCEPT !.op = "retry", !.at = "next", !.todo = list]]
  /\ UNCHANGED <<clock, sub, benefit, access, grants, delivered>>

OnItem(n, g) == At(n, "next") /\ node[n].op = "retry" /\ g \in node[n].todo

\* A grant nobody owes anymore is dropped by the row the pass read, and the write lands with the next commit.
RetryUnowed(n, g) ==
  /\ OnItem(n, g) /\ ~still_owed(g[1])
  /\ Take(n, "drop", g)
  /\ UNCHANGED <<clock, sub, benefit, access, grants, delivered>>

RetryDrop(n) ==
  /\ At(n, "drop")
  /\ Write(node[n].g, drop(grants[node[n].g]))
  /\ Rest(n, Item(n))
  /\ UNCHANGED <<clock, sub, benefit, access, delivered>>

\* close_exhausted takes the row the way a claim does.
close_exhausted(n, g) ==
  /\ OnItem(n, g) /\ still_owed(g[1]) /\ grants[g].attempts >= MAX_ATTEMPTS
  /\ IF exhausted(grants[g])
     THEN Write(g, drop(grants[g])) /\ Take(n, "advance", g)
     ELSE Rest(n, g) /\ UNCHANGED grants
  /\ UNCHANGED <<clock, sub, benefit, access, delivered>>

\* Variant: the read said it was takeable, and the claim does not ask again.
claim_Unconditional(n, g) ==
  /\ OnItem(n, g) /\ still_owed(g[1]) /\ grants[g].attempts < MAX_ATTEMPTS
  /\ Write(g, [grants[g] EXCEPT !.status = "PROCESSING", !.attempts = grants[g].attempts + 1, !.stale = FALSE])
  /\ Take(n, "deliver", g)
  /\ UNCHANGED <<clock, sub, benefit, access, delivered>>

claim(n, g) ==
  /\ OnItem(n, g) /\ still_owed(g[1]) /\ grants[g].attempts < MAX_ATTEMPTS
  /\ IF takeable(grants[g])
     THEN /\ Write(g, [grants[g] EXCEPT !.status = "PROCESSING", !.attempts = grants[g].attempts + 1, !.stale = FALSE])
          /\ Take(n, "deliver", g)
     ELSE Rest(n, g) /\ UNCHANGED grants
  /\ UNCHANGED <<clock, sub, benefit, access, delivered>>

-----------------------------------------------------------------------------
(* The world around the passes.                                            *)

Working(n, g) == node[n].at \in {"deliver", "finish"} /\ node[n].g = g

\* ABANDONED_AFTER passes over a grant still processing.  It is half an hour and a pass is stopped after five minutes, so no session in flight lives through it unless SlowNodes says so.
Abandon(g) ==
  /\ grants[g].status = "PROCESSING" /\ ~grants[g].stale
  /\ SlowNodes \/ \A n \in Node : At(n, "idle")
  /\ Write(g, [grants[g] EXCEPT !.stale = TRUE])
  /\ UNCHANGED <<clock, sub, benefit, access, delivered, node>>

\* The process dies and its open transaction with it.
Crash(n) ==
  /\ node[n].at # "idle"
  /\ node' = [node EXCEPT ![n] = Idle]
  /\ UNCHANGED <<clock, sub, benefit, access, grants, delivered>>

Tick ==
  /\ clock < MaxTime
  /\ clock' = clock + 1
  /\ UNCHANGED <<sub, benefit, access, grants, delivered, node>>

DueStep(n) == StartDue(n) \/ (\E b \in Benefit : DueNext(n, b)) \/ DueSkip(n)

RetryStep(n) == StartRetry(n) \/ RetryDrop(n) \/ \E g \in DOMAIN grants : RetryUnowed(n, g) \/ close_exhausted(n, g) \/ claim(n, g)

CycleStep(n) == CycleMet(n) \/ CycleRead(n) \/ InsertSkipped(n) \/ InsertWon(n) \/ InsertLost(n)

DeliverStep(n) == DeliverDropped(n) \/ deliver_access(n) \/ deliver_credit(n) \/ deliver_product(n) \/ DeliverFinish(n) \/ AdvanceGivenUp(n)

RenewStep(n) == HandOverRelease(n) \/ RenewActivate(n) \/ \E b \in Benefit : ActivateNext(n, b)

\* What a session does on its own once called, and the passes the cron starts.
Work(n) == DueStep(n) \/ RetryStep(n) \/ CycleStep(n) \/ DeliverStep(n) \/ RenewStep(n)

Call(n, s) ==
  \/ \E status \in SubStatus, plan \in Plan : Activate(n, s, status, plan)
  \/ \E plan \in Plan : OpenNewCycle(n, s, plan)
  \/ \E u \in User, status \in SubStatus : HandOver(n, s, u, status)

\* Somebody outside asks: a gateway, an operator, or the end of a period.
Ask ==
  /\ calls < MaxCalls
  /\ calls' = calls + 1
  /\ \E s \in Sub : Close(s) \/ \E n \in Node : Call(n, s)
  /\ UNCHANGED crashes

Die ==
  /\ crashes < MaxCrashes
  /\ crashes' = crashes + 1
  /\ \E n \in Node : Crash(n)
  /\ UNCHANGED calls

Run ==
  \/ \E n \in Node : Work(n) \/ DeliverFailed(n)
  \/ \E g \in DOMAIN grants : Abandon(g)
  \/ Tick

Next == Ask \/ Die \/ (Run /\ UNCHANGED <<calls, crashes>>)

Spec == Init /\ [][Next]_vars

-----------------------------------------------------------------------------
(* What must hold.                                                         *)

\* Every row and every session has the shape the code gives it.
TypeOK ==
  /\ clock \in Nat /\ calls \in Nat /\ crashes \in Nat
  /\ sub \in [Sub -> SubRow]
  /\ benefit \in [Benefit -> BenefitRow]
  /\ access \in [Benefit -> {"ABSENT", "ACTIVE", "EXPIRED"}]
  /\ DOMAIN grants \subseteq GrantId /\ grants \in [DOMAIN grants -> GrantRow]
  /\ delivered \subseteq Entry
  /\ node \in [Node -> Session]

\* However a delivery is interrupted, retried or raced, the ledger pays one grant key once and an account is given the product once.
PaidOnce ==
  \A e, f \in delivered :
    (\/ e.key = f.key /\ Type[e.key[1]] = "CREDIT"
     \/ e.user = f.user /\ Type[e.key[1]] = "PRODUCT" /\ Type[f.key[1]] = "PRODUCT") => e = f

\* A failed grant always has a try left, so none waits for a pass that will never take it (give_up, close_exhausted).
NoGrantStranded == \A g \in DOMAIN grants : grants[g].status = "FAILED" => grants[g].attempts < MAX_ATTEMPTS

\* A grant that says it handed something over is one the ledger or the ownership row backs.
CompletedIsBacked == \A g \in DOMAIN grants : (grants[g].status = "COMPLETED" /\ Type[g[1]] # "ACCESS") => Settled(g)

\* The pass works only what it won: no two sessions deliver one grant at a time.
OneWorkerPerGrant == \A m, n \in Node, g \in DOMAIN grants : (Working(m, g) /\ Working(n, g)) => m = n

\* Access stands only on an eligible subscription and a running benefit: a delivery that lands after a cancellation, a pause or a move to another plan cannot turn it back on.
AccessFollowsSubscription == \A b \in Benefit : access[b] = "ACTIVE" => (Eligible(SubOf[b]) /\ benefit[b].status = "ACTIVE")

\* A once-per-user benefit reaches an account once, across the subscriptions that promise it.
OncePerUserPaysOnce == \A e, f \in delivered : (e.user = f.user /\ e.key[1] \in OncePerUser /\ f.key[1] \in OncePerUser) => e = f

\* Two slots of one cycle that were paid are an interval apart.
PaidOncePerInterval ==
  \A e, f \in delivered :
    LET x == grants[e.key] y == grants[f.key]
    IN  (e.key[1] = f.key[1] /\ Cadence[e.key[1]] = "RECURRING" /\ x.cycle = y.cycle /\ x.slot < y.slot) => x.slot + Interval <= y.slot

\* A session that is called, or a pass the cron starts, goes on until it is done; the cron starts both passes again and again; and a grant left processing grows old.
Fairness ==
  /\ \A n \in Node : WF_vars(Work(n) /\ UNCHANGED <<calls, crashes>>) /\ SF_vars(StartRetry(n) /\ UNCHANGED <<calls, crashes>>) /\ SF_vars(StartDue(n) /\ UNCHANGED <<calls, crashes>>)
  /\ WF_vars((\E g \in DOMAIN grants : Abandon(g)) /\ UNCHANGED <<calls, crashes>>)

FairSpec == Spec /\ Fairness

\* Every grant is settled in the end, and never left for a pass that does not come.
EveryGrantSettles == \A b \in Benefit : waiting(b) ~> ~waiting(b)

\* A benefit that is due does not stay due: its schedule moves, or it stops being owed.
ScheduleMoves == \A b \in Benefit : Due(b, clock) ~> ~Due(b, clock)
=============================================================================
