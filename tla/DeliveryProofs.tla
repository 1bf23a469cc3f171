---------------------------- MODULE DeliveryProofs ----------------------------
(* Theorems about Delivery, for every set of nodes, subscriptions, benefits, users and plans. *)
EXTENDS Delivery, TLAPS

USE DeliveryAssumption

-----------------------------------------------------------------------------
(* What the operators return.                                              *)

\* landing and resolve_due_slot answer a tick: the walk never leaves the calendar.
LEMMA WalkType ==
  ASSUME NEW since \in Nat, NEW moment \in Nat
  PROVE  Walk(since, moment) \in Nat
<1>1. CASE since > moment
  BY <1>1 DEF Walk
<1>2. CASE ~(since > moment)
  <2>1. moment - since \in Nat
    BY <1>2
  <2>2. (moment - since) \div Interval \in Nat
    BY <2>1
  <2>3. ASSUME NEW k \in Nat PROVE Interval * k \in Nat
    OBVIOUS
  <2>4. QED
    BY <1>2, <2>2, <2>3 DEF Walk
<1>3. QED
  BY <1>1, <1>2

\* A session with nothing to do is a session.
LEMMA IdleType == Idle \in Session
BY DEF Idle, Session, Ops, Places

\* advance keeps the benefit table a benefit table.
LEMMA AdvanceType ==
  ASSUME NEW b \in Benefit, NEW row \in GrantRow, benefit \in [Benefit -> BenefitRow], clock \in Nat
  PROVE  advance(b, row, benefit) \in [Benefit -> BenefitRow]
<1> DEFINE following == IF Cadence[b] = "RECURRING" THEN row.slot + Interval ELSE None
           moved == [benefit[b] EXCEPT !.last = clock, !.next = following]
<1>1. following \in Nat \cup {None}
  BY DEF GrantRow
<1>2. benefit[b] \in BenefitRow
  OBVIOUS
<1> HIDE DEF following
<1>3. moved \in BenefitRow
  BY <1>1, <1>2 DEF BenefitRow
<1> HIDE DEF moved
<1>4. [benefit EXCEPT ![b] = moved] \in [Benefit -> BenefitRow]
  BY <1>3
<1>5. advance(b, row, benefit) \in {[benefit EXCEPT ![b] = moved], benefit}
  BY DEF advance, moved, following
<1>6. QED
  BY <1>4, <1>5

\* The rows drop and complete write are grants.
LEMMA RowTypes ==
  ASSUME NEW row \in GrantRow
  PROVE  drop(row) \in GrantRow /\ complete(row) \in GrantRow
BY DEF drop, complete, GrantRow, GrantStatus

-----------------------------------------------------------------------------
(* Type correctness.  A session past the choice of a grant holds one, and  *)
(* past its insertion the row is there: that is what makes the writes of   *)
(* the later steps land on rows of the table.                              *)

OnGrant == {"skip", "cycle", "insert", "insert_skipped", "deliver", "finish", "advance", "drop"}
OnRow == {"deliver", "finish", "advance", "drop"}

SessionOK(n) ==
  /\ node[n].at \in OnGrant => node[n].g \in GrantId
  /\ node[n].at \in OnRow => node[n].g \in DOMAIN grants
  /\ node[n].at \in {"release", "activate"} => node[n].sub \in Sub

TypeInv == TypeOK /\ \A n \in Node : SessionOK(n)

\* A write on one session leaves the others.
LEMMA SessionWrite ==
  ASSUME NEW n \in Node, NEW r \in Session, node \in [Node -> Session], node' = [node EXCEPT ![n] = r]
  PROVE  node' \in [Node -> Session] /\ node'[n] = r /\ \A m \in Node : m # n => node'[m] = node[m]
OBVIOUS

\* What Rest leaves: a session that is idle or on its next item.
LEMMA RestType ==
  ASSUME NEW n \in Node, NEW item, node \in [Node -> Session], Rest(n, item)
  PROVE  /\ node' \in [Node -> Session]
         /\ node'[n].at \in {"idle", "next"}
         /\ \A m \in Node : m # n => node'[m] = node[m]
<1> DEFINE left == node[n].todo \ {item}
           on == [Idle EXCEPT !.op = node[n].op, !.at = "next", !.todo = left, !.moment = node[n].moment, !.seen = node[n].seen]
           new == IF left = {} THEN Idle ELSE on
<1>1. node' = [node EXCEPT ![n] = new]
  BY DEF Rest
<1>2. /\ node[n] \in Session
      /\ node[n].op \in Ops /\ left \in SUBSET (Benefit \cup GrantId)
      /\ node[n].moment \in Nat /\ node[n].seen \in [Benefit -> Nat]
  BY DEF Session
<1>3. on \in Session /\ on.at = "next"
  <2> HIDE DEF left
  <2> QED BY <1>2, IdleType DEF Session, Places
<1>4. new \in Session /\ new.at \in {"idle", "next"}
  <2> HIDE DEF on
  <2> QED BY <1>3, IdleType DEF Idle
<1> HIDE DEF new
<1>5. QED
  BY <1>1, <1>4, SessionWrite

\* Goto changes where the session stands and nothing it keeps.
LEMMA GotoType ==
  ASSUME NEW n \in Node, NEW at \in Places, node \in [Node -> Session], Goto(n, at)
  PROVE  /\ node' \in [Node -> Session]
         /\ node'[n].at = at /\ node'[n].g = node[n].g
         /\ \A m \in Node : m # n => node'[m] = node[m]
<1> DEFINE new == [node[n] EXCEPT !.at = at]
<1>1. new \in Session /\ new.at = at /\ new.g = node[n].g
  BY DEF Session
<1>2. node' = [node EXCEPT ![n] = new]
  BY DEF Goto
<1> HIDE DEF new
<1>3. QED
  BY <1>1, <1>2, SessionWrite

\* Take puts the session on a grant.
LEMMA TakeType ==
  ASSUME NEW n \in Node, NEW at \in Places, NEW g \in GrantId, node \in [Node -> Session], Take(n, at, g)
  PROVE  /\ node' \in [Node -> Session]
         /\ node'[n].at = at /\ node'[n].g = g
         /\ \A m \in Node : m # n => node'[m] = node[m]
<1> DEFINE new == [node[n] EXCEPT !.at = at, !.g = g]
<1>1. new \in Session /\ new.at = at /\ new.g = g
  BY DEF Session
<1>2. node' = [node EXCEPT ![n] = new]
  BY DEF Take
<1> HIDE DEF new
<1>3. QED
  BY <1>1, <1>2, SessionWrite

\* TakeCycle puts it on the cycle of a grant that may not be written yet.
LEMMA TakeCycleType ==
  ASSUME NEW n \in Node, NEW at \in Places, NEW g \in GrantId, NEW slot \in Nat, NEW cycle \in Nat,
         node \in [Node -> Session], TakeCycle(n, at, g, slot, cycle)
  PROVE  /\ node' \in [Node -> Session]
         /\ node'[n].at = at /\ node'[n].g = g
         /\ \A m \in Node : m # n => node'[m] = node[m]
<1> DEFINE new == [node[n] EXCEPT !.at = at, !.g = g, !.slot = slot, !.cycle = cycle]
<1>1. new \in Session /\ new.at = at /\ new.g = g
  BY DEF Session
<1>2. node' = [node EXCEPT ![n] = new]
  BY DEF TakeCycle
<1> HIDE DEF new
<1>3. QED
  BY <1>1, <1>2, SessionWrite

\* Writing a row keeps the grant table one.
LEMMA WriteType ==
  ASSUME NEW g \in DOMAIN grants, NEW row \in GrantRow, grants \in [DOMAIN grants -> GrantRow], Write(g, row)
  PROVE  /\ DOMAIN grants' = DOMAIN grants /\ grants' \in [DOMAIN grants' -> GrantRow]
         /\ grants'[g] = row /\ \A x \in DOMAIN grants : x # g => grants'[x] = grants[x]
BY DEF Write

\* So does inserting one.
LEMMA InsertType ==
  ASSUME NEW g \in GrantId, NEW row \in GrantRow, grants \in [DOMAIN grants -> GrantRow], Insert(g, row)
  PROVE  /\ DOMAIN grants' = DOMAIN grants \cup {g} /\ grants' \in [DOMAIN grants' -> GrantRow]
         /\ grants'[g] = row /\ \A x \in DOMAIN grants : x # g => grants'[x] = grants[x]
BY DEF Insert

\* What a session that changed must show so that every session is still one.
LEMMA SessionsOK ==
  ASSUME NEW n \in Node, TypeInv, \A m \in Node : m # n => node'[m] = node[m],
         DOMAIN grants \subseteq DOMAIN grants', SessionOK(n)'
  PROVE  \A m \in Node : SessionOK(m)'
BY DEF TypeInv, SessionOK

\* A session between two items asks nothing.
LEMMA RestOK ==
  ASSUME NEW n \in Node, NEW item, TypeInv, Rest(n, item), DOMAIN grants \subseteq DOMAIN grants'
  PROVE  node' \in [Node -> Session] /\ \A m \in Node : SessionOK(m)'
<1>1. node \in [Node -> Session]
  BY DEF TypeInv, TypeOK
<1>2. SessionOK(n)'
  BY <1>1, RestType DEF SessionOK, OnGrant, OnRow
<1>3. QED
  BY <1>1, <1>2, RestType, SessionsOK

\* The rows of the grant a session is on.
LEMMA RowOf ==
  ASSUME NEW n \in Node, TypeInv, node[n].at \in OnRow
  PROVE  /\ node[n].g \in DOMAIN grants /\ node[n].g \in GrantId /\ node[n].g[1] \in Benefit
         /\ grants[node[n].g] \in GrantRow
BY DEF TypeInv, TypeOK, SessionOK, OnGrant, OnRow, GrantId

\* Settling a grant keeps the tables and the sessions.
LEMMA SettleType ==
  ASSUME NEW n \in Node, NEW row \in GrantRow, TypeInv, node[n].at \in OnRow, SettleGrant(n, row)
  PROVE  /\ benefit' \in [Benefit -> BenefitRow]
         /\ DOMAIN grants' = DOMAIN grants /\ grants' \in [DOMAIN grants' -> GrantRow]
         /\ node' \in [Node -> Session] /\ \A m \in Node : SessionOK(m)'
<1>1. benefit \in [Benefit -> BenefitRow] /\ clock \in Nat /\ grants \in [DOMAIN grants -> GrantRow]
  BY DEF TypeInv, TypeOK
<1>2. benefit' \in [Benefit -> BenefitRow]
  BY <1>1, RowOf, AdvanceType DEF SettleGrant
<1>3. DOMAIN grants' = DOMAIN grants /\ grants' \in [DOMAIN grants' -> GrantRow]
  BY <1>1, RowOf, WriteType DEF SettleGrant
<1>4. QED
  BY <1>2, <1>3, RestOK DEF SettleGrant

-----------------------------------------------------------------------------
(* Every action keeps the types.                                           *)

\* The subscription, benefit and entitlement rows an activation writes are rows of their tables.
LEMMA SnapshotType ==
  ASSUME NEW s \in Sub, NEW plan \in Plan, TypeOK
  PROVE  /\ snapshot_benefits(s, plan) \in [Benefit -> BenefitRow]
         /\ reconcile_entitlements(s, plan) \in [Benefit -> {"ABSENT", "ACTIVE", "EXPIRED"}]
<1>1. ASSUME NEW b \in Benefit PROVE first_due(b) \in Nat \cup {None}
  BY WalkType DEF first_due, landing, TypeOK
<1>2. ASSUME NEW b \in Benefit PROVE resume(b) \in BenefitRow
  <2> DEFINE since == IF benefit[b].last # None THEN benefit[b].last + Interval ELSE 0
  <2>1. benefit[b] \in BenefitRow /\ clock \in Nat
    BY DEF TypeOK
  <2>2. since \in Nat
    BY <2>1 DEF BenefitRow
  <2>3. landing(since) \in Nat
    BY <2>1, <2>2, WalkType DEF landing
  <2>4. [benefit[b] EXCEPT !.status = "ACTIVE"] \in BenefitRow
    BY <2>1 DEF BenefitRow, BenefitStatus
  <2> HIDE DEF since
  <2>5. [benefit[b] EXCEPT !.status = "ACTIVE", !.next = landing(since)] \in BenefitRow
    BY <2>1, <2>3 DEF BenefitRow, BenefitStatus
  <2>6. resume(b) \in {benefit[b], [benefit[b] EXCEPT !.status = "ACTIVE"], [benefit[b] EXCEPT !.status = "ACTIVE", !.next = landing(since)]}
    BY DEF resume, since
  <2>7. QED
    BY <2>1, <2>4, <2>5, <2>6
<1>3. ASSUME NEW b \in Benefit
      PROVE  /\ benefit[b] \in BenefitRow /\ [benefit[b] EXCEPT !.status = "ENDED", !.next = None] \in BenefitRow
             /\ [status |-> "ACTIVE", next |-> first_due(b), last |-> None, cycle |-> 0] \in BenefitRow
  <2>1. benefit[b] \in BenefitRow
    BY DEF TypeOK
  <2>2. QED
    BY <2>1, <1>1 DEF BenefitRow, BenefitStatus
<1>4. snapshot_benefits(s, plan) \in [Benefit -> BenefitRow]
  BY <1>2, <1>3 DEF snapshot_benefits
<1>5. QED
  BY <1>4 DEF reconcile_entitlements, TypeOK

\* end_benefits writes rows of the two tables.
LEMMA EndType ==
  ASSUME NEW s \in Sub, TypeOK, end_benefits(s)
  PROVE  /\ benefit' \in [Benefit -> BenefitRow]
         /\ access' \in [Benefit -> {"ABSENT", "ACTIVE", "EXPIRED"}]
<1>1. ASSUME NEW b \in Benefit
      PROVE benefit[b] \in BenefitRow /\ [benefit[b] EXCEPT !.status = "ENDED", !.next = None] \in BenefitRow
  <2>1. benefit[b] \in BenefitRow
    BY DEF TypeOK
  <2>2. QED
    BY <2>1 DEF BenefitRow, BenefitStatus
<1>2. QED
  BY <1>1 DEF end_benefits, TypeOK

\* The first transaction of an activation keeps the types.
LEMMA ActivateRowType ==
  ASSUME NEW n \in Node, NEW s \in Sub, NEW status \in SubStatus, NEW plan \in Plan, TypeInv,
         ActivateRow(n, s, status, plan), UNCHANGED crashes, calls' \in Nat
  PROVE  TypeInv'
<1>1. TypeOK
  BY DEF TypeInv
<1>2. sub' \in [Sub -> SubRow]
  <2> DEFINE new == [sub[s] EXCEPT !.status = status, !.plan = plan]
  <2>1. sub[s] \in SubRow
    BY <1>1 DEF TypeOK
  <2>2. new \in SubRow
    BY <2>1 DEF SubRow
  <2>3. sub' = [sub EXCEPT ![s] = new]
    BY DEF ActivateRow
  <2> HIDE DEF new
  <2>4. QED
    BY <1>1, <2>2, <2>3 DEF TypeOK
<1>3. benefit' \in [Benefit -> BenefitRow] /\ access' \in [Benefit -> {"ABSENT", "ACTIVE", "EXPIRED"}]
  <2>1. CASE status \in {"ACTIVE", "TRIALING"}
    BY <1>1, <2>1, SnapshotType DEF ActivateRow
  <2>2. CASE status \notin {"ACTIVE", "TRIALING"}
    <3>1. ASSUME NEW b \in Benefit
          PROVE benefit[b] \in BenefitRow /\ [benefit[b] EXCEPT !.status = "PAUSED", !.next = None] \in BenefitRow
      <4>1. benefit[b] \in BenefitRow
        BY <1>1 DEF TypeOK
      <4>2. QED
        BY <4>1 DEF BenefitRow, BenefitStatus
    <3>2. benefit' = [b \in Benefit |-> IF SubOf[b] = s /\ benefit[b].status = "ACTIVE" THEN [benefit[b] EXCEPT !.status = "PAUSED", !.next = None] ELSE benefit[b]]
      BY <2>2 DEF ActivateRow
    <3>3. access' = [b \in Benefit |-> IF SubOf[b] = s /\ access[b] # "ABSENT" THEN "EXPIRED" ELSE access[b]]
      BY <2>2 DEF ActivateRow
    <3>4. QED
      BY <1>1, <3>1, <3>2, <3>3 DEF TypeOK
  <2>3. QED
    BY <2>1, <2>2
<1>4. PICK r \in Session : node' = [node EXCEPT ![n] = r] /\ r.at \in {"idle", "next"}
  <2> DEFINE first == {b \in Promises[plan] : SubOf[b] = s /\ OnActivation[b] /\ benefit'[b].last = None}
             seen == [b \in Benefit |-> benefit'[b].cycle]
             on == [Idle EXCEPT !.op = "activate", !.at = "next", !.todo = first, !.seen = seen]
  <2>1. first \in SUBSET (Benefit \cup GrantId)
    OBVIOUS
  <2>2. seen \in [Benefit -> Nat]
    BY <1>3 DEF BenefitRow
  <2>3. node' \in {[node EXCEPT ![n] = Idle], [node EXCEPT ![n] = on]}
    BY DEF ActivateRow
  <2> HIDE DEF first, seen
  <2>4. on \in Session /\ on.at = "next"
    BY <2>1, <2>2, IdleType DEF Session, Places, Ops
  <2> HIDE DEF on
  <2>5. QED
    BY <2>3, <2>4, IdleType DEF Idle
<1>5. node' \in [Node -> Session] /\ node'[n] = r /\ \A m \in Node : m # n => node'[m] = node[m]
  BY <1>1, <1>4, SessionWrite DEF TypeOK
<1>6. SessionOK(n)'
  BY <1>4, <1>5 DEF SessionOK, OnGrant, OnRow
<1>7. UNCHANGED <<clock, grants, delivered>>
  BY DEF ActivateRow
<1>8. \A m \in Node : SessionOK(m)'
  BY <1>5, <1>6, <1>7, SessionsOK
<1>9. QED
  BY <1>1, <1>2, <1>3, <1>5, <1>7, <1>8 DEF TypeInv, TypeOK

\* release_cycle keeps the types, and leaves a session that will activate its subscription.
LEMMA ReleaseType ==
  ASSUME NEW n \in Node, NEW s \in Sub, NEW plan \in Plan, TypeInv,
         release_cycle(n, s, plan), UNCHANGED crashes, calls' \in Nat
  PROVE  TypeInv'
<1>1. TypeOK
  BY DEF TypeInv
<1>2. sub' \in [Sub -> SubRow]
  BY <1>1 DEF release_cycle, TypeOK, SubRow
<1>3. benefit' \in [Benefit -> BenefitRow]
  <2>1. ASSUME NEW b \in Benefit
        PROVE benefit[b] \in BenefitRow /\ [benefit[b] EXCEPT !.cycle = benefit[b].cycle + 1, !.last = None] \in BenefitRow
    <3>1. benefit[b] \in BenefitRow
      BY <1>1 DEF TypeOK
    <3>2. benefit[b].cycle + 1 \in Nat
      BY <3>1 DEF BenefitRow
    <3>3. QED
      BY <3>1, <3>2 DEF BenefitRow
  <2>2. benefit' = [b \in Benefit |-> IF SubOf[b] = s /\ benefit[b].status # "ABSENT" THEN [benefit[b] EXCEPT !.cycle = benefit[b].cycle + 1, !.last = None] ELSE benefit[b]]
    BY DEF release_cycle
  <2>3. QED
    BY <2>1, <2>2
<1> DEFINE on == [Idle EXCEPT !.op = "renew", !.at = "activate", !.sub = s]
<1>4. on \in Session /\ on.at = "activate" /\ on.sub = s
  BY IdleType DEF Session, Places, Ops
<1>5. node' = [node EXCEPT ![n] = on]
  BY DEF release_cycle
<1> HIDE DEF on
<1>6. node' \in [Node -> Session] /\ node'[n] = on /\ \A m \in Node : m # n => node'[m] = node[m]
  BY <1>1, <1>4, <1>5, SessionWrite DEF TypeOK
<1>7. UNCHANGED <<clock, access, grants, delivered>>
  BY DEF release_cycle
<1>8. SessionOK(n)'
  BY <1>4, <1>6 DEF SessionOK, OnGrant, OnRow
<1>9. \A m \in Node : SessionOK(m)'
  BY <1>6, <1>7, <1>8, SessionsOK
<1>10. QED
  BY <1>1, <1>2, <1>3, <1>6, <1>7, <1>9 DEF TypeInv, TypeOK

\* hand_over keeps the types, and leaves a session that will release the cycle.
LEMMA HandOverType ==
  ASSUME NEW n \in Node, NEW s \in Sub, NEW u \in User, NEW status \in SubStatus, TypeInv,
         HandOver(n, s, u, status), UNCHANGED crashes, calls' \in Nat
  PROVE  TypeInv'
<1>1. TypeOK
  BY DEF TypeInv
<1>2. sub' \in [Sub -> SubRow]
  <2> DEFINE new == [sub[s] EXCEPT !.user = u, !.status = status]
  <2>1. sub[s] \in SubRow
    BY <1>1 DEF TypeOK
  <2>2. new \in SubRow
    BY <2>1 DEF SubRow
  <2>3. sub' = [sub EXCEPT ![s] = new]
    BY DEF HandOver
  <2> HIDE DEF new
  <2>4. QED
    BY <1>1, <2>2, <2>3 DEF TypeOK
<1> DEFINE on == [Idle EXCEPT !.op = "renew", !.at = "release", !.sub = s]
<1>4. on \in Session /\ on.at = "release" /\ on.sub = s
  BY IdleType DEF Session, Places, Ops
<1>5. node' = [node EXCEPT ![n] = on]
  BY DEF HandOver
<1> HIDE DEF on
<1>6. node' \in [Node -> Session] /\ node'[n] = on /\ \A m \in Node : m # n => node'[m] = node[m]
  BY <1>1, <1>4, <1>5, SessionWrite DEF TypeOK
<1>7. UNCHANGED <<clock, grants, delivered>> /\ end_benefits(s)
  BY DEF HandOver
<1>8. SessionOK(n)'
  BY <1>4, <1>6 DEF SessionOK, OnGrant, OnRow
<1>9. \A m \in Node : SessionOK(m)'
  BY <1>6, <1>7, <1>8, SessionsOK
<1>10. QED
  BY <1>1, <1>2, <1>6, <1>7, <1>9, EndType DEF TypeInv, TypeOK

\* Closing keeps the types.
LEMMA CloseType ==
  ASSUME NEW s \in Sub, TypeInv, Close(s), UNCHANGED crashes, calls' \in Nat
  PROVE  TypeInv'
<1>1. TypeOK
  BY DEF TypeInv
<1>2. sub' \in [Sub -> SubRow]
  BY <1>1 DEF Close, TypeOK, SubRow, SubStatus
<1>3. UNCHANGED <<clock, grants, delivered, node>> /\ end_benefits(s)
  BY DEF Close
<1>4. \A m \in Node : SessionOK(m)'
  BY <1>3 DEF TypeInv, SessionOK
<1>5. QED
  BY <1>1, <1>2, <1>3, <1>4, EndType DEF TypeInv, TypeOK

\* A step that starts a batch, or ends one where it stands, keeps the types.
LEMMA BatchType ==
  ASSUME NEW n \in Node, NEW r \in Session, TypeInv, node' = [node EXCEPT ![n] = r], r.at \in {"idle", "next"},
         UNCHANGED <<clock, sub, benefit, access, grants, delivered, calls>>, crashes' \in Nat
  PROVE  TypeInv'
<1>1. TypeOK
  BY DEF TypeInv
<1>2. node' \in [Node -> Session] /\ node'[n] = r /\ \A m \in Node : m # n => node'[m] = node[m]
  BY <1>1, SessionWrite DEF TypeOK
<1>3. SessionOK(n)'
  BY <1>2 DEF SessionOK, OnGrant, OnRow
<1>4. \A m \in Node : SessionOK(m)'
  BY <1>2, <1>3, SessionsOK
<1>5. QED
  BY <1>1, <1>2, <1>4 DEF TypeInv, TypeOK

\* The steps of process_due and of the activation of one benefit keep the types.
LEMMA DueType ==
  ASSUME NEW n \in Node, TypeInv, UNCHANGED <<calls, crashes>>,
         DueStep(n) \/ \E b \in Benefit : ActivateNext(n, b)
  PROVE  TypeInv'
<1>1. TypeOK
  BY DEF TypeInv
<1>2. node \in [Node -> Session] /\ node[n] \in Session /\ clock \in Nat
  BY <1>1 DEF TypeOK
<1>3. ASSUME NEW at \in {"skip", "cycle"}, NEW g \in GrantId, NEW slot \in Nat, NEW cycle \in Nat, TakeCycle(n, at, g, slot, cycle),
             UNCHANGED <<clock, sub, benefit, access, grants, delivered>>
      PROVE  TypeInv'
  <2>1. /\ node' \in [Node -> Session] /\ node'[n].at = at /\ node'[n].g = g
        /\ \A m \in Node : m # n => node'[m] = node[m]
    BY <1>2, <1>3, TakeCycleType DEF Places
  <2>2. SessionOK(n)'
    BY <2>1 DEF SessionOK, OnGrant, OnRow
  <2>3. \A m \in Node : SessionOK(m)'
    BY <1>3, <2>1, <2>2, SessionsOK
  <2>4. QED
    BY <1>1, <1>3, <2>1, <2>3 DEF TypeInv, TypeOK
<1>4. CASE StartDue(n)
  <2> DEFINE due == {b \in Benefit : Due(b, clock)}
             on == [Idle EXCEPT !.op = "due", !.at = "next", !.todo = due, !.moment = clock]
  <2>1. due \in SUBSET (Benefit \cup GrantId)
    OBVIOUS
  <2>2. node' = [node EXCEPT ![n] = on] /\ UNCHANGED <<clock, sub, benefit, access, grants, delivered>>
    BY <1>4 DEF StartDue
  <2> HIDE DEF due
  <2>3. on \in Session /\ on.at = "next"
    BY <1>2, <2>1, IdleType DEF Session, Places, Ops
  <2> HIDE DEF on
  <2>4. QED
    BY <1>1, <2>2, <2>3, BatchType DEF TypeOK
<1>5. ASSUME NEW b \in Benefit, DueNext(n, b) PROVE TypeInv'
  <2> DEFINE slot == resolve_due_slot(b, node[n].moment)
  <2>1. UNCHANGED <<clock, sub, benefit, access, grants, delivered>>
    BY <1>5 DEF DueNext
  <2>2. CASE benefit[b].next = None
    <3>1. node' = [node EXCEPT ![n] = Idle]
      BY <1>5, <2>2 DEF DueNext
    <3>2. QED
      BY <1>1, <2>1, <3>1, IdleType, BatchType DEF Idle, TypeOK
  <2>3. CASE benefit[b].next # None
    <3>1. benefit[b].next \in Nat /\ benefit[b].cycle \in Nat /\ node[n].moment \in Nat
      BY <1>1, <1>2, <2>3 DEF TypeOK, BenefitRow, Session
    <3>2. Walk(benefit[b].next, node[n].moment) \in Nat
      BY <3>1, WalkType
    <3>3. slot \in Nat \cup {None}
      BY <3>1, <3>2 DEF resolve_due_slot
    <3>4. ASSUME NEW k \in Nat PROVE <<b, cycle_key(k)>> \in GrantId
      BY DEF cycle_key, GrantId, Key
    <3>5. CASE slot = None
      <4>1. TakeCycle(n, "skip", <<b, cycle_key(0)>>, Walk(benefit[b].next, node[n].moment) + Interval, benefit[b].cycle)
        BY <1>5, <2>3, <3>5 DEF DueNext
      <4>2. QED
        BY <1>3, <2>1, <3>1, <3>2, <3>4, <4>1
    <3>6. CASE slot # None
      <4>1. TakeCycle(n, "cycle", <<b, cycle_key(slot)>>, slot, benefit[b].cycle)
        BY <1>5, <2>3, <3>6 DEF DueNext
      <4>2. slot \in Nat
        BY <3>3, <3>6
      <4> HIDE DEF slot
      <4>3. QED
        BY <1>3, <2>1, <3>1, <3>4, <4>1, <4>2
    <3>7. QED
      BY <3>5, <3>6
  <2>4. QED
    BY <2>2, <2>3
<1>6. CASE DueSkip(n)
  <2>1. node[n].g \in GrantId
    BY <1>6 DEF TypeInv, SessionOK, OnGrant, DueSkip, At
  <2>2. node[n].g[1] \in Benefit /\ node[n].slot \in Nat
    BY <1>2, <2>1 DEF GrantId, Session
  <2>3. benefit' \in [Benefit -> BenefitRow]
    <3> DEFINE new == [benefit[node[n].g[1]] EXCEPT !.next = node[n].slot]
    <3>1. benefit[node[n].g[1]] \in BenefitRow
      BY <1>1, <2>2 DEF TypeOK
    <3>2. new \in BenefitRow
      BY <2>2, <3>1 DEF BenefitRow
    <3>3. benefit' = [benefit EXCEPT ![node[n].g[1]] = new]
      BY <1>6 DEF DueSkip
    <3> HIDE DEF new
    <3>4. QED
      BY <1>1, <2>2, <3>2, <3>3 DEF TypeOK
  <2>4. UNCHANGED <<clock, sub, access, grants, delivered>> /\ Rest(n, Item(n))
    BY <1>6 DEF DueSkip
  <2>5. node' \in [Node -> Session] /\ \A m \in Node : SessionOK(m)'
    BY <2>4, RestOK
  <2>6. QED
    BY <1>1, <2>3, <2>4, <2>5 DEF TypeInv, TypeOK
<1>7. ASSUME NEW b \in Benefit, ActivateNext(n, b) PROVE TypeInv'
  <2>1. ActivationSlot(b) \in Nat /\ node[n].seen[b] \in Nat
    BY <1>2, WalkType DEF ActivationSlot, landing, Session
  <2>2. <<b, activation_key(b, ActivationSlot(b), node[n].seen[b])>> \in GrantId
    BY <2>1 DEF activation_key, cycle_key, GrantId, Key
  <2>3. /\ TakeCycle(n, "cycle", <<b, activation_key(b, ActivationSlot(b), node[n].seen[b])>>, ActivationSlot(b), node[n].seen[b])
        /\ UNCHANGED <<clock, sub, benefit, access, grants, delivered>>
    BY <1>7 DEF ActivateNext
  <2>4. QED
    BY <1>3, <2>1, <2>2, <2>3
<1>8. QED
  BY <1>4, <1>5, <1>6, <1>7 DEF DueStep

\* The row a cycle inserts is a grant.
LEMMA NewRowType ==
  ASSUME NEW n \in Node, NEW status \in GrantStatus, node[n] \in Session
  PROVE  NewRow(n, status) \in GrantRow
BY DEF NewRow, GrantRow, Session

\* The steps of run_cycle up to the delivery keep the types.
LEMMA CycleType ==
  ASSUME NEW n \in Node, TypeInv, CycleStep(n), UNCHANGED <<calls, crashes>>
  PROVE  TypeInv'
<1>1. TypeOK
  BY DEF TypeInv
<1>2. node \in [Node -> Session] /\ node[n] \in Session /\ clock \in Nat /\ grants \in [DOMAIN grants -> GrantRow]
  BY <1>1 DEF TypeOK
<1>3. node[n].g \in GrantId /\ node[n].g[1] \in Benefit
  <2>1. node[n].at \in OnGrant
    BY DEF CycleStep, CycleMet, CycleRead, InsertSkipped, InsertWon, InsertLost, At, OnGrant
  <2>2. QED
    BY <2>1 DEF TypeInv, SessionOK, GrantId
<1>4. CASE CycleMet(n)
  <2>1. grants[node[n].g] \in GrantRow
    BY <1>2, <1>4 DEF CycleMet
  <2>2. benefit' \in [Benefit -> BenefitRow]
    BY <1>1, <1>3, <1>4, <2>1, AdvanceType DEF CycleMet, TypeOK
  <2>3. UNCHANGED <<clock, sub, access, grants, delivered>> /\ Rest(n, Item(n))
    BY <1>4 DEF CycleMet
  <2>4. QED
    BY <1>1, <2>2, <2>3, RestOK DEF TypeInv, TypeOK
<1>5. CASE CycleRead(n)
  <2> DEFINE b == node[n].g[1]
             u == IF Cadence[b] = "ONCE_PER_USER" THEN sub[SubOf[b]].user ELSE None
             at == IF (u # None /\ already_held_by_user(u)) \/ ~policy_allows(b) THEN "insert_skipped" ELSE "insert"
             new == [node[n] EXCEPT !.at = at, !.reserved = u]
  <2>1. u \in User \cup {None} /\ at \in {"insert", "insert_skipped"}
    BY <1>1, <1>3 DEF TypeOK, SubRow
  <2>2. node' = [node EXCEPT ![n] = new] /\ UNCHANGED <<clock, sub, benefit, access, grants, delivered>>
    BY <1>5 DEF CycleRead
  <2> HIDE DEF u, at
  <2>3. new \in Session /\ new.at = at /\ new.g = node[n].g
    BY <1>2, <2>1 DEF Session, Places
  <2> HIDE DEF new
  <2>4. node' \in [Node -> Session] /\ node'[n] = new /\ \A m \in Node : m # n => node'[m] = node[m]
    BY <1>2, <2>2, <2>3, SessionWrite
  <2>5. SessionOK(n)'
    BY <1>3, <2>1, <2>3, <2>4 DEF SessionOK, OnGrant, OnRow
  <2>6. \A m \in Node : SessionOK(m)'
    BY <2>2, <2>4, <2>5, SessionsOK
  <2>7. QED
    BY <1>1, <2>2, <2>4, <2>6 DEF TypeInv, TypeOK
<1>6. CASE InsertSkipped(n)
  <2>1. NewRow(n, "SKIPPED") \in GrantRow
    BY <1>2, NewRowType DEF GrantStatus
  <2>2. benefit' \in [Benefit -> BenefitRow]
    BY <1>1, <1>3, <1>6, <2>1, AdvanceType DEF InsertSkipped, TypeOK
  <2>3. DOMAIN grants \subseteq DOMAIN grants' /\ DOMAIN grants' \subseteq GrantId /\ grants' \in [DOMAIN grants' -> GrantRow]
    <3>1. CASE node[n].g \in DOMAIN grants
      BY <1>1, <1>6, <3>1 DEF InsertSkipped, TypeOK
    <3>2. CASE node[n].g \notin DOMAIN grants
      <4>1. Insert(node[n].g, NewRow(n, "SKIPPED"))
        BY <1>6, <3>2 DEF InsertSkipped
      <4>2. DOMAIN grants' = DOMAIN grants \cup {node[n].g} /\ grants' \in [DOMAIN grants' -> GrantRow]
        BY <1>2, <1>3, <2>1, <4>1, InsertType
      <4>3. QED
        BY <1>1, <1>3, <4>2 DEF TypeOK
    <3>3. QED
      BY <3>1, <3>2
  <2>4. UNCHANGED <<clock, sub, access, delivered>> /\ Rest(n, Item(n))
    BY <1>6 DEF InsertSkipped
  <2>5. QED
    BY <1>1, <2>2, <2>3, <2>4, RestOK DEF TypeInv, TypeOK
<1>7. CASE InsertWon(n)
  <2>1. NewRow(n, "PROCESSING") \in GrantRow
    BY <1>2, NewRowType DEF GrantStatus
  <2>2. DOMAIN grants' = DOMAIN grants \cup {node[n].g} /\ grants' \in [DOMAIN grants' -> GrantRow]
    BY <1>2, <1>3, <1>7, <2>1, InsertType DEF InsertWon
  <2>3. UNCHANGED <<clock, sub, benefit, access, delivered>> /\ Goto(n, "deliver")
    BY <1>7 DEF InsertWon
  <2>4. /\ node' \in [Node -> Session] /\ node'[n].at = "deliver" /\ node'[n].g = node[n].g
        /\ \A m \in Node : m # n => node'[m] = node[m]
    BY <1>2, <2>3, GotoType DEF Places
  <2>5. SessionOK(n)'
    BY <1>3, <2>2, <2>4 DEF SessionOK, OnGrant, OnRow
  <2>6. \A m \in Node : SessionOK(m)'
    BY <2>2, <2>4, <2>5, SessionsOK
  <2>7. QED
    BY <1>1, <1>3, <2>2, <2>3, <2>4, <2>6 DEF TypeInv, TypeOK
<1>8. CASE InsertLost(n)
  <2>1. UNCHANGED <<clock, sub, benefit, access, grants, delivered>> /\ Rest(n, Item(n))
    BY <1>8 DEF InsertLost
  <2>2. QED
    BY <1>1, <2>1, RestOK DEF TypeInv, TypeOK
<1>9. QED
  BY <1>4, <1>5, <1>6, <1>7, <1>8 DEF CycleStep

\* What Pay writes is an entry, and the session goes on to record it.
LEMMA PayType ==
  ASSUME NEW n \in Node, TypeInv, node[n].at = "deliver", Pay(n), UNCHANGED <<calls, crashes>>
  PROVE  TypeInv'
<1>1. TypeOK
  BY DEF TypeInv
<1>2. /\ node[n].g \in DOMAIN grants /\ node[n].g \in GrantId /\ node[n].g[1] \in Benefit
      /\ grants[node[n].g] \in GrantRow
  BY RowOf DEF OnRow
<1>3. sub[SubOf[node[n].g[1]]].user \in User /\ grants[node[n].g].attempts \in Nat
  BY <1>1, <1>2 DEF TypeOK, SubRow, GrantRow
<1>4. delivered' \subseteq Entry
  BY <1>1, <1>2, <1>3 DEF Pay, TypeOK, Entry
<1>5. UNCHANGED <<clock, sub, benefit, access, grants>> /\ Goto(n, "finish")
  BY DEF Pay
<1>6. /\ node' \in [Node -> Session] /\ node'[n].at = "finish" /\ node'[n].g = node[n].g
      /\ \A m \in Node : m # n => node'[m] = node[m]
  BY <1>1, <1>5, GotoType DEF TypeOK, Places
<1>7. SessionOK(n)'
  BY <1>2, <1>5, <1>6 DEF SessionOK, OnGrant, OnRow
<1>8. \A m \in Node : SessionOK(m)'
  BY <1>5, <1>6, <1>7, SessionsOK
<1>9. QED
  BY <1>1, <1>4, <1>5, <1>6, <1>8 DEF TypeInv, TypeOK

\* The delivery of one grant keeps the types.
LEMMA DeliverType ==
  ASSUME NEW n \in Node, TypeInv, DeliverStep(n) \/ DeliverFailed(n), UNCHANGED <<calls, crashes>>
  PROVE  TypeInv'
<1>1. TypeOK
  BY DEF TypeInv
<1>2. node[n].at \in OnRow
  BY DEF DeliverStep, DeliverFailed, DeliverDropped, deliver_access, deliver_credit, deliver_product, DeliverFinish, AdvanceGivenUp, At, OnRow
<1>3. /\ node[n].g \in DOMAIN grants /\ node[n].g \in GrantId /\ node[n].g[1] \in Benefit
      /\ grants[node[n].g] \in GrantRow /\ grants \in [DOMAIN grants -> GrantRow]
  BY <1>1, <1>2, RowOf DEF TypeOK
<1> DEFINE row == grants[node[n].g]
<1>4. /\ drop(row) \in GrantRow /\ complete(row) \in GrantRow
      /\ [row EXCEPT !.status = "SKIPPED", !.stale = FALSE] \in GrantRow
      /\ [row EXCEPT !.status = "FAILED", !.stale = FALSE] \in GrantRow
  <2> HIDE DEF row
  <2>1. row \in GrantRow
    BY <1>3 DEF row
  <2>2. QED
    BY <2>1, RowTypes DEF GrantRow, GrantStatus
<1>5. ASSUME NEW new \in GrantRow, SettleGrant(n, new), UNCHANGED <<clock, sub, delivered>>,
             access' \in [Benefit -> {"ABSENT", "ACTIVE", "EXPIRED"}]
      PROVE  TypeInv'
  BY <1>1, <1>2, <1>5, SettleType DEF TypeInv, TypeOK
<1>6. access \in [Benefit -> {"ABSENT", "ACTIVE", "EXPIRED"}]
  BY <1>1 DEF TypeOK
<1>7. CASE DeliverDropped(n)
  BY <1>4, <1>5, <1>6, <1>7 DEF DeliverDropped
<1>8. CASE deliver_access(n)
  BY <1>3, <1>4, <1>5, <1>6, <1>8 DEF deliver_access
<1>9. CASE deliver_credit(n)
  <2>1. CASE Settled(node[n].g)
    BY <1>4, <1>5, <1>6, <1>9, <2>1 DEF deliver_credit
  <2>2. CASE ~Settled(node[n].g)
    BY <1>9, <2>2, PayType DEF deliver_credit, At
  <2>3. QED
    BY <2>1, <2>2
<1>10. CASE deliver_product(n)
  <2>1. CASE Owns(sub[SubOf[node[n].g[1]]].user)
    BY <1>4, <1>5, <1>6, <1>10, <2>1 DEF deliver_product
  <2>2. CASE ~Owns(sub[SubOf[node[n].g[1]]].user)
    BY <1>10, <2>2, PayType DEF deliver_product, At
  <2>3. QED
    BY <2>1, <2>2
<1>11. CASE DeliverFinish(n)
  BY <1>4, <1>5, <1>6, <1>11 DEF DeliverFinish
<1>12. CASE DeliverFailed(n)
  <2>1. PICK new \in GrantRow : Write(node[n].g, new)
    BY <1>4, <1>12 DEF DeliverFailed
  <2>2. DOMAIN grants' = DOMAIN grants /\ grants' \in [DOMAIN grants' -> GrantRow]
    BY <1>3, <2>1, WriteType
  <2>3. UNCHANGED <<clock, sub, benefit, access, delivered>>
    BY <1>12 DEF DeliverFailed
  <2>4. CASE Goto(n, "advance")
    <3>1. /\ node' \in [Node -> Session] /\ node'[n].at = "advance" /\ node'[n].g = node[n].g
          /\ \A m \in Node : m # n => node'[m] = node[m]
      BY <1>1, <2>4, GotoType DEF TypeOK, Places
    <3>2. SessionOK(n)'
      BY <1>3, <2>2, <3>1 DEF SessionOK, OnGrant, OnRow
    <3>3. \A m \in Node : SessionOK(m)'
      BY <2>2, <3>1, <3>2, SessionsOK
    <3>4. QED
      BY <1>1, <2>2, <2>3, <3>1, <3>3 DEF TypeInv, TypeOK
  <2>5. CASE Rest(n, Item(n))
    BY <1>1, <2>2, <2>3, <2>5, RestOK DEF TypeInv, TypeOK
  <2>6. QED
    BY <1>12, <2>4, <2>5 DEF DeliverFailed
<1>13. CASE AdvanceGivenUp(n)
  <2>1. benefit' \in [Benefit -> BenefitRow]
    BY <1>1, <1>3, <1>13, AdvanceType DEF AdvanceGivenUp, TypeOK
  <2>2. UNCHANGED <<clock, sub, access, grants, delivered>> /\ Rest(n, Item(n))
    BY <1>13 DEF AdvanceGivenUp
  <2>3. QED
    BY <1>1, <2>1, <2>2, RestOK DEF TypeInv, TypeOK
<1>14. QED
  BY <1>7, <1>8, <1>9, <1>10, <1>11, <1>12, <1>13 DEF DeliverStep

\* The steps of retry_failed_grants keep the types.
LEMMA RetryType ==
  ASSUME NEW n \in Node, TypeInv, RetryStep(n), UNCHANGED <<calls, crashes>>
  PROVE  TypeInv'
<1>1. TypeOK
  BY DEF TypeInv
<1>2. node \in [Node -> Session] /\ grants \in [DOMAIN grants -> GrantRow] /\ DOMAIN grants \subseteq GrantId
  BY <1>1 DEF TypeOK
<1>3. ASSUME NEW g \in DOMAIN grants, NEW at \in {"deliver", "advance", "drop"}, Take(n, at, g),
             DOMAIN grants' = DOMAIN grants, grants' \in [DOMAIN grants' -> GrantRow],
             UNCHANGED <<clock, sub, benefit, access, delivered>>
      PROVE  TypeInv'
  <2>1. /\ node' \in [Node -> Session] /\ node'[n].at = at /\ node'[n].g = g
        /\ \A m \in Node : m # n => node'[m] = node[m]
    BY <1>2, <1>3, TakeType DEF Places
  <2>2. SessionOK(n)'
    BY <1>2, <1>3, <2>1 DEF SessionOK, OnGrant, OnRow
  <2>3. \A m \in Node : SessionOK(m)'
    BY <1>3, <2>1, <2>2, SessionsOK
  <2>4. QED
    BY <1>1, <1>3, <2>1, <2>3 DEF TypeInv, TypeOK
<1>4. ASSUME NEW g \in DOMAIN grants
      PROVE  /\ grants[g] \in GrantRow /\ drop(grants[g]) \in GrantRow
             /\ [grants[g] EXCEPT !.status = "PROCESSING", !.attempts = grants[g].attempts + 1, !.stale = FALSE] \in GrantRow
  <2>1. grants[g] \in GrantRow
    BY <1>2
  <2>2. grants[g].attempts + 1 \in Nat
    BY <2>1 DEF GrantRow
  <2>3. QED
    BY <2>1, <2>2, RowTypes DEF GrantRow, GrantStatus
<1>5. CASE StartRetry(n)
  <2> DEFINE list == {g \in DOMAIN grants : takeable(grants[g]) \/ exhausted(grants[g])}
             on == [Idle EXCEPT !.op = "retry", !.at = "next", !.todo = list]
  <2>1. list \in SUBSET (Benefit \cup GrantId)
    BY <1>2
  <2>2. node' = [node EXCEPT ![n] = on] /\ UNCHANGED <<clock, sub, benefit, access, grants, delivered>>
    BY <1>5 DEF StartRetry
  <2> HIDE DEF list
  <2>3. on \in Session /\ on.at = "next"
    BY <2>1, IdleType DEF Session, Places, Ops
  <2> HIDE DEF on
  <2>4. QED
    BY <1>1, <2>2, <2>3, BatchType DEF TypeOK
<1>6. CASE RetryDrop(n)
  <2>1. node[n].g \in DOMAIN grants
    BY <1>6, RowOf DEF RetryDrop, At, OnRow
  <2>2. DOMAIN grants' = DOMAIN grants /\ grants' \in [DOMAIN grants' -> GrantRow]
    BY <1>2, <1>4, <1>6, <2>1, WriteType DEF RetryDrop
  <2>3. UNCHANGED <<clock, sub, benefit, access, delivered>> /\ Rest(n, Item(n))
    BY <1>6 DEF RetryDrop
  <2>4. QED
    BY <1>1, <2>2, <2>3, RestOK DEF TypeInv, TypeOK
<1>7. ASSUME NEW g \in DOMAIN grants, RetryUnowed(n, g) PROVE TypeInv'
  BY <1>2, <1>3, <1>7 DEF RetryUnowed
<1>8. ASSUME NEW g \in DOMAIN grants, close_exhausted(n, g) PROVE TypeInv'
  <2>1. UNCHANGED <<clock, sub, benefit, access, delivered>>
    BY <1>8 DEF close_exhausted
  <2>2. CASE exhausted(grants[g])
    <3>1. Write(g, drop(grants[g])) /\ Take(n, "advance", g)
      BY <1>8, <2>2 DEF close_exhausted
    <3>2. DOMAIN grants' = DOMAIN grants /\ grants' \in [DOMAIN grants' -> GrantRow]
      BY <1>2, <1>4, <3>1, WriteType
    <3>3. QED
      BY <1>3, <2>1, <3>1, <3>2
  <2>3. CASE ~exhausted(grants[g])
    <3>1. Rest(n, g) /\ UNCHANGED grants
      BY <1>8, <2>3 DEF close_exhausted
    <3>2. QED
      BY <1>1, <2>1, <3>1, RestOK DEF TypeInv, TypeOK
  <2>4. QED
    BY <2>2, <2>3
<1>9. ASSUME NEW g \in DOMAIN grants, claim(n, g) PROVE TypeInv'
  <2>1. UNCHANGED <<clock, sub, benefit, access, delivered>>
    BY <1>9 DEF claim
  <2>2. CASE takeable(grants[g])
    <3> DEFINE new == [grants[g] EXCEPT !.status = "PROCESSING", !.attempts = grants[g].attempts + 1, !.stale = FALSE]
    <3>1. Write(g, new) /\ Take(n, "deliver", g)
      BY <1>9, <2>2 DEF claim
    <3>2. new \in GrantRow
      BY <1>4
    <3> HIDE DEF new
    <3>3. DOMAIN grants' = DOMAIN grants /\ grants' \in [DOMAIN grants' -> GrantRow]
      BY <1>2, <3>1, <3>2, WriteType
    <3>4. QED
      BY <1>3, <2>1, <3>1, <3>3
  <2>3. CASE ~takeable(grants[g])
    <3>1. Rest(n, g) /\ UNCHANGED grants
      BY <1>9, <2>3 DEF claim
    <3>2. QED
      BY <1>1, <2>1, <3>1, RestOK DEF TypeInv, TypeOK
  <2>4. QED
    BY <2>2, <2>3
<1>10. QED
  BY <1>5, <1>6, <1>7, <1>8, <1>9 DEF RetryStep

\* A grant that grows old keeps the types.
LEMMA AbandonType ==
  ASSUME NEW g \in DOMAIN grants, TypeInv, Abandon(g), UNCHANGED <<calls, crashes>>
  PROVE  TypeInv'
<1>1. TypeOK
  BY DEF TypeInv
<1>2. grants \in [DOMAIN grants -> GrantRow] /\ grants[g] \in GrantRow
  BY <1>1 DEF TypeOK
<1>3. [grants[g] EXCEPT !.stale = TRUE] \in GrantRow
  BY <1>2 DEF GrantRow
<1>4. DOMAIN grants' = DOMAIN grants /\ grants' \in [DOMAIN grants' -> GrantRow]
  BY <1>2, <1>3, WriteType DEF Abandon
<1>5. UNCHANGED <<clock, sub, benefit, access, delivered, node>>
  BY DEF Abandon
<1>6. \A m \in Node : SessionOK(m)'
  BY <1>4, <1>5 DEF TypeInv, SessionOK
<1>7. QED
  BY <1>1, <1>4, <1>5, <1>6 DEF TypeInv, TypeOK

\* The type invariant and what every session holds are kept by every step.
LEMMA TypeStep == TypeInv /\ [Next]_vars => TypeInv'
<1> SUFFICES ASSUME TypeInv, [Next]_vars PROVE TypeInv'
  OBVIOUS
<1>1. TypeOK /\ calls \in Nat /\ crashes \in Nat /\ clock \in Nat
  BY DEF TypeInv, TypeOK
<1>2. CASE UNCHANGED vars
  BY <1>2 DEF vars, TypeInv, TypeOK, SessionOK
<1>3. CASE Ask
  <2>1. calls' \in Nat /\ UNCHANGED crashes
    BY <1>1, <1>3 DEF Ask
  <2>2. ASSUME NEW s \in Sub, Close(s) PROVE TypeInv'
    BY <2>1, <2>2, CloseType
  <2>3. ASSUME NEW s \in Sub, NEW n \in Node, NEW status \in SubStatus, NEW plan \in Plan, Activate(n, s, status, plan) PROVE TypeInv'
    BY <2>1, <2>3, ActivateRowType DEF Activate
  <2>4. ASSUME NEW s \in Sub, NEW n \in Node, NEW plan \in Plan, OpenNewCycle(n, s, plan) PROVE TypeInv'
    BY <2>1, <2>4, ReleaseType DEF OpenNewCycle
  <2>5. ASSUME NEW s \in Sub, NEW n \in Node, NEW u \in User, NEW status \in SubStatus, HandOver(n, s, u, status) PROVE TypeInv'
    BY <2>1, <2>5, HandOverType
  <2>6. QED
    BY <1>3, <2>2, <2>3, <2>4, <2>5 DEF Ask, Call
<1>4. CASE Die
  <2>1. PICK n \in Node : Crash(n)
    BY <1>4 DEF Die
  <2>2. crashes' \in Nat /\ UNCHANGED calls
    BY <1>1, <1>4 DEF Die
  <2>3. QED
    BY <2>1, <2>2, IdleType, BatchType DEF Crash, Idle
<1>5. CASE Run /\ UNCHANGED <<calls, crashes>>
  <2>1. ASSUME NEW n \in Node, DueStep(n) \/ \E b \in Benefit : ActivateNext(n, b) PROVE TypeInv'
    BY <1>5, <2>1, DueType
  <2>2. ASSUME NEW n \in Node, RetryStep(n) PROVE TypeInv'
    BY <1>5, <2>2, RetryType
  <2>3. ASSUME NEW n \in Node, CycleStep(n) PROVE TypeInv'
    BY <1>5, <2>3, CycleType
  <2>4. ASSUME NEW n \in Node, DeliverStep(n) \/ DeliverFailed(n) PROVE TypeInv'
    BY <1>5, <2>4, DeliverType
  <2>5. ASSUME NEW n \in Node, HandOverRelease(n) \/ RenewActivate(n) PROVE TypeInv'
    <3>1. node[n].sub \in Sub
      BY <2>5 DEF TypeInv, SessionOK, HandOverRelease, RenewActivate, At
    <3>2. sub[node[n].sub].plan \in Plan /\ sub[node[n].sub].status \in SubStatus
      BY <1>1, <3>1 DEF TypeOK, SubRow
    <3>3. QED
      BY <1>1, <1>5, <2>5, <3>1, <3>2, ReleaseType, ActivateRowType DEF HandOverRelease, RenewActivate
  <2>6. ASSUME NEW g \in DOMAIN grants, Abandon(g) PROVE TypeInv'
    BY <1>5, <2>6, AbandonType
  <2>7. CASE Tick
    <3>1. clock' \in Nat /\ UNCHANGED <<sub, benefit, access, grants, delivered, node>>
      BY <1>1, <2>7 DEF Tick
    <3>2. QED
      BY <1>5, <3>1 DEF TypeInv, TypeOK, SessionOK
  <2>8. QED
    BY <1>5, <2>1, <2>2, <2>3, <2>4, <2>5, <2>6, <2>7 DEF Run, Work, RenewStep
<1>6. QED
  BY <1>2, <1>3, <1>4, <1>5 DEF Next

LEMMA TypeInit == Init => TypeInv
<1> SUFFICES ASSUME Init PROVE TypeInv
  OBVIOUS
<1>1. sub \in [Sub -> SubRow]
  BY DEF Init, SubRow, SubStatus
<1>2. benefit \in [Benefit -> BenefitRow]
  BY DEF Init, BenefitRow, BenefitStatus
<1>3. DOMAIN grants \subseteq GrantId /\ grants \in [DOMAIN grants -> GrantRow]
  BY DEF Init
<1>4. node \in [Node -> Session]
  BY IdleType DEF Init
<1>5. \A n \in Node : SessionOK(n)
  BY DEF Init, SessionOK, Idle, OnGrant, OnRow
<1>6. QED
  BY <1>1, <1>2, <1>3, <1>4, <1>5 DEF Init, TypeInv, TypeOK

\* Rows and sessions always have the shape the code gives them, for any number of nodes, subscriptions and benefits.
THEOREM TypeCorrect == Spec => []TypeOK
<1>1. Spec => []TypeInv
  BY TypeInit, TypeStep, PTL DEF Spec
<1>2. TypeInv => TypeOK
  BY DEF TypeInv
<1>3. QED
  BY <1>1, <1>2, PTL

-----------------------------------------------------------------------------
(* Nothing is paid twice.  Evidence is only ever added, and only by the    *)
(* two handlers that asked for it under the locks: that alone keeps the    *)
(* ledger sound, whoever else works the same grant and however often.      *)

\* A payment: the handler found no evidence, and adds one entry for the grant it is on.
Paying(n) ==
  /\ node[n].at = "deliver" /\ Deliverable(n) /\ Pay(n)
  /\ \/ Type[node[n].g[1]] = "CREDIT" /\ ~Settled(node[n].g)
     \/ Type[node[n].g[1]] = "PRODUCT" /\ ~Owns(sub[SubOf[node[n].g[1]]].user)

\* A step pays, or leaves the ledger as it is.
LEMMA DeliveredStep ==
  ASSUME [Next]_vars
  PROVE  UNCHANGED delivered \/ \E n \in Node : Paying(n)
<1>1. CASE UNCHANGED vars
  BY <1>1 DEF vars
<1>2. CASE Ask
  <2>1. ASSUME NEW s \in Sub, Close(s) PROVE UNCHANGED delivered
    BY <2>1 DEF Close
  <2>2. ASSUME NEW n \in Node, NEW s \in Sub, NEW status \in SubStatus, NEW plan \in Plan, Activate(n, s, status, plan)
        PROVE  UNCHANGED delivered
    BY <2>2 DEF Activate, ActivateRow
  <2>3. ASSUME NEW n \in Node, NEW s \in Sub, NEW plan \in Plan, OpenNewCycle(n, s, plan) PROVE UNCHANGED delivered
    BY <2>3 DEF OpenNewCycle, release_cycle
  <2>4. ASSUME NEW n \in Node, NEW s \in Sub, NEW u \in User, NEW status \in SubStatus, HandOver(n, s, u, status)
        PROVE  UNCHANGED delivered
    BY <2>4 DEF HandOver
  <2>5. ASSUME NEW n \in Node, NEW s \in Sub, Call(n, s) PROVE UNCHANGED delivered
    BY <2>2, <2>3, <2>4, <2>5 DEF Call
  <2>6. QED
    BY <1>2, <2>1, <2>5 DEF Ask
<1>3. CASE Die
  BY <1>3 DEF Die, Crash
<1>4. CASE Run
  <2>1. ASSUME NEW n \in Node, Work(n) PROVE UNCHANGED delivered \/ Paying(n)
    <3>1. CASE DueStep(n)
      BY <3>1 DEF DueStep, StartDue, DueNext, DueSkip
    <3>2. CASE RetryStep(n)
      BY <3>2 DEF RetryStep, StartRetry, RetryDrop, RetryUnowed, close_exhausted, claim
    <3>3. CASE CycleStep(n)
      BY <3>3 DEF CycleStep, CycleMet, CycleRead, InsertSkipped, InsertWon, InsertLost
    <3>4. CASE DeliverStep(n)
      BY <3>4 DEF DeliverStep, DeliverDropped, deliver_access, deliver_credit, deliver_product, DeliverFinish, AdvanceGivenUp, Paying, At
    <3>5. CASE RenewStep(n)
      BY <3>5 DEF RenewStep, HandOverRelease, RenewActivate, release_cycle, ActivateRow, ActivateNext
    <3>6. QED
      BY <2>1, <3>1, <3>2, <3>3, <3>4, <3>5 DEF Work
  <2>2. ASSUME NEW n \in Node, DeliverFailed(n) PROVE UNCHANGED delivered
    BY <2>2 DEF DeliverFailed
  <2>3. CASE (\E g \in DOMAIN grants : Abandon(g)) \/ Tick
    BY <2>3 DEF Abandon, Tick
  <2>4. QED
    BY <1>4, <2>1, <2>2, <2>3 DEF Run
<1>5. QED
  BY <1>1, <1>2, <1>3, <1>4 DEF Next

\* The ledger holds one entry per key and an account one product, across overlapping passes, retries, crashes and sessions older than ABANDONED_AFTER.
THEOREM NothingPaidTwice == Spec => []PaidOnce
<1>1. Init => PaidOnce
  BY DEF Init, PaidOnce
<1>2. TypeInv /\ PaidOnce /\ [Next]_vars => PaidOnce'
  <2> SUFFICES ASSUME TypeInv, PaidOnce, [Next]_vars PROVE PaidOnce'
    OBVIOUS
  <2>1. CASE UNCHANGED delivered
    BY <2>1 DEF PaidOnce
  <2>2. ASSUME NEW n \in Node, Paying(n) PROVE PaidOnce'
    <3> DEFINE new == [key |-> node[n].g, user |-> sub[SubOf[node[n].g[1]]].user, attempt |-> grants[node[n].g].attempts]
    <3>1. delivered' = delivered \cup {new}
      BY <2>2 DEF Paying, Pay
    <3>2. new.key = node[n].g /\ new.user = sub[SubOf[node[n].g[1]]].user
      OBVIOUS
    <3> HIDE DEF new
    <3>3. CASE Type[node[n].g[1]] = "CREDIT" /\ ~Settled(node[n].g)
      BY <3>1, <3>2, <3>3 DEF PaidOnce, Settled
    <3>4. CASE Type[node[n].g[1]] = "PRODUCT" /\ ~Owns(sub[SubOf[node[n].g[1]]].user)
      BY <3>1, <3>2, <3>4 DEF PaidOnce, Owns
    <3>5. QED
      BY <2>2, <3>3, <3>4 DEF Paying
  <2>3. QED
    BY <2>1, <2>2, DeliveredStep
<1>3. Spec => []TypeInv
  BY TypeInit, TypeStep, PTL DEF Spec
<1>4. QED
  BY <1>1, <1>2, <1>3, PTL DEF Spec

-----------------------------------------------------------------------------
(* A grant that says so was handed over.  The claim is not inductive: a    *)
(* session that paid and has not recorded it yet must be known to have     *)
(* paid, which is what Paid adds.                                          *)

\* A session about to record a delivery has its evidence.
Paid(n) == node[n].at = "finish" => Settled(node[n].g)

BackedInv == CompletedIsBacked /\ \A n \in Node : Paid(n)

\* Evidence stays: nothing is ever taken out of the ledger.
LEMMA EvidenceStays ==
  ASSUME [Next]_vars
  PROVE  delivered \subseteq delivered'
BY DeliveredStep DEF Paying, Pay

\* A step that leaves the grants and adds no session at "finish" keeps every grant backed.
LEMMA BackedKept ==
  ASSUME BackedInv, [Next]_vars,
         \A g \in DOMAIN grants' : \/ g \in DOMAIN grants /\ grants'[g].status = grants[g].status
                                   \/ grants'[g].status # "COMPLETED" \/ Type[g[1]] = "ACCESS" \/ Settled(g),
         \A n \in Node : node'[n] = node[n] \/ node'[n].at # "finish" \/ Paid(n)'
  PROVE  BackedInv'
<1>1. CompletedIsBacked'
  BY EvidenceStays DEF BackedInv, CompletedIsBacked, Settled
<1>2. \A n \in Node : Paid(n)'
  BY EvidenceStays DEF BackedInv, Paid, Settled
<1>3. QED
  BY <1>1, <1>2 DEF BackedInv

\* A step that settles a grant keeps every grant backed, when the row it writes is.
LEMMA SettleBacked ==
  ASSUME NEW n \in Node, NEW row \in GrantRow, TypeInv, BackedInv, [Next]_vars, node[n].at \in OnRow,
         Write(node[n].g, row), Rest(n, Item(n)),
         row.status # "COMPLETED" \/ Type[node[n].g[1]] = "ACCESS" \/ Settled(node[n].g)
  PROVE  BackedInv'
<1>1. node[n].g \in DOMAIN grants /\ grants \in [DOMAIN grants -> GrantRow] /\ node \in [Node -> Session]
  BY RowOf DEF TypeInv, TypeOK
<1>2. /\ DOMAIN grants' = DOMAIN grants
      /\ grants'[node[n].g] = row /\ \A x \in DOMAIN grants : x # node[n].g => grants'[x] = grants[x]
  BY <1>1, WriteType
<1>3. \A m \in Node : node'[m] = node[m] \/ node'[m].at # "finish"
  BY <1>1, RestType
<1>4. QED
  BY <1>2, <1>3, BackedKept

\* Evidence stands behind every grant that says it was handed over, whatever interrupted or raced its delivery.
THEOREM DeliveriesAreBacked == Spec => []CompletedIsBacked
<1>1. Init => BackedInv
  BY DEF Init, BackedInv, CompletedIsBacked, Paid, Idle
<1>2. TypeInv /\ BackedInv /\ [Next]_vars => BackedInv'
  <2> SUFFICES ASSUME TypeInv, BackedInv, [Next]_vars PROVE BackedInv'
    OBVIOUS
  <2>1. node \in [Node -> Session] /\ grants \in [DOMAIN grants -> GrantRow] /\ DOMAIN grants \subseteq GrantId
    BY DEF TypeInv, TypeOK
  <2>2. ASSUME NEW n \in Node, NEW item, Rest(n, item) PROVE \A m \in Node : node'[m] = node[m] \/ node'[m].at # "finish"
    BY <2>1, <2>2, RestType
  <2>3. ASSUME UNCHANGED grants, \A n \in Node : node'[n] = node[n] \/ node'[n].at # "finish" PROVE BackedInv'
    BY <2>3, BackedKept
  <2>4. ASSUME NEW n \in Node, NEW r \in Session, r.at # "finish", node' = [node EXCEPT ![n] = r] 
        PROVE \A m \in Node : node'[m] = node[m] \/ node'[m].at # "finish"
    BY <2>1, <2>4, SessionWrite
  <2>5. ASSUME NEW g \in DOMAIN grants, NEW row \in GrantRow, Write(g, row), row.status # "COMPLETED", 
               \A n \in Node : node'[n] = node[n] \/ node'[n].at # "finish"
        PROVE BackedInv'
    BY <2>1, <2>5, WriteType, BackedKept
  <2>6. CASE UNCHANGED vars
    BY <2>3, <2>6 DEF vars
  <2>7. CASE Ask \/ Die
    <3>1. UNCHANGED grants /\ (UNCHANGED node \/ \E n \in Node : \E r \in Session : r.at # "finish" /\ node' = [node EXCEPT ![n] = r])
      <4>1. CASE Die
        BY <4>1, IdleType DEF Die, Crash, Idle
      <4>2. ASSUME NEW s \in Sub, Close(s) PROVE UNCHANGED <<grants, node>>
        BY <4>2 DEF Close
      <4>3. ASSUME NEW n \in Node, NEW s \in Sub, Call(n, s) PROVE UNCHANGED grants
        BY <4>3 DEF Call, Activate, ActivateRow, OpenNewCycle, release_cycle, HandOver
      <4>4. ASSUME NEW n \in Node, NEW s \in Sub, Call(n, s) PROVE \E r \in Session : r.at # "finish" /\ node' = [node EXCEPT ![n] = r]
        <5>1. node' \in [Node -> Session]
          BY TypeStep DEF TypeInv, TypeOK
        <5>2. node'[n] \in Session
          BY <5>1
        <5>3. \E r : r.at # "finish" /\ node' = [node EXCEPT ![n] = r]
          BY <4>4, IdleType DEF Call, Activate, ActivateRow, OpenNewCycle, release_cycle, HandOver, Idle
        <5>4. QED
          BY <2>1, <5>2, <5>3
      <4>5. QED
        BY <2>7, <4>1, <4>2, <4>3, <4>4 DEF Ask
    <3>2. QED
      BY <2>3, <2>4, <3>1
  <2>8. ASSUME NEW n \in Node, DueStep(n) \/ RenewStep(n) PROVE BackedInv'
    <3>1. UNCHANGED grants
      BY <2>8 DEF DueStep, StartDue, DueNext, DueSkip, RenewStep, HandOverRelease, RenewActivate, release_cycle, ActivateRow, ActivateNext
    <3>2. CASE DueSkip(n)
      BY <2>2, <2>3, <3>1, <3>2 DEF DueSkip
    <3>3. ASSUME NEW at \in {"skip", "cycle"}, NEW g, NEW slot, NEW cycle, TakeCycle(n, at, g, slot, cycle)
          PROVE  \A m \in Node : node'[m] = node[m] \/ node'[m].at # "finish"
      BY <2>1, <3>3 DEF TakeCycle, Session
    <3>4. ASSUME NEW b \in Benefit, DueNext(n, b) \/ ActivateNext(n, b) PROVE BackedInv'
      <4>1. CASE node' = [node EXCEPT ![n] = Idle]
        BY <2>3, <2>4, <3>1, <4>1, IdleType DEF Idle
      <4>2. CASE node' # [node EXCEPT ![n] = Idle]
        BY <2>3, <3>1, <3>3, <3>4, <4>2 DEF DueNext, ActivateNext
      <4>3. QED
        BY <4>1, <4>2
    <3>5. CASE StartDue(n) \/ HandOverRelease(n) \/ RenewActivate(n)
      <4>1. node'[n].at # "finish"
        <5>1. CASE StartDue(n)
          BY <2>1, <5>1 DEF StartDue, Idle
        <5>2. CASE HandOverRelease(n)
          BY <2>1, <5>2 DEF HandOverRelease, release_cycle, Idle
        <5>3. CASE RenewActivate(n)
          <6>1. \E r : r.at # "finish" /\ node' = [node EXCEPT ![n] = r]
            BY <5>3 DEF RenewActivate, ActivateRow, Idle
          <6>2. QED
            BY <2>1, <6>1
        <5>4. QED
          BY <3>5, <5>1, <5>2, <5>3
      <4>2. \A m \in Node : m # n => node'[m] = node[m]
        BY <2>1, <3>5 DEF StartDue, HandOverRelease, RenewActivate, release_cycle, ActivateRow
      <4>3. QED
        BY <2>3, <3>1, <4>1, <4>2
    <3>6. QED
      BY <2>8, <3>2, <3>4, <3>5 DEF DueStep, RenewStep
  <2>9. ASSUME NEW n \in Node, CycleStep(n) PROVE BackedInv'
    <3>1. CASE CycleMet(n) \/ InsertLost(n)
      BY <2>2, <2>3, <3>1 DEF CycleMet, InsertLost
    <3>2. CASE CycleRead(n)
      <4>1. UNCHANGED grants /\ node'[n].at # "finish" /\ \A m \in Node : m # n => node'[m] = node[m]
        BY <2>1, <3>2 DEF CycleRead, Session
      <4>2. QED
        BY <2>3, <4>1
    <3>3. ASSUME NEW status \in {"SKIPPED", "PROCESSING"}, node[n].g \in GrantId, Insert(node[n].g, NewRow(n, status)),
                 \A m \in Node : node'[m] = node[m] \/ node'[m].at # "finish"
          PROVE  BackedInv'
      <4>1. NewRow(n, status) \in GrantRow /\ NewRow(n, status).status # "COMPLETED"
        BY <2>1, NewRowType DEF GrantStatus, NewRow
      <4>2. /\ DOMAIN grants' = DOMAIN grants \cup {node[n].g}
            /\ grants'[node[n].g] = NewRow(n, status) /\ \A x \in DOMAIN grants : x # node[n].g => grants'[x] = grants[x]
        BY <2>1, <3>3, <4>1, InsertType
      <4>3. QED
        BY <3>3, <4>1, <4>2, BackedKept
    <3>4. node[n].at \in {"insert", "insert_skipped"} => node[n].g \in GrantId
      BY DEF TypeInv, SessionOK, OnGrant
    <3>5. CASE InsertSkipped(n)
      BY <2>2, <2>3, <3>3, <3>4, <3>5 DEF InsertSkipped, At
    <3>6. CASE InsertWon(n)
      <4>1. \A m \in Node : node'[m] = node[m] \/ node'[m].at # "finish"
        BY <2>1, <3>6, GotoType DEF InsertWon, Places
      <4>2. QED
        BY <3>3, <3>4, <3>6, <4>1 DEF InsertWon, At
    <3>7. QED
      BY <2>9, <3>1, <3>2, <3>5, <3>6 DEF CycleStep
  <2>10. ASSUME NEW n \in Node, RetryStep(n) PROVE BackedInv'
    <3>1. ASSUME NEW g \in DOMAIN grants, NEW at \in {"deliver", "advance", "drop"}, Take(n, at, g)
          PROVE  \A m \in Node : node'[m] = node[m] \/ node'[m].at # "finish"
      BY <2>1, <3>1, TakeType DEF Places
    <3>2. CASE StartRetry(n)
      <4>1. UNCHANGED grants /\ node'[n].at # "finish" /\ \A m \in Node : m # n => node'[m] = node[m]
        BY <2>1, <3>2 DEF StartRetry, Idle
      <4>2. QED
        BY <2>3, <4>1
    <3>3. ASSUME NEW g \in DOMAIN grants PROVE drop(grants[g]) \in GrantRow /\ drop(grants[g]).status # "COMPLETED"
      <4>1. grants[g] \in GrantRow
        BY <2>1
      <4>2. QED
        BY <4>1, RowTypes DEF drop, GrantRow
    <3>4. CASE RetryDrop(n)
      <4>1. node[n].g \in DOMAIN grants
        BY <3>4, RowOf DEF RetryDrop, At, OnRow
      <4>2. QED
        BY <2>2, <2>5, <3>3, <3>4, <4>1 DEF RetryDrop
    <3>5. ASSUME NEW g \in DOMAIN grants, RetryUnowed(n, g) PROVE BackedInv'
      BY <2>3, <3>1, <3>5 DEF RetryUnowed
    <3>6. ASSUME NEW g \in DOMAIN grants, close_exhausted(n, g) PROVE BackedInv'
      BY <2>2, <2>3, <2>5, <3>1, <3>3, <3>6 DEF close_exhausted
    <3>7. ASSUME NEW g \in DOMAIN grants, claim(n, g) PROVE BackedInv'
      <4> DEFINE new == [grants[g] EXCEPT !.status = "PROCESSING", !.attempts = grants[g].attempts + 1, !.stale = FALSE]
      <4>1. grants[g] \in GrantRow
        BY <2>1
      <4>2. grants[g].attempts + 1 \in Nat
        BY <4>1 DEF GrantRow
      <4>3. new \in GrantRow /\ new.status # "COMPLETED"
        BY <4>1, <4>2 DEF GrantRow, GrantStatus
      <4>4. (Write(g, new) /\ Take(n, "deliver", g)) \/ (Rest(n, g) /\ UNCHANGED grants)
        BY <3>7 DEF claim
      <4> HIDE DEF new
      <4>5. QED
        BY <2>2, <2>3, <2>5, <3>1, <4>3, <4>4
    <3>8. QED
      BY <2>10, <3>2, <3>4, <3>5, <3>6, <3>7 DEF RetryStep
  <2>11. ASSUME NEW n \in Node, DeliverStep(n) \/ DeliverFailed(n) PROVE BackedInv'
    <3> DEFINE row == grants[node[n].g]
    <3>1. node[n].at \in OnRow
      BY <2>11 DEF DeliverStep, DeliverFailed, DeliverDropped, deliver_access, deliver_credit, deliver_product, DeliverFinish, AdvanceGivenUp, At, OnRow
    <3>2. node[n].g \in DOMAIN grants /\ row \in GrantRow
      BY <3>1, RowOf
    <3>3. /\ drop(row) \in GrantRow /\ drop(row).status = "SKIPPED"
          /\ complete(row) \in GrantRow
          /\ [row EXCEPT !.status = "SKIPPED", !.stale = FALSE] \in GrantRow
          /\ [row EXCEPT !.status = "SKIPPED", !.stale = FALSE].status = "SKIPPED"
          /\ [row EXCEPT !.status = "FAILED", !.stale = FALSE] \in GrantRow
          /\ [row EXCEPT !.status = "FAILED", !.stale = FALSE].status = "FAILED"
      <4> HIDE DEF row
      <4>1. QED
        BY <3>2, RowTypes DEF GrantRow, GrantStatus, drop
    <3>4. ASSUME NEW new \in GrantRow, SettleGrant(n, new),
                 new.status # "COMPLETED" \/ Type[node[n].g[1]] = "ACCESS" \/ Settled(node[n].g)
          PROVE  BackedInv'
      BY <3>1, <3>4, SettleBacked DEF SettleGrant
    <3>5. ASSUME Pay(n) PROVE BackedInv'
      <4>1. UNCHANGED grants /\ Goto(n, "finish")
        BY <3>5 DEF Pay
      <4>2. node'[n].g = node[n].g /\ \A m \in Node : m # n => node'[m] = node[m]
        BY <2>1, <4>1, GotoType DEF Places
      <4>3. \E e \in delivered' : e.key = node[n].g
        <5> DEFINE new == [key |-> node[n].g, user |-> sub[SubOf[node[n].g[1]]].user, attempt |-> grants[node[n].g].attempts]
        <5>1. delivered' = delivered \cup {new} /\ new.key = node[n].g
          BY <3>5 DEF Pay
        <5> HIDE DEF new
        <5>2. QED
          BY <5>1
      <4>4. Paid(n)'
        BY <4>2, <4>3 DEF Paid, Settled
      <4>5. QED
        BY <4>1, <4>2, <4>4, BackedKept
    <3>6. CASE DeliverDropped(n)
      BY <3>3, <3>4, <3>6 DEF DeliverDropped
    <3>7. CASE deliver_access(n)
      BY <3>3, <3>4, <3>7 DEF deliver_access
    <3>8. CASE deliver_credit(n)
      BY <3>3, <3>4, <3>5, <3>8 DEF deliver_credit
    <3>9. CASE deliver_product(n)
      BY <3>3, <3>4, <3>5, <3>9 DEF deliver_product
    <3>10. CASE DeliverFinish(n)
      <4>1. Settled(node[n].g)
        BY <3>10 DEF DeliverFinish, At, BackedInv, Paid
      <4>2. QED
        BY <3>3, <3>4, <3>10, <4>1 DEF DeliverFinish
    <3>11. CASE AdvanceGivenUp(n)
      BY <2>2, <2>3, <3>11 DEF AdvanceGivenUp
    <3>12. CASE DeliverFailed(n)
      <4>1. \A m \in Node : node'[m] = node[m] \/ node'[m].at # "finish"
        BY <2>1, <2>2, <3>12, GotoType DEF DeliverFailed, Places
      <4>2. \E new \in GrantRow : Write(node[n].g, new) /\ new.status # "COMPLETED"
        BY <3>3, <3>12 DEF DeliverFailed
      <4>3. QED
        BY <2>5, <3>2, <4>1, <4>2
    <3>13. QED
      BY <2>11, <3>6, <3>7, <3>8, <3>9, <3>10, <3>11, <3>12 DEF DeliverStep
  <2>12. ASSUME NEW g \in DOMAIN grants, Abandon(g) PROVE BackedInv'
    <3>1. grants[g] \in GrantRow
      BY <2>1
    <3>2. [grants[g] EXCEPT !.stale = TRUE] \in GrantRow /\ [grants[g] EXCEPT !.stale = TRUE].status # "COMPLETED"
      BY <2>12, <3>1 DEF Abandon, GrantRow
    <3>3. QED
      BY <2>5, <2>12, <3>2 DEF Abandon
  <2>13. CASE Tick
    BY <2>3, <2>13 DEF Tick
  <2>14. QED
    BY <2>6, <2>7, <2>8, <2>9, <2>10, <2>11, <2>12, <2>13 DEF Next, Run, Work
<1>3. Spec => []TypeInv
  BY TypeInit, TypeStep, PTL DEF Spec
<1>4. BackedInv => CompletedIsBacked
  BY DEF BackedInv
<1>5. QED
  BY <1>1, <1>2, <1>3, <1>4, PTL DEF Spec

-----------------------------------------------------------------------------
(* Access follows the subscription.                                        *)

\* Moving a schedule leaves the state of every benefit.
LEMMA AdvanceStatus ==
  ASSUME NEW b \in Benefit, NEW row, benefit \in [Benefit -> BenefitRow]
  PROVE  \A x \in Benefit : advance(b, row, benefit)[x].status = benefit[x].status
BY DEF advance, BenefitRow

\* A step that leaves the subscriptions and the state of every benefit, and turns on only what is owed, keeps the invariant.
LEMMA AccessKept ==
  ASSUME AccessFollowsSubscription,
         \A b \in Benefit : Eligible(SubOf[b]) => Eligible(SubOf[b])',
         \A b \in Benefit : benefit'[b].status = benefit[b].status,
         \A b \in Benefit : access'[b] = access[b] \/ still_owed(b)
  PROVE  AccessFollowsSubscription'
BY DEF AccessFollowsSubscription, still_owed

\* An activation leaves access only on what the plan promises and the state allows.
LEMMA AccessActivate ==
  ASSUME NEW n \in Node, NEW s \in Sub, NEW status \in SubStatus, NEW plan \in Plan, TypeOK, AccessFollowsSubscription,
         ActivateRow(n, s, status, plan)
  PROVE  AccessFollowsSubscription'
<1> SUFFICES ASSUME NEW b \in Benefit, access'[b] = "ACTIVE" PROVE Eligible(SubOf[b])' /\ benefit'[b].status = "ACTIVE"
  BY DEF AccessFollowsSubscription
<1>1. sub \in [Sub -> SubRow] /\ benefit[b] \in BenefitRow /\ benefit \in [Benefit -> BenefitRow]
  BY DEF TypeOK
<1>2. /\ sub'[s].status = status
      /\ \A x \in Sub : x # s => sub'[x] = sub[x]
  <2> DEFINE new == [sub[s] EXCEPT !.status = status, !.plan = plan]
  <2>1. sub' = [sub EXCEPT ![s] = new]
    BY DEF ActivateRow
  <2>2. new.status = status
    BY <1>1 DEF SubRow
  <2> HIDE DEF new
  <2>3. QED
    BY <1>1, <2>1, <2>2
<1>3. CASE SubOf[b] # s
  <2>1. access'[b] = access[b] /\ benefit'[b] = benefit[b]
    BY <1>3 DEF ActivateRow, snapshot_benefits, reconcile_entitlements
  <2>2. sub'[SubOf[b]] = sub[SubOf[b]]
    BY <1>2, <1>3
  <2>3. QED
    BY <2>1, <2>2 DEF AccessFollowsSubscription, Eligible
<1>4. CASE SubOf[b] = s
  <2>1. CASE status \notin {"ACTIVE", "TRIALING"}
    BY <1>4, <2>1 DEF ActivateRow
  <2>2. CASE status \in {"ACTIVE", "TRIALING"}
    <3>1. access' = reconcile_entitlements(s, plan) /\ benefit' = snapshot_benefits(s, plan)
      BY <2>2 DEF ActivateRow
    <3>2. b \in Promises[plan]
      BY <1>4, <3>1 DEF reconcile_entitlements
    <3>3. resume(b).status = "ACTIVE"
      BY <1>1 DEF resume, BenefitRow
    <3>4. benefit'[b].status = "ACTIVE"
      BY <1>4, <3>1, <3>2, <3>3 DEF snapshot_benefits
    <3>5. QED
      BY <1>2, <1>4, <2>2, <3>4 DEF Eligible
  <2>3. QED
    BY <2>1, <2>2
<1>5. QED
  BY <1>3, <1>4

\* Ending the benefits of a subscription turns its access off.
LEMMA AccessEnd ==
  ASSUME NEW s \in Sub, TypeOK, AccessFollowsSubscription, end_benefits(s), \A x \in Sub : x # s => sub'[x] = sub[x]
  PROVE  AccessFollowsSubscription'
<1> SUFFICES ASSUME NEW b \in Benefit, access'[b] = "ACTIVE" PROVE Eligible(SubOf[b])' /\ benefit'[b].status = "ACTIVE"
  BY DEF AccessFollowsSubscription
<1>1. SubOf[b] # s
  BY DEF end_benefits
<1>2. access'[b] = access[b] /\ benefit'[b] = benefit[b] /\ sub'[SubOf[b]] = sub[SubOf[b]]
  BY <1>1 DEF end_benefits
<1>3. QED
  BY <1>2 DEF AccessFollowsSubscription, Eligible

\* A new cycle changes neither who is eligible nor what runs.
LEMMA AccessRelease ==
  ASSUME NEW n \in Node, NEW s \in Sub, NEW plan \in Plan, TypeOK, AccessFollowsSubscription, release_cycle(n, s, plan)
  PROVE  AccessFollowsSubscription'
<1>1. sub \in [Sub -> SubRow] /\ benefit \in [Benefit -> BenefitRow]
  BY DEF TypeOK
<1>2. \A x \in Sub : sub'[x].status = sub[x].status
  BY <1>1 DEF release_cycle, SubRow
<1>3. ASSUME NEW b \in Benefit PROVE benefit'[b].status = benefit[b].status
  <2>1. benefit[b] \in BenefitRow
    BY <1>1
  <2>2. [benefit[b] EXCEPT !.cycle = benefit[b].cycle + 1, !.last = None].status = benefit[b].status
    BY <2>1 DEF BenefitRow
  <2>3. benefit'[b] \in {benefit[b], [benefit[b] EXCEPT !.cycle = benefit[b].cycle + 1, !.last = None]}
    BY DEF release_cycle
  <2>4. QED
    BY <2>2, <2>3
<1>4. UNCHANGED access
  BY DEF release_cycle
<1>5. QED
  BY <1>2, <1>3, <1>4, AccessKept DEF Eligible

\* Access is on only under an eligible subscription that still runs the benefit, whatever delivery lands after a pause, an expiry, a transfer or a move to another plan.
THEOREM AccessIsEarned == Spec => []AccessFollowsSubscription
<1>1. Init => AccessFollowsSubscription
  BY DEF Init, AccessFollowsSubscription
<1>2. TypeInv /\ AccessFollowsSubscription /\ [Next]_vars => AccessFollowsSubscription'
  <2> SUFFICES ASSUME TypeInv, AccessFollowsSubscription, [Next]_vars PROVE AccessFollowsSubscription'
    OBVIOUS
  <2>1. TypeOK /\ sub \in [Sub -> SubRow] /\ benefit \in [Benefit -> BenefitRow] /\ access \in [Benefit -> {"ABSENT", "ACTIVE", "EXPIRED"}]
    BY DEF TypeInv, TypeOK
  <2>2. ASSUME UNCHANGED <<sub, benefit, access>> PROVE AccessFollowsSubscription'
    BY <2>2 DEF AccessFollowsSubscription, Eligible
  <2>3. ASSUME NEW b \in Benefit, NEW row, benefit' = advance(b, row, benefit), UNCHANGED sub, UNCHANGED access \/ (still_owed(b) /\ access' = [access EXCEPT ![b] = "ACTIVE"])
        PROVE  AccessFollowsSubscription'
    <3>1. \A x \in Benefit : benefit'[x].status = benefit[x].status
      BY <2>1, <2>3, AdvanceStatus
    <3>2. \A x \in Benefit : access'[x] = access[x] \/ still_owed(x)
      BY <2>1, <2>3
    <3>3. QED
      BY <2>3, <3>1, <3>2, AccessKept DEF Eligible
  <2>4. CASE UNCHANGED vars
    BY <2>2, <2>4 DEF vars
  <2>5. CASE Ask
    <3>1. ASSUME NEW s \in Sub, Close(s) PROVE AccessFollowsSubscription'
      BY <2>1, <3>1, AccessEnd DEF Close
    <3>2. ASSUME NEW s \in Sub, NEW n \in Node, NEW status \in SubStatus, NEW plan \in Plan, Activate(n, s, status, plan) PROVE AccessFollowsSubscription'
      BY <2>1, <3>2, AccessActivate DEF Activate
    <3>3. ASSUME NEW s \in Sub, NEW n \in Node, NEW plan \in Plan, OpenNewCycle(n, s, plan) PROVE AccessFollowsSubscription'
      BY <2>1, <3>3, AccessRelease DEF OpenNewCycle
    <3>4. ASSUME NEW s \in Sub, NEW n \in Node, NEW u \in User, NEW status \in SubStatus, HandOver(n, s, u, status) PROVE AccessFollowsSubscription'
      BY <2>1, <3>4, AccessEnd DEF HandOver
    <3>5. QED
      BY <2>5, <3>1, <3>2, <3>3, <3>4 DEF Ask, Call
  <2>6. CASE Die
    BY <2>2, <2>6 DEF Die, Crash
  <2>7. ASSUME NEW n \in Node, DueStep(n) PROVE AccessFollowsSubscription'
    <3>1. CASE DueSkip(n)
      <4>1. \A x \in Benefit : benefit'[x].status = benefit[x].status
        BY <2>1, <3>1 DEF DueSkip, BenefitRow
      <4>2. UNCHANGED <<sub, access>>
        BY <3>1 DEF DueSkip
      <4>3. QED
        BY <4>1, <4>2, AccessKept DEF Eligible
    <3>2. CASE ~DueSkip(n)
      BY <2>2, <2>7, <3>2 DEF DueStep, StartDue, DueNext
    <3>3. QED
      BY <3>1, <3>2
  <2>8. ASSUME NEW n \in Node, RetryStep(n) PROVE AccessFollowsSubscription'
    BY <2>2, <2>8 DEF RetryStep, StartRetry, RetryDrop, RetryUnowed, close_exhausted, claim
  <2>9. ASSUME NEW n \in Node, CycleStep(n) PROVE AccessFollowsSubscription'
    <3>1. node[n].g[1] \in Benefit
      BY <2>9 DEF CycleStep, CycleMet, CycleRead, InsertSkipped, InsertWon, InsertLost, At, OnGrant, TypeInv, SessionOK, GrantId
    <3>2. CASE CycleMet(n) \/ InsertSkipped(n)
      BY <2>3, <3>1, <3>2 DEF CycleMet, InsertSkipped
    <3>3. CASE CycleRead(n) \/ InsertWon(n) \/ InsertLost(n)
      BY <2>2, <3>3 DEF CycleRead, InsertWon, InsertLost
    <3>4. QED
      BY <2>9, <3>2, <3>3 DEF CycleStep
  <2>10. ASSUME NEW n \in Node, DeliverStep(n) \/ DeliverFailed(n) PROVE AccessFollowsSubscription'
    <3>1. node[n].at \in OnRow
      BY <2>10 DEF DeliverStep, DeliverFailed, DeliverDropped, deliver_access, deliver_credit, deliver_product, DeliverFinish, AdvanceGivenUp, At, OnRow
    <3>2. node[n].g[1] \in Benefit
      BY <3>1, RowOf
    <3>3. CASE deliver_access(n)
      BY <2>3, <3>2, <3>3 DEF deliver_access, SettleGrant, Deliverable
    <3>4. CASE DeliverDropped(n) \/ DeliverFinish(n) \/ AdvanceGivenUp(n)
      BY <2>3, <3>2, <3>4 DEF DeliverDropped, DeliverFinish, AdvanceGivenUp, SettleGrant
    <3>5. CASE deliver_credit(n)
      BY <2>2, <2>3, <3>2, <3>5 DEF deliver_credit, SettleGrant, Pay
    <3>6. CASE deliver_product(n)
      BY <2>2, <2>3, <3>2, <3>6 DEF deliver_product, SettleGrant, Pay
    <3>7. CASE DeliverFailed(n)
      BY <2>2, <3>7 DEF DeliverFailed
    <3>8. QED
      BY <2>10, <3>3, <3>4, <3>5, <3>6, <3>7 DEF DeliverStep
  <2>11. ASSUME NEW n \in Node, RenewStep(n) PROVE AccessFollowsSubscription'
    <3>1. CASE HandOverRelease(n) \/ RenewActivate(n)
      <4>1. node[n].sub \in Sub
        BY <3>1 DEF TypeInv, SessionOK, HandOverRelease, RenewActivate, At
      <4>2. sub[node[n].sub].plan \in Plan /\ sub[node[n].sub].status \in SubStatus
        BY <2>1, <4>1 DEF SubRow
      <4>3. QED
        BY <2>1, <3>1, <4>1, <4>2, AccessRelease, AccessActivate DEF HandOverRelease, RenewActivate
    <3>2. CASE \E b \in Benefit : ActivateNext(n, b)
      BY <2>2, <3>2 DEF ActivateNext
    <3>3. QED
      BY <2>11, <3>1, <3>2 DEF RenewStep
  <2>12. CASE (\E g \in DOMAIN grants : Abandon(g)) \/ Tick
    BY <2>2, <2>12 DEF Abandon, Tick
  <2>13. QED
    BY <2>4, <2>5, <2>6, <2>7, <2>8, <2>9, <2>10, <2>11, <2>12 DEF Next, Run, Work
<1>3. Spec => []TypeInv
  BY TypeInit, TypeStep, PTL DEF Spec
<1>4. QED
  BY <1>1, <1>2, <1>3, PTL DEF Spec
-----------------------------------------------------------------------------
(* One session works a grant at a time, and no grant is left without a try.*)
(* Both need that no session outlives ABANDONED_AFTER, which is what makes *)
(* a grant left processing safe to take.  Neither is inductive: the row of *)
(* a grant somebody works must be one no claim takes, and the first try of *)
(* a grant must still be its first when it fails.                          *)

AtWork(n) == node[n].at \in {"deliver", "finish"}

\* No pass takes the row: it neither failed nor grew old.
Safe(row) == row.status # "FAILED" /\ ~row.stale

Holding(n) ==
  AtWork(n) =>
    /\ Safe(grants[node[n].g])
    /\ (node[n].at = "deliver" /\ node[n].op # "retry") => grants[node[n].g].attempts < MAX_ATTEMPTS

WorkInv == OneWorkerPerGrant /\ NoGrantStranded /\ \A n \in Node : Holding(n)

\* A step in which nobody takes up a grant keeps the claim, when each row it writes is safe with the tries it had or nobody's any more.
LEMMA WorkKept ==
  ASSUME TypeInv, WorkInv, DOMAIN grants \subseteq DOMAIN grants',
         \A m \in Node : \/ node'[m] = node[m]
                         \/ ~AtWork(m)'
                         \/ AtWork(m) /\ node'[m].at = "finish" /\ node'[m].g = node[m].g,
         \A g \in DOMAIN grants' : \/ g \in DOMAIN grants /\ grants'[g] = grants[g]
                                   \/ g \in DOMAIN grants /\ Safe(grants'[g]) /\ grants'[g].attempts = grants[g].attempts
                                   \/ /\ \A m \in Node : ~Working(m, g)'
                                      /\ grants'[g].status = "FAILED" => grants'[g].attempts < MAX_ATTEMPTS
  PROVE  WorkInv'
<1>1. \A m \in Node : AtWork(m)' => AtWork(m) /\ node'[m].g = node[m].g /\ (node'[m].at = "deliver" => node'[m] = node[m])
  BY DEF AtWork
<1>2. \A m \in Node : AtWork(m) => node[m].g \in DOMAIN grants
  BY DEF TypeInv, SessionOK, OnRow, AtWork
<1>3. OneWorkerPerGrant'
  <2> SUFFICES ASSUME NEW m \in Node, NEW n \in Node, NEW g \in DOMAIN grants', Working(m, g)', Working(n, g)' PROVE m = n
    BY DEF OneWorkerPerGrant
  <2>1. Working(m, g) /\ Working(n, g) /\ g \in DOMAIN grants
    BY <1>1, <1>2 DEF Working, AtWork
  <2>2. QED
    BY <2>1 DEF WorkInv, OneWorkerPerGrant
<1>4. NoGrantStranded'
  <2> SUFFICES ASSUME NEW g \in DOMAIN grants', grants'[g].status = "FAILED" PROVE grants'[g].attempts < MAX_ATTEMPTS
    BY DEF NoGrantStranded
  <2>1. QED
    BY DEF WorkInv, NoGrantStranded, Safe
<1>5. ASSUME NEW m \in Node PROVE Holding(m)'
  <2> SUFFICES ASSUME AtWork(m)'
               PROVE  /\ Safe(grants'[node'[m].g])
                      /\ (node'[m].at = "deliver" /\ node'[m].op # "retry") => grants'[node'[m].g].attempts < MAX_ATTEMPTS
    BY DEF Holding, Safe
  <2>1. AtWork(m) /\ node'[m].g = node[m].g /\ node[m].g \in DOMAIN grants /\ (node'[m].at = "deliver" => node'[m] = node[m])
    BY <1>1, <1>2
  <2>2. Holding(m) /\ Working(m, node[m].g)'
    BY <2>1 DEF WorkInv, Working, AtWork
  <2>3. \/ grants'[node[m].g] = grants[node[m].g]
        \/ Safe(grants'[node[m].g]) /\ grants'[node[m].g].attempts = grants[node[m].g].attempts
    BY <2>1, <2>2
  <2>4. QED
    BY <2>1, <2>2, <2>3 DEF Holding
<1>6. QED
  BY <1>3, <1>4, <1>5 DEF WorkInv

\* A session that takes up a grant takes one nobody works, and makes its row safe.
LEMMA WorkTaken ==
  ASSUME TypeInv, WorkInv, NEW n \in Node, NEW g, \A m \in Node : m # n => node'[m] = node[m] /\ ~Working(m, g),
         node'[n].at = "deliver", node'[n].g = g, DOMAIN grants' = DOMAIN grants \cup {g},
         \A x \in DOMAIN grants : x # g => grants'[x] = grants[x],
         Safe(grants'[g]), node'[n].op # "retry" => grants'[g].attempts < MAX_ATTEMPTS
  PROVE  WorkInv'
<1>1. \A m \in Node : AtWork(m) => node[m].g \in DOMAIN grants
  BY DEF TypeInv, SessionOK, OnRow, AtWork
<1>2. OneWorkerPerGrant'
  <2> SUFFICES ASSUME NEW m \in Node, NEW o \in Node, NEW x \in DOMAIN grants', Working(m, x)', Working(o, x)', m # n PROVE m = o
    BY DEF OneWorkerPerGrant
  <2>1. Working(m, x) /\ x \in DOMAIN grants /\ x # g
    BY <1>1 DEF Working, AtWork
  <2>2. o # n /\ Working(o, x)
    BY <2>1 DEF Working
  <2>3. QED
    BY <2>1, <2>2 DEF WorkInv, OneWorkerPerGrant
<1>3. NoGrantStranded'
  <2> SUFFICES ASSUME NEW x \in DOMAIN grants', grants'[x].status = "FAILED" PROVE grants'[x].attempts < MAX_ATTEMPTS
    BY DEF NoGrantStranded
  <2>1. x # g /\ x \in DOMAIN grants /\ grants'[x] = grants[x]
    BY DEF Safe
  <2>2. QED
    BY <2>1 DEF WorkInv, NoGrantStranded
<1>4. ASSUME NEW m \in Node PROVE Holding(m)'
  <2>1. CASE m = n
    BY <2>1 DEF Holding, Safe
  <2>2. CASE m # n /\ AtWork(m)
    <3>1. node[m].g # g /\ node[m].g \in DOMAIN grants /\ Holding(m) /\ node'[m] = node[m]
      BY <1>1, <2>2 DEF Working, AtWork, WorkInv
    <3>2. grants'[node[m].g] = grants[node[m].g]
      BY <3>1
    <3>3. QED
      BY <3>1, <3>2 DEF Holding, Safe, AtWork
  <2>3. CASE m # n /\ ~AtWork(m)
    BY <2>3 DEF Holding, AtWork
  <2>4. QED
    BY <2>1, <2>2, <2>3
<1>5. QED
  BY <1>2, <1>3, <1>4 DEF WorkInv

\* A step of a session that leaves the table of grants takes up no grant, unless it wins one.
LEMMA WorkStill ==
  ASSUME TypeInv, WorkInv, UNCHANGED grants, \A m \in Node : node'[m] = node[m] \/ ~AtWork(m)'
  PROVE  WorkInv'
BY WorkKept

\* Nobody but the session that works a grant is in the way of its row.
LEMMA WorkSettled ==
  ASSUME TypeInv, WorkInv, NEW n \in Node, NEW g \in DOMAIN grants, NEW row \in GrantRow, Write(g, row),
         \A m \in Node : node'[m] = node[m] \/ ~AtWork(m)',
         \/ Safe(row) /\ row.attempts = grants[g].attempts
         \/ Working(n, g) /\ ~AtWork(n)' /\ row.attempts < MAX_ATTEMPTS
  PROVE  WorkInv'
<1>1. grants \in [DOMAIN grants -> GrantRow]
  BY DEF TypeInv, TypeOK
<1>2. DOMAIN grants' = DOMAIN grants /\ grants'[g] = row /\ \A x \in DOMAIN grants : x # g => grants'[x] = grants[x]
  BY <1>1, WriteType
<1>3. CASE Safe(row) /\ row.attempts = grants[g].attempts
  BY <1>2, <1>3, WorkKept
<1>4. CASE Working(n, g) /\ ~AtWork(n)' /\ row.attempts < MAX_ATTEMPTS
  <2>1. \A m \in Node : ~Working(m, g)'
    BY <1>4 DEF Working, AtWork, WorkInv, OneWorkerPerGrant
  <2>2. QED
    BY <1>2, <1>4, <2>1, WorkKept
<1>5. QED
  BY <1>3, <1>4

\* The rows that settle or close a grant are safe, with the tries it had.
LEMMA SettledRows ==
  ASSUME NEW row \in GrantRow
  PROVE  /\ drop(row) \in GrantRow /\ Safe(drop(row)) /\ drop(row).attempts = row.attempts
         /\ complete(row) \in GrantRow /\ Safe(complete(row)) /\ complete(row).attempts = row.attempts
         /\ [row EXCEPT !.status = "SKIPPED", !.stale = FALSE] \in GrantRow
         /\ Safe([row EXCEPT !.status = "SKIPPED", !.stale = FALSE])
         /\ [row EXCEPT !.status = "SKIPPED", !.stale = FALSE].attempts = row.attempts
         /\ [row EXCEPT !.status = "FAILED", !.stale = FALSE] \in GrantRow
         /\ [row EXCEPT !.status = "FAILED", !.stale = FALSE].attempts = row.attempts
<1>1. drop(row) \in GrantRow /\ complete(row) \in GrantRow
  BY RowTypes
<1>2. /\ Safe(drop(row)) /\ drop(row).attempts = row.attempts
      /\ Safe(complete(row)) /\ complete(row).attempts = row.attempts
  BY DEF drop, complete, Safe, GrantRow
<1>3. /\ [row EXCEPT !.status = "SKIPPED", !.stale = FALSE] \in GrantRow
      /\ Safe([row EXCEPT !.status = "SKIPPED", !.stale = FALSE])
      /\ [row EXCEPT !.status = "SKIPPED", !.stale = FALSE].attempts = row.attempts
      /\ [row EXCEPT !.status = "FAILED", !.stale = FALSE] \in GrantRow
      /\ [row EXCEPT !.status = "FAILED", !.stale = FALSE].attempts = row.attempts
  BY DEF Safe, GrantRow, GrantStatus
<1>4. QED
  BY <1>1, <1>2, <1>3

\* What is asked from outside, and a node that dies, take up no grant.
LEMMA WorkAsked ==
  ASSUME TypeInv, WorkInv, Ask \/ Die
  PROVE  WorkInv'
<1>1. node \in [Node -> Session]
  BY DEF TypeInv, TypeOK
<1>2. CASE Die
  <2>1. UNCHANGED grants /\ \E n \in Node : node' = [node EXCEPT ![n] = Idle]
    BY <1>2 DEF Die, Crash
  <2>2. QED
    BY <1>1, <2>1, WorkStill DEF AtWork, Idle
<1>3. ASSUME NEW s \in Sub, Close(s) PROVE WorkInv'
  BY <1>3, WorkStill DEF Close
<1>4. ASSUME NEW n \in Node, NEW s \in Sub, Call(n, s) PROVE WorkInv'
  <2>1. UNCHANGED grants
    BY <1>4 DEF Call, Activate, ActivateRow, OpenNewCycle, release_cycle, HandOver
  <2>2. \E r : r.at \notin {"deliver", "finish"} /\ node' = [node EXCEPT ![n] = r]
    BY <1>4 DEF Call, Activate, ActivateRow, OpenNewCycle, release_cycle, HandOver, Idle
  <2>3. QED
    BY <1>1, <2>1, <2>2, WorkStill DEF AtWork
<1>5. QED
  BY <1>2, <1>3, <1>4 DEF Ask

\* Neither do the passes that choose what to do.
LEMMA WorkChosen ==
  ASSUME TypeInv, WorkInv, NEW n \in Node, DueStep(n) \/ RenewStep(n)
  PROVE  WorkInv'
<1>1. node \in [Node -> Session] /\ UNCHANGED grants
  BY DEF TypeInv, TypeOK, DueStep, StartDue, DueNext, DueSkip, RenewStep, HandOverRelease, RenewActivate, release_cycle, ActivateRow, ActivateNext
<1>2. CASE DueSkip(n)
  BY <1>1, <1>2, RestType, WorkStill DEF DueSkip, AtWork
<1>3. ASSUME NEW at \in {"skip", "cycle"}, NEW g, NEW slot, NEW cycle, TakeCycle(n, at, g, slot, cycle) PROVE WorkInv'
  <2>1. node'[n].at = at /\ \A m \in Node : m # n => node'[m] = node[m]
    BY <1>1, <1>3 DEF TakeCycle, Session
  <2>2. QED
    BY <1>1, <2>1, WorkStill DEF AtWork
<1>4. ASSUME NEW b \in Benefit, DueNext(n, b) \/ ActivateNext(n, b) PROVE WorkInv'
  <2>1. CASE node' = [node EXCEPT ![n] = Idle]
    BY <1>1, <2>1, WorkStill DEF AtWork, Idle
  <2>2. CASE node' # [node EXCEPT ![n] = Idle]
    BY <1>3, <1>4, <2>2 DEF DueNext, ActivateNext
  <2>3. QED
    BY <2>1, <2>2
<1>5. CASE StartDue(n) \/ HandOverRelease(n) \/ RenewActivate(n)
  <2>1. \E r : r.at \notin {"deliver", "finish"} /\ node' = [node EXCEPT ![n] = r]
    BY <1>5 DEF StartDue, HandOverRelease, RenewActivate, release_cycle, ActivateRow, Idle
  <2>2. QED
    BY <1>1, <2>1, WorkStill DEF AtWork
<1>6. QED
  BY <1>2, <1>4, <1>5 DEF DueStep, RenewStep

\* A cycle is taken up by the session that wrote its row.
LEMMA WorkCycle ==
  ASSUME TypeInv, WorkInv, NEW n \in Node, CycleStep(n)
  PROVE  WorkInv'
<1>1. node \in [Node -> Session] /\ grants \in [DOMAIN grants -> GrantRow]
  BY DEF TypeInv, TypeOK
<1>2. node[n].at \in {"insert", "insert_skipped"} => node[n].g \in GrantId
  BY DEF TypeInv, SessionOK, OnGrant
<1>3. \A m \in Node : AtWork(m) => node[m].g \in DOMAIN grants
  BY DEF TypeInv, SessionOK, OnRow, AtWork
<1>4. CASE CycleMet(n) \/ InsertLost(n)
  BY <1>1, <1>4, RestType, WorkStill DEF CycleMet, InsertLost, AtWork
<1>5. CASE CycleRead(n)
  <2>1. UNCHANGED grants /\ node'[n].at \in {"insert", "insert_skipped"} /\ \A m \in Node : m # n => node'[m] = node[m]
    BY <1>1, <1>5 DEF CycleRead, Session
  <2>2. QED
    BY <2>1, WorkStill DEF AtWork
<1>6. CASE InsertSkipped(n)
  <2>1. \A m \in Node : node'[m] = node[m] \/ ~AtWork(m)'
    BY <1>1, <1>6, RestType DEF InsertSkipped, AtWork
  <2>2. CASE UNCHANGED grants
    BY <2>1, <2>2, WorkStill
  <2>3. CASE node[n].g \notin DOMAIN grants /\ Insert(node[n].g, NewRow(n, "SKIPPED"))
    <3>1. PICK g \in GrantId : g = node[n].g
      BY <1>2, <1>6 DEF InsertSkipped, At
    <3>2. NewRow(n, "SKIPPED") \in GrantRow /\ NewRow(n, "SKIPPED").status # "FAILED"
      BY <1>1, NewRowType DEF GrantStatus, NewRow
    <3>3. /\ DOMAIN grants' = DOMAIN grants \cup {g}
          /\ grants'[g] = NewRow(n, "SKIPPED") /\ \A x \in DOMAIN grants : x # g => grants'[x] = grants[x]
      BY <1>1, <2>3, <3>1, <3>2, InsertType
    <3>4. \A m \in Node : ~Working(m, g)'
      BY <1>3, <2>1, <2>3, <3>1 DEF Working, AtWork
    <3>5. QED
      BY <2>1, <3>2, <3>3, <3>4, WorkKept
  <2>4. QED
    BY <1>6, <2>2, <2>3 DEF InsertSkipped
<1>7. CASE InsertWon(n)
  <2> DEFINE g == node[n].g
  <2>1. g \notin DOMAIN grants /\ g \in GrantId
    BY <1>2, <1>7 DEF InsertWon, Taken, At
  <2>2. NewRow(n, "PROCESSING") \in GrantRow
    BY <1>1, NewRowType DEF GrantStatus
  <2>3. Safe(NewRow(n, "PROCESSING")) /\ NewRow(n, "PROCESSING").attempts < MAX_ATTEMPTS
    BY DEF NewRow, Safe
  <2>4. /\ DOMAIN grants' = DOMAIN grants \cup {g}
        /\ grants'[g] = NewRow(n, "PROCESSING") /\ \A x \in DOMAIN grants : x # g => grants'[x] = grants[x]
    BY <1>1, <1>7, <2>1, <2>2, InsertType DEF InsertWon
  <2>5. node'[n].at = "deliver" /\ node'[n].g = g /\ \A m \in Node : m # n => node'[m] = node[m]
    BY <1>1, <1>7, GotoType DEF InsertWon, Places
  <2>6. \A m \in Node : ~Working(m, g)
    BY <1>3, <2>1 DEF Working, AtWork
  <2>7. Safe(grants'[g]) /\ grants'[g].attempts < MAX_ATTEMPTS
    BY <2>3, <2>4 DEF Safe
  <2> HIDE DEF g
  <2>8. QED
    BY <2>4, <2>5, <2>6, <2>7, WorkTaken
<1>8. QED
  BY <1>4, <1>5, <1>6, <1>7 DEF CycleStep

\* A retry takes a grant that failed or grew old, which nobody works.
LEMMA WorkRetried ==
  ASSUME TypeInv, WorkInv, NEW n \in Node, RetryStep(n)
  PROVE  WorkInv'
<1>1. node \in [Node -> Session] /\ grants \in [DOMAIN grants -> GrantRow] /\ DOMAIN grants \subseteq GrantId
  BY DEF TypeInv, TypeOK
<1>2. ASSUME NEW item, Rest(n, item) PROVE \A m \in Node : node'[m] = node[m] \/ ~AtWork(m)'
  BY <1>1, <1>2, RestType DEF AtWork
<1>3. ASSUME NEW g \in DOMAIN grants, NEW at \in {"advance", "drop"}, Take(n, at, g) PROVE \A m \in Node : node'[m] = node[m] \/ ~AtWork(m)'
  BY <1>1, <1>3, TakeType DEF AtWork, Places
<1>4. CASE StartRetry(n)
  <2>1. \E r : r.at \notin {"deliver", "finish"} /\ node' = [node EXCEPT ![n] = r]
    BY <1>4 DEF StartRetry, Idle
  <2>2. QED
    BY <1>1, <1>4, <2>1, WorkStill DEF AtWork, StartRetry
<1>5. CASE RetryDrop(n)
  <2>1. PICK g \in DOMAIN grants : g = node[n].g
    BY <1>5, RowOf DEF RetryDrop, At, OnRow
  <2>2. PICK row : row = drop(grants[g])
    OBVIOUS
  <2>3. row \in GrantRow /\ Safe(row) /\ row.attempts = grants[g].attempts
    BY <1>1, <2>2, SettledRows
  <2>4. Write(g, row) /\ \A m \in Node : node'[m] = node[m] \/ ~AtWork(m)'
    BY <1>2, <1>5, <2>1, <2>2 DEF RetryDrop
  <2>5. QED
    BY <2>3, <2>4, WorkSettled
<1>6. ASSUME NEW g \in DOMAIN grants, RetryUnowed(n, g) PROVE WorkInv'
  BY <1>3, <1>6, WorkStill DEF RetryUnowed
<1>7. ASSUME NEW g \in DOMAIN grants, close_exhausted(n, g) PROVE WorkInv'
  <2>1. CASE Write(g, drop(grants[g])) /\ Take(n, "advance", g)
    <3>1. PICK row : row = drop(grants[g])
      OBVIOUS
    <3>2. row \in GrantRow /\ Safe(row) /\ row.attempts = grants[g].attempts
      BY <1>1, <3>1, SettledRows
    <3>3. Write(g, row) /\ \A m \in Node : node'[m] = node[m] \/ ~AtWork(m)'
      BY <1>3, <2>1, <3>1
    <3>4. QED
      BY <3>2, <3>3, WorkSettled
  <2>2. CASE Rest(n, g) /\ UNCHANGED grants
    BY <1>2, <2>2, WorkStill
  <2>3. QED
    BY <1>7, <2>1, <2>2 DEF close_exhausted
<1>8. ASSUME NEW g \in DOMAIN grants, claim(n, g) PROVE WorkInv'
  <2> DEFINE new == [grants[g] EXCEPT !.status = "PROCESSING", !.attempts = grants[g].attempts + 1, !.stale = FALSE]
  <2>1. CASE Rest(n, g) /\ UNCHANGED grants
    BY <1>2, <2>1, WorkStill
  <2>2. CASE takeable(grants[g]) /\ Write(g, new) /\ Take(n, "deliver", g)
    <3>1. grants[g] \in GrantRow /\ grants[g].attempts + 1 \in Nat
      BY <1>1 DEF GrantRow
    <3>2. new \in GrantRow /\ Safe(new)
      BY <3>1 DEF GrantRow, GrantStatus, Safe
    <3> HIDE DEF new
    <3>3. /\ DOMAIN grants' = DOMAIN grants \cup {g} /\ grants'[g] = new /\ \A x \in DOMAIN grants : x # g => grants'[x] = grants[x]
      BY <1>1, <2>2, <3>2, WriteType
    <3>4. node'[n].at = "deliver" /\ node'[n].g = g /\ \A m \in Node : m # n => node'[m] = node[m]
      BY <1>1, <2>2, TakeType DEF Places
    <3>5. node'[n].op = "retry"
      BY <1>1, <1>8, <2>2 DEF claim, OnItem, Take, Session
    <3>6. \A m \in Node : ~Working(m, g)
      BY <2>2 DEF takeable, WorkInv, Holding, Safe, AtWork, Working
    <3>7. Safe(grants'[g])
      BY <3>2, <3>3 DEF Safe
    <3>8. QED
      BY <3>3, <3>4, <3>5, <3>6, <3>7, WorkTaken
  <2>3. QED
    BY <1>8, <2>1, <2>2 DEF claim
<1>9. QED
  BY <1>4, <1>5, <1>6, <1>7, <1>8 DEF RetryStep

\* A delivery settles its own grant, or gives it back with a try left.
LEMMA WorkDelivered ==
  ASSUME TypeInv, WorkInv, NEW n \in Node, DeliverStep(n) \/ DeliverFailed(n)
  PROVE  WorkInv'
<1>1. node \in [Node -> Session] /\ grants \in [DOMAIN grants -> GrantRow] /\ node[n].at \in OnRow
  BY DEF TypeInv, TypeOK, DeliverStep, DeliverFailed, DeliverDropped, deliver_access, deliver_credit, deliver_product, DeliverFinish, AdvanceGivenUp, At, OnRow
<1>2. PICK g \in DOMAIN grants : g = node[n].g
  BY <1>1, RowOf
<1>3. PICK row \in GrantRow : row = grants[g]
  BY <1>1
<1>4. ASSUME NEW item, Rest(n, item) PROVE ~AtWork(n)' /\ \A m \in Node : node'[m] = node[m] \/ ~AtWork(m)'
  BY <1>1, <1>4, RestType DEF AtWork
<1>5. ASSUME NEW new \in GrantRow, Safe(new), new.attempts = row.attempts, SettleGrant(n, new) PROVE WorkInv'
  BY <1>2, <1>3, <1>4, <1>5, WorkSettled DEF SettleGrant
<1>6. CASE Pay(n) /\ At(n, "deliver")
  <2>1. UNCHANGED grants /\ node'[n].at = "finish" /\ node'[n].g = node[n].g /\ \A m \in Node : m # n => node'[m] = node[m]
    BY <1>1, <1>6, GotoType DEF Pay, Places
  <2>2. AtWork(n)
    BY <1>6 DEF AtWork, At
  <2>3. QED
    BY <2>1, <2>2, WorkKept
<1>7. CASE \E new \in {drop(row), complete(row), [row EXCEPT !.status = "SKIPPED", !.stale = FALSE]} : SettleGrant(n, new)
  <2>1. PICK new \in {drop(row), complete(row), [row EXCEPT !.status = "SKIPPED", !.stale = FALSE]} : SettleGrant(n, new)
    BY <1>7
  <2>2. new \in GrantRow /\ Safe(new) /\ new.attempts = row.attempts
    BY SettledRows
  <2>3. QED
    BY <1>5, <2>1, <2>2
<1>8. CASE AdvanceGivenUp(n)
  BY <1>4, <1>8, WorkStill DEF AdvanceGivenUp
<1>9. CASE DeliverFailed(n)
  <2>1. CASE Write(g, drop(row)) /\ Goto(n, "advance")
    <3>1. \A m \in Node : node'[m] = node[m] \/ ~AtWork(m)'
      BY <1>1, <2>1, GotoType DEF AtWork, Places
    <3>2. QED
      BY <1>2, <1>3, <2>1, <3>1, SettledRows, WorkSettled
  <2>2. CASE /\ ~(node[n].op = "retry" /\ row.attempts >= MAX_ATTEMPTS)
             /\ Write(g, [row EXCEPT !.status = "FAILED", !.stale = FALSE]) /\ Rest(n, Item(n))
    <3>1. node[n].at = "deliver" /\ Working(n, g)
      BY <1>2, <1>9 DEF DeliverFailed, At, Working
    <3>2. row.attempts \in Nat
      BY <1>3 DEF GrantRow
    <3>3. row.attempts < MAX_ATTEMPTS
      BY <1>2, <1>3, <2>2, <3>1, <3>2 DEF WorkInv, Holding, AtWork
    <3> DEFINE new == [row EXCEPT !.status = "FAILED", !.stale = FALSE]
    <3>4. new \in GrantRow /\ new.attempts = row.attempts /\ Write(g, new)
      BY <2>2, SettledRows
    <3> HIDE DEF new
    <3>5. QED
      BY <1>4, <2>2, <3>1, <3>3, <3>4, WorkSettled
  <2>3. QED
    BY <1>2, <1>3, <1>9, <2>1, <2>2 DEF DeliverFailed
<1>10. QED
  BY <1>2, <1>3, <1>6, <1>7, <1>8, <1>9 DEF DeliverStep, DeliverDropped, deliver_access, deliver_credit, deliver_product, DeliverFinish

\* A grant left processing grows old only when no session is under way.
LEMMA WorkAbandoned ==
  ASSUME TypeInv, WorkInv, ~SlowNodes, NEW g \in DOMAIN grants, Abandon(g)
  PROVE  WorkInv'
<1>1. grants \in [DOMAIN grants -> GrantRow] /\ grants[g] \in GrantRow
  BY DEF TypeInv, TypeOK
<1> DEFINE new == [grants[g] EXCEPT !.stale = TRUE]
<1>2. new \in GrantRow /\ new.status # "FAILED" /\ Write(g, new) /\ UNCHANGED node /\ \A m \in Node : ~AtWork(m)'
  BY <1>1 DEF Abandon, GrantRow, At, AtWork
<1> HIDE DEF new
<1>3. DOMAIN grants' = DOMAIN grants /\ grants'[g] = new /\ \A x \in DOMAIN grants : x # g => grants'[x] = grants[x]
  BY <1>1, <1>2, WriteType
<1>4. \A m \in Node : ~Working(m, g)'
  BY <1>2 DEF Working, AtWork
<1>5. QED
  BY <1>2, <1>3, <1>4, WorkKept

LEMMA WorkStep == ~SlowNodes /\ TypeInv /\ WorkInv /\ [Next]_vars => WorkInv'
<1> SUFFICES ASSUME ~SlowNodes, TypeInv, WorkInv, [Next]_vars PROVE WorkInv'
  OBVIOUS
<1>1. CASE UNCHANGED vars
  BY <1>1, WorkStill DEF vars
<1>2. CASE Tick
  BY <1>2, WorkStill DEF Tick
<1>3. QED
  BY <1>1, <1>2, WorkAsked, WorkChosen, WorkCycle, WorkRetried, WorkDelivered, WorkAbandoned DEF Next, Run, Work

LEMMA WorkBegins == Init => WorkInv
BY DEF Init, WorkInv, OneWorkerPerGrant, NoGrantStranded, Holding, AtWork, Idle

\* Where no session outlives ABANDONED_AFTER, two passes never deliver one grant at a time, whatever overlaps, crashes or is asked of the subscription meanwhile.
THEOREM OneWorkerEach == ~SlowNodes => (Spec => []OneWorkerPerGrant)
<1> SUFFICES ASSUME ~SlowNodes PROVE Spec => []OneWorkerPerGrant
  OBVIOUS
<1>1. TypeInv /\ WorkInv /\ [Next]_vars => WorkInv'
  BY WorkStep
<1>2. WorkInv => OneWorkerPerGrant
  BY DEF WorkInv
<1>3. QED
  BY <1>1, <1>2, WorkBegins, TypeInit, TypeStep, PTL DEF Spec

\* Under the same condition a grant that failed has a try left: the last one is given up on, and close_exhausted reaches what died on its last.
THEOREM NobodyStranded == ~SlowNodes => (Spec => []NoGrantStranded)
<1> SUFFICES ASSUME ~SlowNodes PROVE Spec => []NoGrantStranded
  OBVIOUS
<1>1. TypeInv /\ WorkInv /\ [Next]_vars => WorkInv'
  BY WorkStep
<1>2. WorkInv => NoGrantStranded
  BY DEF WorkInv
<1>3. QED
  BY <1>1, <1>2, WorkBegins, TypeInit, TypeStep, PTL DEF Spec

-----------------------------------------------------------------------------
(* One payment of an account.  A once-per-user benefit is reserved for the *)
(* account before it is delivered, and what was paid keeps the account     *)
(* from a second one after the reservation is gone.  With one session at   *)
(* work nobody frees the reservation of a delivery in flight.              *)

Unfinished(row) == row.status \in {"PROCESSING", "FAILED"}

\* A receipt that changed hands, whose new holder is owed a cycle of their own.
Releasing(s) == \E n \in Node : node[n].at = "release" /\ node[n].sub = s

\* No process dies between the commit of the new holder and the one that opens their cycle.
HandsOverWhole == \A n \in Node : At(n, "release") => (node'[n] = node[n] \/ HandOverRelease(n))

\* A grant is of a cycle its benefit was in.
GrantsBehind == \A g \in DOMAIN grants : benefit[g[1]].status # "ABSENT" /\ grants[g].cycle <= benefit[g[1]].cycle

\* What is reserved and not settled was paid under no other grant, and while its cycle runs it is of the account that holds the subscription.
Reserved(g) ==
  Unfinished(grants[g]) /\ g[1] \in OncePerUser =>
    /\ grants[g].reserved \in User
    /\ \A e \in delivered : (e.user = grants[g].reserved /\ e.key[1] \in OncePerUser) => e.key = g
    /\ (grants[g].cycle = benefit[g[1]].cycle /\ ~Releasing(SubOf[g[1]])) => grants[g].reserved = sub[SubOf[g[1]]].user

OneReservation == \A g, h \in DOMAIN grants : (grants[g].reserved # None /\ grants[g].reserved = grants[h].reserved) => g = h

RowsOnce == GrantsBehind /\ (\A g \in DOMAIN grants : Reserved(g)) /\ OneReservation /\ OncePerUserPaysOnce

\* A pass and an activation go through benefits somebody was promised, in the cycle they are in.
BatchStands(n) ==
  node[n].op \in {"activate", "due"} =>
    \A b \in node[n].todo : b \in Benefit /\ benefit[b].status # "ABSENT" /\ (node[n].op = "activate" => node[n].seen[b] = benefit[b].cycle)

OnCycle == {"skip", "cycle", "insert", "insert_skipped"}

CycleStands(n) == node[n].at \in OnCycle => benefit[node[n].g[1]].status # "ABSENT" /\ node[n].cycle = benefit[node[n].g[1]].cycle

\* What is about to be reserved is for the account that holds the subscription, which was paid nothing.
Reserves(n) ==
  (node[n].at = "insert" /\ node[n].g[1] \in OncePerUser) =>
    /\ node[n].reserved = sub[SubOf[node[n].g[1]]].user
    /\ \A e \in delivered : e.key[1] \in OncePerUser => e.user # node[n].reserved

Delivers(n) == node[n].at \in {"deliver", "finish"} => Unfinished(grants[node[n].g])

SessionOnce(n) == BatchStands(n) /\ CycleStands(n) /\ Reserves(n) /\ Delivers(n)

OnceIInv == RowsOnce /\ \A n \in Node : SessionOnce(n)

-----------------------------------------------------------------------------
(* What leaves the rows as they are told apart.                            *)

\* Nobody's cycle moves on, nobody's receipt changes hands, and no benefit is taken back.
BenefitsStand == \A b \in Benefit : benefit[b].status # "ABSENT" => benefit'[b].cycle = benefit[b].cycle /\ benefit'[b].status # "ABSENT"
HoldersStand == \A s \in Sub : sub'[s].user = sub[s].user

\* A grant is settled or goes on, and only what is settled lets its reservation go.
Follows(new, old) ==
  /\ new.cycle = old.cycle /\ new.reserved \in {None, old.reserved}
  /\ Unfinished(new) => Unfinished(old) /\ new.reserved = old.reserved

GrantsFollow == DOMAIN grants' = DOMAIN grants /\ \A g \in DOMAIN grants : Follows(grants'[g], grants[g])

LEMMA RowsStand ==
  ASSUME TypeInv, RowsOnce, BenefitsStand, HoldersStand, GrantsFollow, UNCHANGED delivered,
         \A s \in Sub : Releasing(s) => Releasing(s)'
  PROVE  RowsOnce'
<1>1. \A g \in DOMAIN grants : g[1] \in Benefit /\ SubOf[g[1]] \in Sub
  BY DEF TypeInv, TypeOK, GrantId
<1>2. \A g \in DOMAIN grants : Follows(grants'[g], grants[g])
  BY DEF GrantsFollow
<1>3. GrantsBehind'
  BY <1>1, <1>2 DEF RowsOnce, GrantsBehind, GrantsFollow, BenefitsStand, Follows
<1>4. ASSUME NEW g \in DOMAIN grants PROVE Reserved(g)'
  <2>1. Follows(grants'[g], grants[g]) /\ Reserved(g) /\ g[1] \in Benefit /\ SubOf[g[1]] \in Sub
    BY <1>1, <1>2 DEF RowsOnce
  <2>0. benefit[g[1]].status # "ABSENT"
    BY DEF RowsOnce, GrantsBehind
  <2>2. benefit'[g[1]].cycle = benefit[g[1]].cycle /\ sub'[SubOf[g[1]]].user = sub[SubOf[g[1]]].user /\ delivered' = delivered
        /\ (Releasing(SubOf[g[1]]) => Releasing(SubOf[g[1]])')
    BY <2>0, <2>1 DEF BenefitsStand, HoldersStand
  <2> QED
    BY <2>1, <2>2 DEF Reserved, Follows
<1>5. OneReservation'
  BY <1>2 DEF RowsOnce, OneReservation, GrantsFollow, Follows
<1>6. OncePerUserPaysOnce'
  BY DEF RowsOnce, OncePerUserPaysOnce
<1> QED
  BY <1>3, <1>4, <1>5, <1>6 DEF RowsOnce, GrantsFollow

\* A step that leaves the table of grants alone.
LEMMA GrantsStay ==
  ASSUME UNCHANGED grants
  PROVE  GrantsFollow
BY DEF GrantsFollow, Follows

\* A write on one row of it.
LEMMA GrantWritten ==
  ASSUME TypeInv, NEW g \in DOMAIN grants, NEW row, Write(g, row), Follows(row, grants[g])
  PROVE  GrantsFollow
<1>1. grants \in [DOMAIN grants -> GrantRow]
  BY DEF TypeInv, TypeOK
<1>2. DOMAIN grants' = DOMAIN grants /\ grants'[g] = row /\ \A x \in DOMAIN grants : x # g => grants'[x] = grants[x]
  BY <1>1 DEF Write
<1>3. \A x \in DOMAIN grants : x # g => Follows(grants'[x], grants[x])
  BY <1>2 DEF Follows
<1> QED
  BY <1>2, <1>3 DEF GrantsFollow

\* What settles a grant, or gives it back, or takes it up again.
LEMMA RowFollows ==
  ASSUME NEW row \in GrantRow
  PROVE  /\ Follows(drop(row), row) /\ Follows(complete(row), row)
         /\ Follows([row EXCEPT !.status = "SKIPPED", !.stale = FALSE], row)
         /\ Unfinished(row) => Follows([row EXCEPT !.status = "FAILED", !.stale = FALSE], row)
BY DEF drop, complete, Follows, Unfinished, GrantRow

\* The schedule moves, and the cycle with it never.
LEMMA AdvanceStands ==
  ASSUME TypeInv, NEW b \in Benefit, NEW row, benefit' = advance(b, row, benefit)
  PROVE  BenefitsStand
<1>1. benefit \in [Benefit -> BenefitRow]
  BY DEF TypeInv, TypeOK
<1> QED
  BY <1>1 DEF advance, BenefitRow, BenefitsStand

-----------------------------------------------------------------------------
(* One session at work.                                                    *)

OneAtWork == \A m, n \in Node : m = n

LEMMA BenefitOf ==
  ASSUME TypeInv, NEW n \in Node, node[n].at \in OnGrant
  PROVE  node[n].g[1] \in Benefit /\ SubOf[node[n].g[1]] \in Sub
BY DEF TypeInv, SessionOK, GrantId

\* The session goes on with its batch, or with none.
LEMMA OnceStands ==
  ASSUME OneAtWork, TypeInv, OnceIInv, NEW n \in Node, node[n].at # "release",
         BenefitsStand, HoldersStand, GrantsFollow, UNCHANGED delivered,
         BatchStands(n)', CycleStands(n)', Reserves(n)', Delivers(n)'
  PROVE  OnceIInv'
<1>1. \A s : ~Releasing(s)
  BY DEF OneAtWork, Releasing
<1>2. RowsOnce'
  BY <1>1, RowsStand DEF OnceIInv
<1> QED
  BY <1>2 DEF OneAtWork, OnceIInv, SessionOnce

\* What is left of a batch is still of benefits somebody was promised.
LEMMA BatchGoesOn ==
  ASSUME NEW n \in Node, BatchStands(n), BenefitsStand,
         node'[n].op \in {node[n].op, "none", "renew", "retry"}, node'[n].todo \subseteq node[n].todo, node'[n].seen = node[n].seen
  PROVE  BatchStands(n)'
BY DEF BatchStands, BenefitsStand

LEMMA SessionRests ==
  ASSUME TypeInv, NEW n \in Node, BatchStands(n), NEW item, Rest(n, item), BenefitsStand
  PROVE  SessionOnce(n)'
<1> DEFINE left == node[n].todo \ {item}
           on == [Idle EXCEPT !.op = node[n].op, !.at = "next", !.todo = left, !.moment = node[n].moment, !.seen = node[n].seen]
<1>1. node \in [Node -> Session]
  BY DEF TypeInv, TypeOK
<1>2. node'[n] \in {Idle, on}
  BY <1>1 DEF Rest
<1>3. on.op = node[n].op /\ on.at = "next" /\ on.todo = left /\ on.seen = node[n].seen
  <2> HIDE DEF left
  <2> QED
    BY DEF Idle
<1>4. Idle.op = "none" /\ Idle.at = "idle"
  BY DEF Idle
<1> HIDE DEF left, on
<1>5. left \subseteq node[n].todo
  BY DEF left
<1>6. BatchStands(n)'
  <2>1. CASE node'[n] = Idle
    BY <1>4, <2>1 DEF BatchStands
  <2>2. CASE node'[n] = on
    BY <1>1, <1>3, <1>5, <2>2, BatchGoesOn
  <2> QED
    BY <1>2, <2>1, <2>2
<1>7. node'[n].at \in {"idle", "next"}
  BY <1>2, <1>3, <1>4
<1>8. CycleStands(n)' /\ Reserves(n)' /\ Delivers(n)'
  BY <1>7 DEF CycleStands, Reserves, Delivers, OnCycle
<1> QED
  BY <1>6, <1>8 DEF SessionOnce

LEMMA OnceRests ==
  ASSUME OneAtWork, TypeInv, OnceIInv, NEW n \in Node, node[n].at # "release", NEW item, Rest(n, item),
         BenefitsStand, HoldersStand, GrantsFollow, UNCHANGED delivered
  PROVE  OnceIInv'
<1>1. SessionOnce(n)'
  BY SessionRests DEF OnceIInv, SessionOnce
<1> QED
  BY <1>1, OnceStands DEF SessionOnce

\* The session takes the next step of what it is on.
LEMMA OnceGoes ==
  ASSUME OneAtWork, TypeInv, OnceIInv, NEW n \in Node, node[n].at # "release",
         node'[n].op = node[n].op, node'[n].todo = node[n].todo, node'[n].seen = node[n].seen,
         CycleStands(n)', Reserves(n)', Delivers(n)',
         BenefitsStand, HoldersStand, GrantsFollow, UNCHANGED delivered
  PROVE  OnceIInv'
<1>1. BatchStands(n)'
  BY BatchGoesOn DEF OnceIInv, SessionOnce
<1> QED
  BY <1>1, OnceStands

\* A session put back to idle.
LEMMA OnceEnds ==
  ASSUME OneAtWork, TypeInv, OnceIInv, NEW n \in Node, node[n].at # "release", node' = [node EXCEPT ![n] = Idle],
         BenefitsStand, HoldersStand, GrantsFollow, UNCHANGED delivered
  PROVE  OnceIInv'
<1>1. node'[n] = Idle
  BY DEF TypeInv, TypeOK
<1>2. BatchStands(n)' /\ CycleStands(n)' /\ Reserves(n)' /\ Delivers(n)'
  BY <1>1 DEF Idle, BatchStands, CycleStands, Reserves, Delivers, OnCycle
<1> QED
  BY <1>2, OnceStands

\* Where no session moves: a closing, the clock, a grant grown old.
LEMMA OnceWaits ==
  ASSUME OneAtWork, TypeInv, OnceIInv, UNCHANGED <<node, delivered>>, BenefitsStand, HoldersStand, GrantsFollow,
         \A g \in DOMAIN grants : Unfinished(grants[g]) => Unfinished(grants'[g])
  PROVE  OnceIInv'
<1>1. \A s : Releasing(s) => Releasing(s)'
  BY DEF Releasing
<1>2. RowsOnce'
  BY <1>1, RowsStand DEF OnceIInv
<1>3. ASSUME NEW n \in Node PROVE SessionOnce(n)'
  <2>1. SessionOnce(n) /\ node'[n] = node[n]
    BY DEF OnceIInv
  <2>2. BatchStands(n)'
    BY <2>1, BatchGoesOn DEF SessionOnce
  <2>3. CycleStands(n)' /\ Reserves(n)'
    <3>1. node[n].at \in OnGrant => node[n].g[1] \in Benefit /\ SubOf[node[n].g[1]] \in Sub
      BY BenefitOf
    <3>2. CycleStands(n)'
      BY <2>1, <3>1 DEF SessionOnce, CycleStands, OnCycle, OnGrant, BenefitsStand
    <3>3. Reserves(n)'
      BY <2>1, <3>1 DEF SessionOnce, Reserves, OnGrant, HoldersStand
    <3> QED
      BY <3>2, <3>3
  <2>4. Delivers(n)'
    <3>1. node[n].at \in OnRow => node[n].g \in DOMAIN grants
      BY DEF TypeInv, SessionOK
    <3> QED
      BY <2>1, <3>1 DEF SessionOnce, Delivers, OnRow
  <2> QED
    BY <2>2, <2>3, <2>4 DEF SessionOnce
<1> QED
  BY <1>2, <1>3 DEF OnceIInv

-----------------------------------------------------------------------------
(* The steps.                                                              *)

\* The session takes up the cycle of a benefit of its batch, which was promised and is in that cycle.
LEMMA OnceTakesCycle ==
  ASSUME OneAtWork, TypeInv, OnceIInv, NEW n \in Node, At(n, "next"), NEW at \in {"skip", "cycle"}, NEW b \in Benefit, NEW key, NEW slot, NEW cycle,
         TakeCycle(n, at, <<b, key>>, slot, cycle), benefit[b].status # "ABSENT", cycle = benefit[b].cycle,
         UNCHANGED <<sub, benefit, grants, delivered>>
  PROVE  OnceIInv'
<1>1. /\ node'[n].at = at /\ node'[n].g = <<b, key>> /\ node'[n].cycle = cycle
      /\ node'[n].op = node[n].op /\ node'[n].todo = node[n].todo /\ node'[n].seen = node[n].seen
  BY DEF TypeInv, TypeOK, TakeCycle, Session
<1>2. CycleStands(n)' /\ Reserves(n)' /\ Delivers(n)'
  BY <1>1 DEF CycleStands, Reserves, Delivers
<1>3. BenefitsStand /\ HoldersStand /\ GrantsFollow
  BY GrantsStay DEF BenefitsStand, HoldersStand
<1> QED
  BY <1>1, <1>2, <1>3, OnceGoes DEF At

LEMMA OnceChosen ==
  ASSUME OneAtWork, TypeInv, OnceIInv, NEW n \in Node, DueStep(n) \/ \E b \in Benefit : ActivateNext(n, b)
  PROVE  OnceIInv'
<1>1. node \in [Node -> Session] /\ benefit \in [Benefit -> BenefitRow] /\ SessionOnce(n)
  BY DEF TypeInv, TypeOK, OnceIInv
<1>2. HoldersStand /\ GrantsFollow /\ UNCHANGED <<sub, grants, delivered>>
  <2>1. UNCHANGED <<sub, grants, delivered>>
    BY DEF DueStep, StartDue, DueNext, DueSkip, ActivateNext
  <2> QED
    BY <2>1, GrantsStay DEF HoldersStand
<1>3. CASE StartDue(n)
  <2> DEFINE due == {b \in Benefit : Due(b, clock)}
  <2>1. /\ node'[n].op = "due" /\ node'[n].at = "next" /\ node'[n].todo = due /\ node[n].at = "idle"
        /\ UNCHANGED benefit
    BY <1>1, <1>3 DEF StartDue, Idle, At
  <2>2. \A b \in due : benefit[b].status = "ACTIVE"
    BY DEF Due
  <2> HIDE DEF due
  <2>3. \A b \in due : b \in Benefit
    BY DEF due
  <2>4. BatchStands(n)'
    BY <2>1, <2>2, <2>3 DEF BatchStands
  <2>5. CycleStands(n)' /\ Reserves(n)' /\ Delivers(n)' /\ BenefitsStand
    BY <2>1 DEF CycleStands, Reserves, Delivers, OnCycle, BenefitsStand
  <2> QED
    BY <1>2, <2>1, <2>4, <2>5, OnceStands
<1>4. CASE DueSkip(n)
  <2>1. BenefitsStand
    BY <1>1, <1>4 DEF DueSkip, BenefitsStand, BenefitRow
  <2>2. Rest(n, Item(n)) /\ node[n].at = "skip"
    BY <1>4 DEF DueSkip, At
  <2> QED
    BY <1>2, <2>1, <2>2, OnceRests
<1>5. ASSUME NEW b \in Benefit, DueNext(n, b) PROVE OnceIInv'
  <2>1. benefit[b].status # "ABSENT" /\ UNCHANGED benefit /\ At(n, "next")
    BY <1>1, <1>5 DEF DueNext, SessionOnce, BatchStands
  <2>2. CASE node' = [node EXCEPT ![n] = Idle]
    BY <1>2, <2>1, <2>2, OnceEnds DEF BenefitsStand, At
  <2>3. CASE node' # [node EXCEPT ![n] = Idle]
    <3>1. \E at \in {"skip", "cycle"} : \E key, slot : TakeCycle(n, at, <<b, key>>, slot, benefit[b].cycle)
      BY <1>5, <2>3 DEF DueNext
    <3> QED
      BY <1>2, <2>1, <3>1, OnceTakesCycle
  <2> QED
    BY <2>2, <2>3
<1>6. ASSUME NEW b \in Benefit, ActivateNext(n, b) PROVE OnceIInv'
  <2>1. benefit[b].status # "ABSENT" /\ node[n].seen[b] = benefit[b].cycle /\ UNCHANGED benefit /\ At(n, "next")
    BY <1>1, <1>6 DEF ActivateNext, SessionOnce, BatchStands
  <2>2. \E key, slot : TakeCycle(n, "cycle", <<b, key>>, slot, node[n].seen[b])
    BY <1>6 DEF ActivateNext
  <2> QED
    BY <1>2, <2>1, <2>2, OnceTakesCycle
<1> QED
  BY <1>3, <1>4, <1>5, <1>6 DEF DueStep

\* An activation leaves each benefit in the cycle it is in, and takes none back.
LEMMA ActivateStands ==
  ASSUME TypeInv, NEW n \in Node, NEW s \in Sub, NEW status, NEW plan \in Plan, ActivateRow(n, s, status, plan)
  PROVE  /\ HoldersStand /\ BenefitsStand
         /\ status \in {"ACTIVE", "TRIALING"} => \A b \in Promises[plan] : SubOf[b] = s => benefit'[b].status # "ABSENT"
<1>1. benefit \in [Benefit -> BenefitRow] /\ sub \in [Sub -> SubRow]
  BY DEF TypeInv, TypeOK
<1>2. HoldersStand
  <2> DEFINE new == [sub[s] EXCEPT !.status = status, !.plan = plan]
  <2>1. sub' = [sub EXCEPT ![s] = new]
    BY DEF ActivateRow
  <2>2. new.user = sub[s].user
    BY <1>1 DEF SubRow
  <2> HIDE DEF new
  <2> QED
    BY <1>1, <2>1, <2>2 DEF HoldersStand
<1>3. ASSUME NEW b \in Benefit PROVE resume(b).cycle = benefit[b].cycle /\ resume(b).status # "ABSENT"
  <2>1. benefit[b] \in BenefitRow
    BY <1>1
  <2> QED
    BY <2>1 DEF resume, BenefitRow
<1>4. ASSUME NEW b \in Benefit PROVE [benefit[b] EXCEPT !.status = "ENDED", !.next = None].cycle = benefit[b].cycle
                                     /\ [benefit[b] EXCEPT !.status = "ENDED", !.next = None].status = "ENDED"
                                     /\ [benefit[b] EXCEPT !.status = "PAUSED", !.next = None].cycle = benefit[b].cycle
                                     /\ [benefit[b] EXCEPT !.status = "PAUSED", !.next = None].status = "PAUSED"
  BY <1>1 DEF BenefitRow
<1>5. CASE status \in {"ACTIVE", "TRIALING"}
  <2>1. benefit' = snapshot_benefits(s, plan)
    BY <1>5 DEF ActivateRow
  <2>2. ASSUME NEW b \in Benefit, benefit[b].status # "ABSENT" PROVE benefit'[b].cycle = benefit[b].cycle /\ benefit'[b].status # "ABSENT"
    BY <1>3, <1>4, <2>1, <2>2 DEF snapshot_benefits
  <2>3. ASSUME NEW b \in Benefit, b \in Promises[plan], SubOf[b] = s PROVE benefit'[b].status # "ABSENT"
    BY <1>3, <2>1, <2>3 DEF snapshot_benefits
  <2>4. \A b \in Promises[plan] : SubOf[b] = s => benefit'[b].status # "ABSENT"
    BY <2>3
  <2> QED
    BY <1>2, <2>2, <2>4 DEF BenefitsStand
<1>6. CASE status \notin {"ACTIVE", "TRIALING"}
  <2>1. benefit' = [b \in Benefit |-> IF SubOf[b] = s /\ benefit[b].status = "ACTIVE" THEN [benefit[b] EXCEPT !.status = "PAUSED", !.next = None] ELSE benefit[b]]
    BY <1>6 DEF ActivateRow
  <2>2. \A b \in Benefit : benefit'[b] \in {benefit[b], [benefit[b] EXCEPT !.status = "PAUSED", !.next = None]}
    BY <2>1
  <2> QED
    BY <1>2, <1>4, <1>6, <2>2 DEF BenefitsStand
<1> QED
  BY <1>5, <1>6

LEMMA OnceActivates ==
  ASSUME OneAtWork, TypeInv, OnceIInv, NEW n \in Node, node[n].at # "release", NEW s \in Sub, NEW status, NEW plan \in Plan,
         ActivateRow(n, s, status, plan)
  PROVE  OnceIInv'
<1> DEFINE first == {b \in Promises[plan] : SubOf[b] = s /\ OnActivation[b] /\ benefit'[b].last = None}
           seen == [b \in Benefit |-> benefit'[b].cycle]
           on == [Idle EXCEPT !.op = "activate", !.at = "next", !.todo = first, !.seen = seen]
<1>1. HoldersStand /\ BenefitsStand /\ GrantsFollow /\ UNCHANGED delivered
  <2>1. UNCHANGED <<grants, delivered>>
    BY DEF ActivateRow
  <2> QED
    BY <2>1, GrantsStay, ActivateStands
<1>2. CASE node' = [node EXCEPT ![n] = Idle]
  BY <1>1, <1>2, OnceEnds
<1>3. CASE node' # [node EXCEPT ![n] = Idle]
  <2>1. status \in {"ACTIVE", "TRIALING"} /\ node' = [node EXCEPT ![n] = on]
    BY <1>3 DEF ActivateRow
  <2>2. \A b \in first : b \in Benefit /\ benefit'[b].status # "ABSENT" /\ seen[b] = benefit'[b].cycle
    BY <2>1, ActivateStands
  <2>3. on.op = "activate" /\ on.at = "next" /\ on.todo = first /\ on.seen = seen
    <3> HIDE DEF first, seen
    <3> QED
      BY DEF Idle
  <2> HIDE DEF first, seen, on
  <2>4. node'[n] = on
    BY <2>1 DEF TypeInv, TypeOK
  <2>5. BatchStands(n)'
    BY <2>2, <2>3, <2>4 DEF BatchStands
  <2>6. CycleStands(n)' /\ Reserves(n)' /\ Delivers(n)'
    BY <2>3, <2>4 DEF CycleStands, Reserves, Delivers, OnCycle
  <2> QED
    BY <1>1, <2>5, <2>6, OnceStands
<1> QED
  BY <1>2, <1>3

\* A session that is about to release a cycle, or to activate, has no batch and no grant in hand.
LEMMA NothingInHand ==
  ASSUME OneAtWork, NEW n \in Node, node'[n].op = "renew", node'[n].at \in {"release", "activate"}
  PROVE  \A m \in Node : SessionOnce(m)'
BY DEF OneAtWork, SessionOnce, BatchStands, CycleStands, Reserves, Delivers, OnCycle

\* A new cycle puts what is reserved behind: nobody is delivered it any more.
LEMMA OnceReleases ==
  ASSUME OneAtWork, TypeInv, OnceIInv, NEW n \in Node, NEW s \in Sub, NEW plan \in Plan, release_cycle(n, s, plan),
         node[n].at = "release" => node[n].sub = s
  PROVE  OnceIInv'
<1>1. benefit \in [Benefit -> BenefitRow] /\ sub \in [Sub -> SubRow] /\ UNCHANGED <<grants, delivered>>
  BY DEF TypeInv, TypeOK, release_cycle
<1>2. node'[n].op = "renew" /\ node'[n].at = "activate"
  BY DEF TypeInv, TypeOK, release_cycle, Idle
<1>3. HoldersStand
  BY <1>1 DEF release_cycle, HoldersStand, SubRow
<1>4. \A b \in Benefit : /\ benefit'[b].status = benefit[b].status
                         /\ benefit[b].cycle \in Nat /\ benefit'[b].cycle \in Nat /\ benefit[b].cycle <= benefit'[b].cycle
                         /\ (SubOf[b] # s => benefit'[b].cycle = benefit[b].cycle)
                         /\ (SubOf[b] = s /\ benefit[b].status # "ABSENT" => benefit[b].cycle < benefit'[b].cycle)
  <2> SUFFICES ASSUME NEW b \in Benefit
               PROVE  /\ benefit'[b].status = benefit[b].status
                      /\ benefit[b].cycle \in Nat /\ benefit'[b].cycle \in Nat /\ benefit[b].cycle <= benefit'[b].cycle
                      /\ (SubOf[b] # s => benefit'[b].cycle = benefit[b].cycle)
                      /\ (SubOf[b] = s /\ benefit[b].status # "ABSENT" => benefit[b].cycle < benefit'[b].cycle)
    OBVIOUS
  <2> DEFINE new == [benefit[b] EXCEPT !.cycle = benefit[b].cycle + 1, !.last = None]
  <2>1. benefit[b] \in BenefitRow /\ benefit[b].cycle \in Nat
    BY <1>1 DEF BenefitRow
  <2>2. new.status = benefit[b].status /\ new.cycle = benefit[b].cycle + 1
    BY <2>1 DEF BenefitRow
  <2>3. benefit'[b] = IF SubOf[b] = s /\ benefit[b].status # "ABSENT" THEN new ELSE benefit[b]
    BY DEF release_cycle
  <2> HIDE DEF new
  <2> QED
    BY <2>1, <2>2, <2>3
<1>5. \A g \in DOMAIN grants : g[1] \in Benefit /\ SubOf[g[1]] \in Sub /\ grants[g].cycle \in Nat
  BY DEF TypeInv, TypeOK, GrantId, GrantRow
<1>6. GrantsBehind'
  <2>1. ASSUME NEW g \in DOMAIN grants PROVE benefit'[g[1]].status # "ABSENT" /\ grants[g].cycle <= benefit'[g[1]].cycle
    <3>1. benefit[g[1]].status # "ABSENT" /\ grants[g].cycle <= benefit[g[1]].cycle
      BY DEF OnceIInv, RowsOnce, GrantsBehind
    <3>2. /\ benefit'[g[1]].status = benefit[g[1]].status /\ benefit[g[1]].cycle <= benefit'[g[1]].cycle
          /\ grants[g].cycle \in Nat /\ benefit[g[1]].cycle \in Nat /\ benefit'[g[1]].cycle \in Nat
      BY <1>4, <1>5
    <3> QED
      BY <3>1, <3>2
  <2> QED
    BY <1>1, <2>1 DEF GrantsBehind
<1>7. \A x \in Sub : x # s => ~Releasing(x)
  BY DEF OneAtWork, Releasing
<1>8. ASSUME NEW g \in DOMAIN grants PROVE Reserved(g)'
  <2>1. /\ Reserved(g) /\ benefit[g[1]].status # "ABSENT" /\ grants[g].cycle <= benefit[g[1]].cycle
        /\ g[1] \in Benefit /\ SubOf[g[1]] \in Sub /\ grants[g].cycle \in Nat
    BY <1>5 DEF OnceIInv, RowsOnce, GrantsBehind
  <2>2. CASE SubOf[g[1]] = s
    <3>1. grants[g].cycle # benefit'[g[1]].cycle
      BY <1>4, <2>1, <2>2
    <3> QED
      BY <1>1, <2>1, <3>1 DEF Reserved
  <2>3. CASE SubOf[g[1]] # s
    <3>1. benefit'[g[1]].cycle = benefit[g[1]].cycle /\ sub'[SubOf[g[1]]].user = sub[SubOf[g[1]]].user /\ ~Releasing(SubOf[g[1]])
      BY <1>3, <1>4, <1>7, <2>1, <2>3 DEF HoldersStand
    <3> QED
      BY <1>1, <2>1, <3>1 DEF Reserved
  <2> QED
    BY <2>2, <2>3
<1>9. OneReservation' /\ OncePerUserPaysOnce'
  BY <1>1 DEF OnceIInv, RowsOnce, OneReservation, OncePerUserPaysOnce
<1> QED
  BY <1>1, <1>2, <1>6, <1>8, <1>9, NothingInHand DEF OnceIInv, RowsOnce

\* Ending the benefits of a subscription leaves each in its cycle.
LEMMA EndStands ==
  ASSUME TypeInv, NEW s \in Sub, end_benefits(s)
  PROVE  BenefitsStand
<1>1. \A b \in Benefit : [benefit[b] EXCEPT !.status = "ENDED", !.next = None].cycle = benefit[b].cycle
                         /\ [benefit[b] EXCEPT !.status = "ENDED", !.next = None].status = "ENDED"
  BY DEF TypeInv, TypeOK, BenefitRow
<1>2. \A b \in Benefit : benefit'[b] \in {benefit[b], [benefit[b] EXCEPT !.status = "ENDED", !.next = None]}
  BY DEF end_benefits
<1> QED
  BY <1>1, <1>2 DEF BenefitsStand

\* A receipt that changes hands: until its cycle opens, nothing is said of what was reserved under it.
LEMMA OnceHandsOver ==
  ASSUME OneAtWork, TypeInv, OnceIInv, NEW n \in Node, NEW s \in Sub, NEW u \in User, NEW status, HandOver(n, s, u, status)
  PROVE  OnceIInv'
<1>1. UNCHANGED <<grants, delivered>> /\ end_benefits(s) /\ node[n].at = "idle" /\ sub \in [Sub -> SubRow]
  BY DEF TypeInv, TypeOK, HandOver, At
<1>2. node'[n].op = "renew" /\ node'[n].at = "release" /\ node'[n].sub = s
  BY DEF TypeInv, TypeOK, HandOver, Idle
<1>3. \A x \in Sub : x # s => sub'[x] = sub[x]
  BY <1>1 DEF HandOver
<1>4. BenefitsStand
  BY <1>1, EndStands
<1>5. \A g \in DOMAIN grants : g[1] \in Benefit /\ SubOf[g[1]] \in Sub
  BY DEF TypeInv, TypeOK, GrantId
<1>6. GrantsBehind'
  BY <1>1, <1>4, <1>5 DEF OnceIInv, RowsOnce, GrantsBehind, BenefitsStand
<1>7. Releasing(s)' /\ \A x \in Sub : ~Releasing(x)
  BY <1>1, <1>2 DEF OneAtWork, Releasing
<1>8. ASSUME NEW g \in DOMAIN grants PROVE Reserved(g)'
  <2>1. Reserved(g) /\ benefit[g[1]].status # "ABSENT" /\ g[1] \in Benefit /\ SubOf[g[1]] \in Sub
    BY <1>5 DEF OnceIInv, RowsOnce, GrantsBehind
  <2>2. CASE SubOf[g[1]] = s
    BY <1>1, <1>7, <2>1, <2>2 DEF Reserved
  <2>3. CASE SubOf[g[1]] # s
    <3>1. benefit'[g[1]].cycle = benefit[g[1]].cycle /\ sub'[SubOf[g[1]]].user = sub[SubOf[g[1]]].user /\ ~Releasing(SubOf[g[1]])
      BY <1>3, <1>4, <1>7, <2>1, <2>3 DEF BenefitsStand
    <3> QED
      BY <1>1, <2>1, <3>1 DEF Reserved
  <2> QED
    BY <2>2, <2>3
<1>9. OneReservation' /\ OncePerUserPaysOnce'
  BY <1>1 DEF OnceIInv, RowsOnce, OneReservation, OncePerUserPaysOnce
<1> QED
  BY <1>1, <1>2, <1>6, <1>8, <1>9, NothingInHand DEF OnceIInv, RowsOnce

LEMMA OnceAsked ==
  ASSUME OneAtWork, TypeInv, OnceIInv, HandsOverWhole, Ask \/ Die
  PROVE  OnceIInv'
<1>1. ASSUME NEW s \in Sub, Close(s) PROVE OnceIInv'
  <2>1. BenefitsStand /\ UNCHANGED <<grants, delivered, node>>
    BY <1>1, EndStands DEF Close
  <2>2. HoldersStand
    BY <1>1 DEF Close, HoldersStand, TypeInv, TypeOK, SubRow
  <2> QED
    BY <2>1, <2>2, GrantsStay, OnceWaits
<1>2. ASSUME NEW n \in Node, NEW s \in Sub, Call(n, s) PROVE OnceIInv'
  <2>1. ASSUME NEW status \in SubStatus, NEW plan \in Plan, Activate(n, s, status, plan) PROVE OnceIInv'
    BY <2>1, OnceActivates DEF Activate, At
  <2>2. ASSUME NEW plan \in Plan, OpenNewCycle(n, s, plan) PROVE OnceIInv'
    BY <2>2, OnceReleases DEF OpenNewCycle, At
  <2> QED
    BY <1>2, <2>1, <2>2, OnceHandsOver DEF Call
<1>3. CASE Die
  <2>1. PICK n \in Node : Crash(n)
    BY <1>3 DEF Die
  <2>2. node' = [node EXCEPT ![n] = Idle] /\ UNCHANGED <<sub, benefit, grants, delivered>>
    BY <2>1 DEF Crash
  <2>3. node[n].at # "release"
    <3> SUFFICES ASSUME node[n].at = "release" PROVE FALSE
      OBVIOUS
    <3>1. node'[n] = Idle
      BY <2>2 DEF TypeInv, TypeOK
    <3>2. node'[n].at = "idle"
      BY <3>1 DEF Idle
    <3>3. HandOverRelease(n)
      BY <3>2 DEF HandsOverWhole, At
    <3>4. node'[n].at = "activate"
      BY <3>3 DEF HandOverRelease, release_cycle, TypeInv, TypeOK, Idle
    <3> QED
      BY <3>2, <3>4
  <2> QED
    BY <2>2, <2>3, GrantsStay, OnceEnds DEF BenefitsStand, HoldersStand
<1> QED
  BY <1>1, <1>2, <1>3 DEF Ask

\* A row is written for the cycle its benefit is in, and reserves what nobody has reserved or was paid.
LEMMA RowsInserted ==
  ASSUME TypeInv, RowsOnce, NEW g \in GrantId, g \notin DOMAIN grants, NEW row \in GrantRow, Insert(g, row),
         BenefitsStand, HoldersStand, UNCHANGED delivered, \A s : ~Releasing(s),
         benefit[g[1]].status # "ABSENT", row.cycle = benefit[g[1]].cycle,
         row.reserved # None => \A h \in DOMAIN grants : grants[h].reserved # row.reserved,
         Unfinished(row) /\ g[1] \in OncePerUser =>
           row.reserved = sub[SubOf[g[1]]].user /\ \A e \in delivered : e.key[1] \in OncePerUser => e.user # row.reserved
  PROVE  RowsOnce'
<1>1. grants \in [DOMAIN grants -> GrantRow] /\ sub \in [Sub -> SubRow] /\ benefit \in [Benefit -> BenefitRow]
  BY DEF TypeInv, TypeOK
<1>2. DOMAIN grants' = DOMAIN grants \cup {g} /\ grants'[g] = row /\ \A x \in DOMAIN grants : x # g => grants'[x] = grants[x]
  BY <1>1, InsertType
<1>3. \A h \in DOMAIN grants : h[1] \in Benefit /\ SubOf[h[1]] \in Sub /\ grants'[h] = grants[h] /\ benefit[h[1]].status # "ABSENT"
  BY <1>2 DEF TypeInv, TypeOK, GrantId, RowsOnce, GrantsBehind
<1>4. g[1] \in Benefit /\ SubOf[g[1]] \in Sub /\ benefit[g[1]].cycle \in Nat /\ sub[SubOf[g[1]]].user \in User
  <2>1. g[1] \in Benefit /\ SubOf[g[1]] \in Sub
    BY DEF GrantId
  <2> QED
    BY <1>1, <2>1 DEF BenefitRow, SubRow
<1>5. GrantsBehind'
  <2>1. ASSUME NEW h \in DOMAIN grants PROVE benefit'[h[1]].status # "ABSENT" /\ grants'[h].cycle <= benefit'[h[1]].cycle
    BY <1>3 DEF BenefitsStand, RowsOnce, GrantsBehind
  <2>2. benefit'[g[1]].status # "ABSENT" /\ grants'[g].cycle <= benefit'[g[1]].cycle
    BY <1>2, <1>4 DEF BenefitsStand
  <2> QED
    BY <1>2, <2>1, <2>2 DEF GrantsBehind
<1>6. ASSUME NEW h \in DOMAIN grants PROVE Reserved(h)'
  <2>1. Reserved(h) /\ ~Releasing(SubOf[h[1]])
    BY DEF RowsOnce
  <2>2. benefit'[h[1]].cycle = benefit[h[1]].cycle /\ sub'[SubOf[h[1]]].user = sub[SubOf[h[1]]].user /\ grants'[h] = grants[h]
    BY <1>3 DEF BenefitsStand, HoldersStand
  <2> QED
    BY <2>1, <2>2 DEF Reserved
<1>7. Reserved(g)'
  BY <1>2, <1>4 DEF HoldersStand, Reserved
<1>8. OneReservation'
  BY <1>2, <1>3 DEF RowsOnce, OneReservation
<1>9. OncePerUserPaysOnce'
  BY DEF RowsOnce, OncePerUserPaysOnce
<1> QED
  BY <1>2, <1>5, <1>6, <1>7, <1>8, <1>9 DEF RowsOnce

LEMMA OnceCycle ==
  ASSUME OneAtWork, TypeInv, OnceIInv, NEW n \in Node, CycleStep(n)
  PROVE  OnceIInv'
<1>1. /\ node \in [Node -> Session] /\ benefit \in [Benefit -> BenefitRow] /\ sub \in [Sub -> SubRow] /\ SessionOnce(n)
      /\ node[n].at \in {"cycle", "insert", "insert_skipped"}
  BY DEF TypeInv, TypeOK, OnceIInv, CycleStep, CycleMet, CycleRead, InsertSkipped, InsertWon, InsertLost, At
<1>2. HoldersStand /\ UNCHANGED <<sub, delivered>>
  BY DEF CycleStep, CycleMet, CycleRead, InsertSkipped, InsertWon, InsertLost, HoldersStand
<1>3. PICK g \in GrantId : g = node[n].g
  BY <1>1 DEF TypeInv, SessionOK, OnGrant
<1>4. g[1] \in Benefit /\ SubOf[g[1]] \in Sub /\ sub[SubOf[g[1]]].user \in User
  <2>1. g[1] \in Benefit /\ SubOf[g[1]] \in Sub
    BY DEF GrantId
  <2> QED
    BY <1>1, <2>1 DEF SubRow
<1>5. benefit[g[1]].status # "ABSENT" /\ node[n].cycle = benefit[g[1]].cycle
  BY <1>1, <1>3 DEF SessionOnce, CycleStands, OnCycle
<1>6. \A s : ~Releasing(s)
  BY <1>1 DEF OneAtWork, Releasing
<1>7. CASE CycleMet(n) \/ InsertLost(n)
  <2>1. GrantsFollow /\ Rest(n, Item(n))
    BY <1>7, GrantsStay DEF CycleMet, InsertLost
  <2>2. BenefitsStand
    <3>1. CASE InsertLost(n)
      BY <3>1 DEF InsertLost, BenefitsStand
    <3>2. CASE CycleMet(n)
      BY <1>3, <1>4, <3>2, AdvanceStands DEF CycleMet
    <3> QED
      BY <1>7, <3>1, <3>2
  <2> QED
    BY <1>1, <1>2, <2>1, <2>2, OnceRests
<1>8. CASE CycleRead(n)
  <2> DEFINE u == IF Cadence[g[1]] = "ONCE_PER_USER" THEN sub[SubOf[g[1]]].user ELSE None
             withheld == (u # None /\ already_held_by_user(u)) \/ ~policy_allows(g[1])
  <2>1. UNCHANGED <<benefit, grants>> /\ node' = [node EXCEPT ![n] = [@ EXCEPT !.at = IF withheld THEN "insert_skipped" ELSE "insert", !.reserved = u]]
    BY <1>3, <1>8 DEF CycleRead
  <2> HIDE DEF withheld
  <2>2. /\ node'[n].at = (IF withheld THEN "insert_skipped" ELSE "insert") /\ node'[n].reserved = u
        /\ node'[n].g = g /\ node'[n].cycle = node[n].cycle
        /\ node'[n].op = node[n].op /\ node'[n].todo = node[n].todo /\ node'[n].seen = node[n].seen
    BY <1>1, <1>3, <2>1 DEF Session
  <2>3. CycleStands(n)' /\ Delivers(n)'
    BY <1>5, <2>1, <2>2 DEF CycleStands, Delivers
  <2>4. Reserves(n)'
    <3> SUFFICES ASSUME node'[n].at = "insert", g[1] \in OncePerUser
                 PROVE  u = sub[SubOf[g[1]]].user /\ \A e \in delivered : e.key[1] \in OncePerUser => e.user # u
      BY <1>2, <2>2 DEF Reserves
    <3>1. u = sub[SubOf[g[1]]].user /\ u # None
      BY <1>4 DEF OncePerUser
    <3>2. ~already_held_by_user(u)
      BY <2>2, <3>1 DEF withheld
    <3> QED
      BY <3>1, <3>2 DEF already_held_by_user
  <2>5. BenefitsStand /\ GrantsFollow
    BY <2>1, GrantsStay DEF BenefitsStand
  <2> QED
    BY <1>1, <1>2, <2>2, <2>3, <2>4, <2>5, OnceGoes
<1>9. CASE InsertSkipped(n)
  <2>1. PICK row : row = NewRow(n, "SKIPPED")
    OBVIOUS
  <2>2. row \in GrantRow /\ row.status = "SKIPPED" /\ row.reserved = None /\ row.cycle = node[n].cycle
    BY <1>1, <2>1, NewRowType DEF GrantStatus, NewRow
  <2>3. BenefitsStand /\ Rest(n, Item(n))
    BY <1>3, <1>4, <1>9, <2>1, AdvanceStands DEF InsertSkipped
  <2>4. CASE g \in DOMAIN grants
    BY <1>1, <1>2, <1>3, <1>9, <2>3, <2>4, GrantsStay, OnceRests DEF InsertSkipped
  <2>5. CASE g \notin DOMAIN grants
    <3>1. Insert(g, row)
      BY <1>3, <1>9, <2>1, <2>5 DEF InsertSkipped
    <3>2. RowsOnce'
      BY <1>2, <1>5, <1>6, <2>2, <2>3, <2>5, <3>1, RowsInserted DEF OnceIInv, Unfinished
    <3>3. SessionOnce(n)'
      BY <1>1, <2>3, SessionRests DEF SessionOnce
    <3> QED
      BY <3>2, <3>3 DEF OneAtWork, OnceIInv
  <2> QED
    BY <2>4, <2>5
<1>10. CASE InsertWon(n)
  <2>1. PICK row : row = NewRow(n, "PROCESSING")
    OBVIOUS
  <2>2. row \in GrantRow /\ row.status = "PROCESSING" /\ row.reserved = node[n].reserved /\ row.cycle = node[n].cycle
    BY <1>1, <2>1, NewRowType DEF GrantStatus, NewRow
  <2>3. /\ g \notin DOMAIN grants /\ Insert(g, row) /\ UNCHANGED benefit /\ node[n].at = "insert" /\ Goto(n, "deliver")
        /\ node[n].reserved # None => \A h \in DOMAIN grants : grants[h].reserved # node[n].reserved
    BY <1>3, <1>10, <2>1 DEF InsertWon, Taken, At
  <2>4. g[1] \in OncePerUser => node[n].reserved = sub[SubOf[g[1]]].user /\ \A e \in delivered : e.key[1] \in OncePerUser => e.user # node[n].reserved
    BY <1>1, <1>3, <2>3 DEF SessionOnce, Reserves
  <2>5. BenefitsStand
    BY <2>3 DEF BenefitsStand
  <2>6. RowsOnce'
    BY <1>2, <1>5, <1>6, <2>2, <2>3, <2>4, <2>5, RowsInserted DEF OnceIInv
  <2>7. /\ node'[n].at = "deliver" /\ node'[n].g = g /\ node'[n].op = node[n].op /\ node'[n].todo = node[n].todo /\ node'[n].seen = node[n].seen
    BY <1>1, <1>3, <2>3 DEF Goto, Session
  <2>8. grants'[g] = row
    BY <2>3 DEF Insert
  <2>9. BatchStands(n)'
    BY <1>1, <2>5, <2>7, BatchGoesOn DEF SessionOnce
  <2>10. CycleStands(n)' /\ Reserves(n)' /\ Delivers(n)'
    BY <2>2, <2>7, <2>8 DEF CycleStands, Reserves, Delivers, OnCycle, Unfinished
  <2> QED
    BY <2>6, <2>9, <2>10 DEF OneAtWork, OnceIInv, SessionOnce
<1> QED
  BY <1>7, <1>8, <1>9, <1>10 DEF CycleStep

LEMMA OnceRetried ==
  ASSUME OneAtWork, TypeInv, OnceIInv, NEW n \in Node, RetryStep(n)
  PROVE  OnceIInv'
<1>1. /\ node \in [Node -> Session] /\ grants \in [DOMAIN grants -> GrantRow] /\ DOMAIN grants \subseteq GrantId
      /\ SessionOnce(n) /\ node[n].at # "release"
  BY DEF TypeInv, TypeOK, OnceIInv, RetryStep, StartRetry, RetryDrop, RetryUnowed, close_exhausted, claim, OnItem, At
<1>2. BenefitsStand /\ HoldersStand /\ UNCHANGED <<sub, benefit, delivered>>
  BY DEF RetryStep, StartRetry, RetryDrop, RetryUnowed, close_exhausted, claim, BenefitsStand, HoldersStand
<1>3. CASE StartRetry(n)
  <2>1. node'[n].op = "retry" /\ node'[n].at = "next" /\ UNCHANGED grants
    BY <1>1, <1>3 DEF StartRetry, Idle
  <2>2. BatchStands(n)' /\ CycleStands(n)' /\ Reserves(n)' /\ Delivers(n)'
    BY <2>1 DEF BatchStands, CycleStands, Reserves, Delivers, OnCycle
  <2> QED
    BY <1>1, <1>2, <2>1, <2>2, GrantsStay, OnceStands
<1>4. ASSUME NEW g \in DOMAIN grants, NEW at \in {"advance", "drop"}, Take(n, at, g), GrantsFollow PROVE OnceIInv'
  <2>1. node'[n].at = at /\ node'[n].op = node[n].op /\ node'[n].todo = node[n].todo /\ node'[n].seen = node[n].seen
    BY <1>1, <1>4 DEF Take, Session
  <2>2. CycleStands(n)' /\ Reserves(n)' /\ Delivers(n)'
    BY <2>1 DEF CycleStands, Reserves, Delivers, OnCycle
  <2> QED
    BY <1>1, <1>2, <1>4, <2>1, <2>2, OnceGoes
<1>5. CASE RetryDrop(n)
  <2>1. PICK g \in DOMAIN grants : g = node[n].g
    BY <1>5, RowOf DEF RetryDrop, At, OnRow
  <2>2. Write(g, drop(grants[g])) /\ Rest(n, Item(n))
    BY <1>5, <2>1 DEF RetryDrop
  <2>3. GrantsFollow
    BY <1>1, <2>2, RowFollows, GrantWritten
  <2> QED
    BY <1>1, <1>2, <2>2, <2>3, OnceRests
<1>6. ASSUME NEW g \in DOMAIN grants, RetryUnowed(n, g) PROVE OnceIInv'
  BY <1>4, <1>6, GrantsStay DEF RetryUnowed
<1>7. ASSUME NEW g \in DOMAIN grants, close_exhausted(n, g) PROVE OnceIInv'
  <2>1. CASE Write(g, drop(grants[g])) /\ Take(n, "advance", g)
    <3>1. GrantsFollow
      BY <1>1, <2>1, RowFollows, GrantWritten
    <3> QED
      BY <1>4, <2>1, <3>1
  <2>2. CASE Rest(n, g) /\ UNCHANGED grants
    BY <1>1, <1>2, <2>2, GrantsStay, OnceRests
  <2> QED
    BY <1>7, <2>1, <2>2 DEF close_exhausted
<1>8. ASSUME NEW g \in DOMAIN grants, claim(n, g) PROVE OnceIInv'
  <2> DEFINE new == [grants[g] EXCEPT !.status = "PROCESSING", !.attempts = grants[g].attempts + 1, !.stale = FALSE]
  <2>1. CASE Rest(n, g) /\ UNCHANGED grants
    BY <1>1, <1>2, <2>1, GrantsStay, OnceRests
  <2>2. CASE takeable(grants[g]) /\ Write(g, new) /\ Take(n, "deliver", g)
    <3>1. new.status = "PROCESSING" /\ new.cycle = grants[g].cycle /\ new.reserved = grants[g].reserved
      BY <1>1 DEF GrantRow
    <3>2. Unfinished(grants[g]) /\ Unfinished(new)
      BY <2>2, <3>1 DEF takeable, Unfinished
    <3> HIDE DEF new
    <3>3. GrantsFollow /\ grants'[g] = new
      BY <1>1, <2>2, <3>1, <3>2, GrantWritten DEF Follows, Write
    <3>4. node'[n].at = "deliver" /\ node'[n].g = g /\ node'[n].op = node[n].op /\ node'[n].todo = node[n].todo /\ node'[n].seen = node[n].seen
      BY <1>1, <2>2 DEF Take, Session
    <3>5. CycleStands(n)' /\ Reserves(n)' /\ Delivers(n)'
      BY <3>2, <3>3, <3>4 DEF CycleStands, Reserves, Delivers, OnCycle
    <3> QED
      BY <1>1, <1>2, <3>3, <3>4, <3>5, OnceGoes
  <2> QED
    BY <1>8, <2>1, <2>2 DEF claim
<1> QED
  BY <1>3, <1>5, <1>6, <1>7, <1>8 DEF RetryStep

\* Who is paid reserved it, and nothing paid before reached the account.
LEMMA OncePaid ==
  ASSUME OneAtWork, TypeInv, OnceIInv, NEW n \in Node, Paying(n)
  PROVE  OnceIInv'
<1>1. /\ node \in [Node -> Session] /\ SessionOnce(n) /\ node[n].at = "deliver"
      /\ UNCHANGED <<sub, benefit, grants>>
  BY DEF TypeInv, TypeOK, OnceIInv, Paying, Pay
<1>2. PICK g \in DOMAIN grants : g = node[n].g
  BY <1>1, RowOf DEF OnRow
<1>3. g[1] \in Benefit /\ SubOf[g[1]] \in Sub
  BY DEF TypeInv, TypeOK, GrantId
<1>4. PICK u : u = sub[SubOf[g[1]]].user
  OBVIOUS
<1>5. PICK paid : paid = [key |-> g, user |-> u, attempt |-> grants[g].attempts]
  OBVIOUS
<1>6. delivered' = delivered \cup {paid} /\ paid.key = g /\ paid.user = u
  BY <1>2, <1>4, <1>5 DEF Paying, Pay
<1>7. \A s : ~Releasing(s)
  BY <1>1 DEF OneAtWork, Releasing
<1>8. Unfinished(grants[g]) /\ grants[g].cycle = benefit[g[1]].cycle
  BY <1>1, <1>2 DEF SessionOnce, Delivers, Paying, Deliverable
<1>9. g[1] \in OncePerUser =>
        grants[g].reserved = u /\ u # None /\ \A e \in delivered : (e.user = u /\ e.key[1] \in OncePerUser) => e.key = g
  <2>1. Reserved(g)
    BY DEF OnceIInv, RowsOnce
  <2> QED
    BY <1>4, <1>7, <1>8, <2>1 DEF Reserved
<1>10. ASSUME g[1] \in OncePerUser, NEW e \in delivered, e.user = u, e.key[1] \in OncePerUser PROVE FALSE
  <2>1. e.key = g
    BY <1>9, <1>10
  <2>2. CASE Type[g[1]] = "CREDIT" /\ ~Settled(g)
    BY <2>1, <2>2 DEF Settled
  <2>3. CASE Type[g[1]] = "PRODUCT" /\ ~Owns(u)
    BY <1>10, <2>1, <2>3 DEF Owns
  <2>4. \/ Type[g[1]] = "CREDIT" /\ ~Settled(g)
        \/ Type[g[1]] = "PRODUCT" /\ ~Owns(u)
    BY <1>2, <1>4 DEF Paying
  <2> QED
    BY <2>2, <2>3, <2>4
<1>11. OncePerUserPaysOnce'
  <2> SUFFICES ASSUME NEW e \in delivered', NEW f \in delivered', e.user = f.user, e.key[1] \in OncePerUser, f.key[1] \in OncePerUser PROVE e = f
    BY DEF OncePerUserPaysOnce
  <2>1. CASE e \in delivered /\ f \in delivered
    BY <2>1 DEF OnceIInv, RowsOnce, OncePerUserPaysOnce
  <2>2. CASE e = paid /\ f \in delivered
    BY <1>6, <1>10, <2>2
  <2>3. CASE f = paid /\ e \in delivered
    BY <1>6, <1>10, <2>3
  <2> QED
    BY <1>6, <2>1, <2>2, <2>3
<1>12. ASSUME NEW h \in DOMAIN grants PROVE Reserved(h)'
  <2>1. Reserved(h)
    BY DEF OnceIInv, RowsOnce
  <2>2. ~Releasing(SubOf[h[1]])
    BY <1>7
  <2>3. ASSUME Unfinished(grants[h]), h[1] \in OncePerUser, NEW e \in delivered', e.user = grants[h].reserved, e.key[1] \in OncePerUser PROVE e.key = h
    <3>1. CASE e \in delivered
      BY <2>1, <2>3, <3>1 DEF Reserved
    <3>2. CASE e = paid
      <4>1. grants[g].reserved = grants[h].reserved /\ grants[g].reserved # None
        BY <1>6, <1>9, <2>3, <3>2
      <4>2. g = h
        BY <4>1 DEF OnceIInv, RowsOnce, OneReservation
      <4> QED
        BY <1>6, <3>2, <4>2
    <3> QED
      BY <1>6, <2>3, <3>1, <3>2
  <2> QED
    BY <1>1, <2>1, <2>2, <2>3 DEF Reserved
<1>13. GrantsBehind' /\ OneReservation'
  BY <1>1 DEF OnceIInv, RowsOnce, GrantsBehind, OneReservation
<1>14. /\ node'[n].at = "finish" /\ node'[n].g = g /\ node'[n].op = node[n].op /\ node'[n].todo = node[n].todo /\ node'[n].seen = node[n].seen
  BY <1>1, <1>2 DEF Paying, Pay, Goto, Session
<1>15. BatchStands(n)'
  <2>1. BenefitsStand
    BY <1>1 DEF BenefitsStand
  <2> QED
    BY <1>1, <1>14, <2>1, BatchGoesOn DEF SessionOnce
<1>16. CycleStands(n)' /\ Reserves(n)' /\ Delivers(n)'
  BY <1>1, <1>8, <1>14 DEF CycleStands, Reserves, Delivers, OnCycle
<1> QED
  BY <1>1, <1>11, <1>12, <1>13, <1>15, <1>16 DEF OneAtWork, OnceIInv, RowsOnce, SessionOnce

LEMMA OnceDelivered ==
  ASSUME OneAtWork, TypeInv, OnceIInv, NEW n \in Node, DeliverStep(n) \/ DeliverFailed(n), UNCHANGED delivered
  PROVE  OnceIInv'
<1>1. /\ node \in [Node -> Session] /\ grants \in [DOMAIN grants -> GrantRow] /\ node[n].at \in OnRow /\ SessionOnce(n)
      /\ UNCHANGED sub
  BY DEF TypeInv, TypeOK, OnceIInv, DeliverStep, DeliverFailed, DeliverDropped, deliver_access, deliver_credit, deliver_product, DeliverFinish, AdvanceGivenUp, Pay, At, OnRow
<1>2. PICK g \in DOMAIN grants : g = node[n].g /\ g[1] \in Benefit
  BY <1>1, RowOf
<1>3. PICK row \in GrantRow : row = grants[g]
  BY <1>1
<1>4. HoldersStand /\ node[n].at # "release"
  BY <1>1 DEF HoldersStand, OnRow
<1>5. CASE \E new \in {drop(row), complete(row), [row EXCEPT !.status = "SKIPPED", !.stale = FALSE]} : SettleGrant(n, new)
  <2>1. PICK new \in {drop(row), complete(row), [row EXCEPT !.status = "SKIPPED", !.stale = FALSE]} : SettleGrant(n, new)
    BY <1>5
  <2>2. Write(g, new) /\ benefit' = advance(g[1], new, benefit) /\ Rest(n, Item(n))
    BY <1>2, <2>1 DEF SettleGrant
  <2>3. Follows(new, grants[g])
    BY <1>3, RowFollows
  <2>4. GrantsFollow /\ BenefitsStand
    BY <1>2, <2>2, <2>3, GrantWritten, AdvanceStands
  <2> QED
    BY <1>4, <2>2, <2>4, OnceRests
<1>6. CASE AdvanceGivenUp(n)
  <2>1. benefit' = advance(g[1], grants[g], benefit) /\ Rest(n, Item(n)) /\ UNCHANGED grants
    BY <1>2, <1>6 DEF AdvanceGivenUp
  <2>2. BenefitsStand /\ GrantsFollow
    BY <1>2, <2>1, AdvanceStands, GrantsStay
  <2> QED
    BY <1>4, <2>1, <2>2, OnceRests
<1>7. CASE DeliverFailed(n)
  <2>1. BenefitsStand /\ node[n].at = "deliver"
    BY <1>7 DEF DeliverFailed, BenefitsStand, At
  <2>2. CASE Write(g, drop(row)) /\ Goto(n, "advance")
    <3>1. GrantsFollow
      BY <1>3, <2>2, RowFollows, GrantWritten
    <3>2. node'[n].at = "advance" /\ node'[n].op = node[n].op /\ node'[n].todo = node[n].todo /\ node'[n].seen = node[n].seen
      BY <1>1, <2>2 DEF Goto, Session
    <3>3. CycleStands(n)' /\ Reserves(n)' /\ Delivers(n)'
      BY <3>2 DEF CycleStands, Reserves, Delivers, OnCycle
    <3> QED
      BY <1>4, <2>1, <3>1, <3>2, <3>3, OnceGoes
  <2>3. CASE Write(g, [row EXCEPT !.status = "FAILED", !.stale = FALSE]) /\ Rest(n, Item(n))
    <3>1. Unfinished(row)
      BY <1>1, <1>2, <1>3, <2>1 DEF SessionOnce, Delivers
    <3>2. Follows([row EXCEPT !.status = "FAILED", !.stale = FALSE], row)
      BY <3>1, RowFollows
    <3> DEFINE new == [row EXCEPT !.status = "FAILED", !.stale = FALSE]
    <3> HIDE DEF new
    <3>3. GrantsFollow
      BY <1>3, <2>3, <3>2, GrantWritten DEF new
    <3> QED
      BY <1>4, <2>1, <2>3, <3>3, OnceRests
  <2> QED
    BY <1>2, <1>3, <1>7, <2>2, <2>3 DEF DeliverFailed
<1>8. CASE At(n, "deliver") /\ Pay(n)
  <2>1. UNCHANGED <<benefit, grants>> /\ Goto(n, "finish") /\ BenefitsStand /\ GrantsFollow
    BY <1>8, GrantsStay DEF Pay, BenefitsStand
  <2>2. node'[n].at = "finish" /\ node'[n].g = g /\ node'[n].op = node[n].op /\ node'[n].todo = node[n].todo /\ node'[n].seen = node[n].seen
    BY <1>1, <1>2, <2>1 DEF Goto, Session
  <2>3. CycleStands(n)' /\ Reserves(n)' /\ Delivers(n)'
    BY <1>1, <1>2, <1>8, <2>1, <2>2 DEF SessionOnce, CycleStands, Reserves, Delivers, OnCycle, At
  <2> QED
    BY <1>4, <2>1, <2>2, <2>3, OnceGoes
<1> QED
  BY <1>2, <1>3, <1>5, <1>6, <1>7, <1>8 DEF DeliverStep, DeliverDropped, deliver_access, deliver_credit, deliver_product, DeliverFinish

LEMMA OnceStep == OneAtWork /\ TypeInv /\ OnceIInv /\ HandsOverWhole /\ [Next]_vars => OnceIInv'
<1> SUFFICES ASSUME OneAtWork, TypeInv, OnceIInv, HandsOverWhole, [Next]_vars PROVE OnceIInv'
  OBVIOUS
<1>1. CASE UNCHANGED vars
  BY <1>1, GrantsStay, OnceWaits DEF vars, BenefitsStand, HoldersStand
<1>2. CASE \E n \in Node : Paying(n)
  BY <1>2, OncePaid
<1>3. CASE UNCHANGED delivered
  <2>1. CASE Tick
    BY <2>1, GrantsStay, OnceWaits DEF Tick, BenefitsStand, HoldersStand
  <2>2. ASSUME NEW g \in DOMAIN grants, Abandon(g) PROVE OnceIInv'
    <3> DEFINE new == [grants[g] EXCEPT !.stale = TRUE]
    <3>1. grants[g] \in GrantRow /\ grants \in [DOMAIN grants -> GrantRow]
      BY DEF TypeInv, TypeOK
    <3>2. Follows(new, grants[g]) /\ (Unfinished(grants[g]) => Unfinished(new))
      BY <3>1 DEF Follows, Unfinished, GrantRow
    <3>3. Write(g, new) /\ UNCHANGED <<sub, benefit, node, delivered>>
      BY <2>2 DEF Abandon
    <3> HIDE DEF new
    <3>4. grants'[g] = new /\ \A x \in DOMAIN grants : x # g => grants'[x] = grants[x]
      BY <3>1, <3>3 DEF Write
    <3>5. GrantsFollow /\ BenefitsStand /\ HoldersStand
      BY <3>2, <3>3, GrantWritten DEF BenefitsStand, HoldersStand
    <3> QED
      BY <3>2, <3>3, <3>4, <3>5, OnceWaits
  <2>3. ASSUME NEW n \in Node, HandOverRelease(n) \/ RenewActivate(n) PROVE OnceIInv'
    <3>1. node[n].at \in {"release", "activate"} /\ node[n].sub \in Sub
      BY <2>3 DEF HandOverRelease, RenewActivate, At, TypeInv, SessionOK
    <3>2. sub[node[n].sub].plan \in Plan
      BY <3>1 DEF TypeInv, TypeOK, SubRow
    <3> QED
      BY <2>3, <3>1, <3>2, OnceReleases, OnceActivates DEF HandOverRelease, RenewActivate, At
  <2>4. CASE Ask \/ Die
    BY <2>4, OnceAsked
  <2> QED
    BY <1>3, <2>1, <2>2, <2>3, <2>4, <1>1, OnceChosen, OnceCycle, OnceRetried, OnceDelivered DEF Next, Run, Work, RenewStep
<1> QED
  BY <1>2, <1>3, DeliveredStep

LEMMA OnceBegins == Init => OnceIInv
BY DEF Init, OnceIInv, RowsOnce, GrantsBehind, Reserved, OneReservation, OncePerUserPaysOnce, SessionOnce, BatchStands, CycleStands, Reserves, Delivers, OnCycle, Idle

\* One session at work, which may die anywhere but between the two commits of hand_over, pays an account a once-per-user benefit once, over any number of
\* subscriptions, users, plans, new cycles and receipts that change hands; with two sessions the retry pass frees the reservation of a delivery in flight.
THEOREM OnceForAnAccount == OneAtWork => (Spec /\ [][HandsOverWhole]_vars => []OncePerUserPaysOnce)
<1> SUFFICES ASSUME OneAtWork PROVE Spec /\ [][HandsOverWhole]_vars => []OncePerUserPaysOnce
  OBVIOUS
<1>1. TypeInv /\ OnceIInv /\ [Next]_vars /\ [HandsOverWhole]_vars => OnceIInv'
  <2>1. CASE UNCHANGED vars
    BY <2>1, GrantsStay, OnceWaits DEF vars, BenefitsStand, HoldersStand
  <2> QED
    BY <2>1, OnceStep
<1>2. OnceIInv => OncePerUserPaysOnce
  BY DEF OnceIInv, RowsOnce
<1> QED
  BY <1>1, <1>2, OnceBegins, TypeInit, TypeStep, PTL DEF Spec

=============================================================================
