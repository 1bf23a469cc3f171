------------------------ MODULE ReconciliationProofs ------------------------
(***************************************************************************)
(* Theorems about Reconciliation: for any number of accounts, products,    *)
(* rows and sessions, the service keeps what NewestWord promises of        *)
(* subscription.stated_at, and a receipt that moves opens no cycle twice.  *)
(***************************************************************************)
EXTENDS Reconciliation, FiniteSetTheorems, TLAPS

-----------------------------------------------------------------------------
(* The inductive invariant.                                                *)

\* What a gateway of this kind holds: it calls a purchase only by its own words.
LineOf == [ext : Nat, raw : IF kind = "stated" THEN Stated ELSE Queried, period : Nat]

Speaking == {"asked", "read", "settle", "again", "carry", "receipt", "release"}
OnRow == {"again", "carry", "receipt", "release"}

Work == [at : Places, notice : SubscriptionNotice \cup {None}, users : Seq(User), user : User \cup {None}, stamp : Nat \cup {None},
         held : SUBSET ProviderPurchase, ours : SUBSET (Product \X Row), p : ProviderPurchase \cup {None}, row : Row \cup {None},
         previous : User \cup {None}]

\* The gateway, its clock and its notices.
GatewayShape ==
  /\ kind \in GatewayKinds /\ clock \in Nat /\ changes \in Nat /\ window \subseteq User
  /\ gatewayHolds \in [User -> [Product -> LineOf \cup {None}]]
  /\ notices \subseteq SubscriptionNotice
  /\ \A n \in notices : n.users # <<>> /\ (kind = "stated" => n.product \in Product /\ n.line \in LineOf)

RowsShape == rows \in [Row -> SubscriptionRow \cup {None}]

WorkShape == work \in [Session -> Work]

\* What one session relies on: who it speaks of and when that was said, the rows it listed, and the one it has its hand on.
Relies(w, written) ==
  /\ w.at \in Speaking => w.user \in User /\ w.stamp \in Nat
  /\ w.at = "ask" => w.users # <<>>
  /\ w.at \in OnRow => w.p \in ProviderPurchase /\ w.row \in written
  /\ w.at = "receipt" => w.previous # w.user
  /\ \A x \in w.ours : x[2] \in written

SessionsRely == \A s \in Session : Relies(work[s], Written)

\* A receipt is on one row (the unique key of the table).
OneRowPerReceipt == \A r, o \in Written : (rows[r].ext # None /\ rows[r].ext = rows[o].ext) => r = o

Releasing(r) == {s \in Session : work[s].at = "release" /\ work[s].row = r}

\* A cycle that was opened, or that a hand over still owes, is one of the moves of its row.
CyclesOwed == \A r \in Written : IsFiniteSet(Releasing(r)) /\ rows[r].cycle + Cardinality(Releasing(r)) <= rows[r].moves

RowsCore == RowsShape /\ OneRowPerReceipt

ReconciliationIInv == GatewayShape /\ WorkShape /\ RowsCore /\ SessionsRely /\ CyclesOwed

-----------------------------------------------------------------------------
(* What the steps do to the rows.                                          *)

\* What the rows say, as the promise reads them.
Saids == [r \in Row |-> IF rows[r] = None THEN None ELSE Said(rows[r])]

PromiseKept == Promise!Next \/ UNCHANGED Saids

\* No cycle opens without a move, and a row begins without one.
OwesNoMore ==
  /\ \A r \in Written : rows'[r].cycle + rows[r].moves <= rows[r].cycle + rows'[r].moves
  /\ \A r \in Written' \ Written : rows'[r].cycle = 0

\* The rows after a step that keeps what was promised of them.
RowsKept == RowsCore' /\ Written \subseteq Written' /\ PromiseKept /\ OwesNoMore

LEMMA RowOf ==
  ASSUME RowsShape, NEW r \in Written
  PROVE  /\ r \in Row /\ rows[r] \in SubscriptionRow /\ rows[r] # None
         /\ rows[r].user \in User /\ rows[r].product \in Product /\ rows[r].ext \in Nat \cup {None} /\ rows[r].status \in SubscriptionStatus
         /\ rows[r].period \in Nat /\ rows[r].stated \in Nat \cup {None} /\ rows[r].closed \in Nat \cup {None} /\ rows[r].cycle \in Nat /\ rows[r].moves \in Nat
<1>1. r \in Row /\ rows[r] \in SubscriptionRow /\ rows[r] # None
  BY DEF RowsShape, Written
<1>2. QED
  BY <1>1 DEF SubscriptionRow

LEMMA SaidOf ==
  ASSUME NEW row \in SubscriptionRow
  PROVE  /\ Said(row) \in Saying /\ Said(row) # None
         /\ Said(row).user = row.user /\ Said(row).receipt = row.ext /\ Said(row).product = row.product /\ Said(row).period = row.period
         /\ Said(row).status = row.status /\ Said(row).at = row.stated
<1>1. Said(row) \in Saying
  BY DEF Said, SubscriptionRow, Saying
<1>2. QED
  BY <1>1, ReconciliationAssumption DEF Said

\* A write on one row leaves the others.
LEMMA PutRow ==
  ASSUME RowsShape, NEW r \in Row, NEW new \in SubscriptionRow, Put(r, new)
  PROVE  /\ RowsShape' /\ rows'[r] = new /\ (\A o \in Row : o # r => rows'[o] = rows[o])
         /\ Written' = Written \cup {r}
         /\ Saids' = [Saids EXCEPT ![r] = Said(new)]
<1>1. new # None
  BY ReconciliationAssumption
<1>2. RowsShape' /\ rows'[r] = new /\ (\A o \in Row : o # r => rows'[o] = rows[o])
  BY DEF RowsShape, Put
<1>3. Written' = Written \cup {r}
  BY <1>1, <1>2 DEF Written
<1>4. Saids' = [Saids EXCEPT ![r] = Said(new)]
  BY <1>1, <1>2 DEF Saids
<1>5. QED
  BY <1>2, <1>3, <1>4

\* The row was moved by a word no older than the last one it heard.
LEMMA WordHeard ==
  ASSUME RowsCore, NEW r \in Written, NEW new \in SubscriptionRow, Put(r, new),
         new.user = rows[r].user, new.stated \in Nat, rows[r].stated = None \/ rows[r].stated <= new.stated,
         new.ext = rows[r].ext \/ \A o \in Written : o # r => rows[o].ext # new.ext,
         new.cycle + rows[r].moves <= rows[r].cycle + new.moves
  PROVE  RowsKept /\ Written' = Written
<1>1. r \in Row /\ rows[r] \in SubscriptionRow /\ rows[r] # None /\ rows[r].stated \in Nat \cup {None}
  BY RowOf DEF RowsCore
<1>2. /\ RowsShape' /\ rows'[r] = new /\ (\A o \in Row : o # r => rows'[o] = rows[o])
      /\ Written' = Written /\ Saids' = [Saids EXCEPT ![r] = Said(new)]
  BY <1>1, PutRow DEF RowsCore
<1>3. OneRowPerReceipt'
  BY <1>1, <1>2 DEF RowsCore, OneRowPerReceipt, Written
<1>4. Promise!Next
  <2>1. Saids[r] = Said(rows[r]) /\ Saids'[r] = Said(new) /\ (\A o \in Row \ {r} : Saids'[o] = Saids[o]) /\ DOMAIN Saids' = Row
    BY <1>1, <1>2 DEF Saids
  <2>2. Promise!Older(new.stated, rows[r].stated) => FALSE
    BY <1>1, ReconciliationAssumption DEF Promise!Older
  <2>3. Promise!Newer(r) /\ Saids'[r].at # None
    BY <1>1, <2>1, <2>2, SaidOf, ReconciliationAssumption DEF Promise!Newer, Saids
  <2>4. Promise!Word(r)
    BY <2>1, <2>3 DEF Promise!Word, Promise!Unmoved, Saids
  <2>5. QED
    BY <1>1, <2>1, <2>4 DEF Promise!Next, Saids
<1>5. OwesNoMore
  <2> SUFFICES ASSUME NEW o \in Written PROVE rows'[o].cycle + rows[o].moves <= rows[o].cycle + rows'[o].moves
    BY <1>2 DEF OwesNoMore
  <2>1. CASE o = r
    BY <1>2, <2>1
  <2>2. CASE o # r
    BY <1>2, <2>2, RowOf DEF RowsCore
  <2>3. QED
    BY <2>1, <2>2
<1>6. QED
  BY <1>2, <1>3, <1>4, <1>5 DEF RowsKept, RowsCore, PromiseKept

\* A step that leaves the rows, or what nobody was told, keeps the promise.
LEMMA RowsStill ==
  ASSUME RowsCore, UNCHANGED rows
  PROVE  RowsKept /\ Written' = Written
<1>1. Written' = Written /\ UNCHANGED Saids /\ RowsCore'
  BY DEF Written, Saids, RowsCore, RowsShape, OneRowPerReceipt
<1>2. OwesNoMore
  <2> SUFFICES ASSUME NEW o \in Written PROVE rows'[o].cycle + rows[o].moves <= rows[o].cycle + rows'[o].moves
    BY <1>1 DEF OwesNoMore
  <2>1. QED
    BY RowOf DEF RowsCore
<1>3. QED
  BY <1>1, <1>2 DEF RowsKept, PromiseKept

\* What a row says that lost its receipt and ended.
LEMMA SaidEnded ==
  ASSUME NEW row, NEW ended, ended.user = row.user, ended.product = row.product, ended.period = row.period, ended.stated = row.stated,
         ended.ext = None, ended.status = "EXPIRED"
  PROVE  Said(ended) = [Said(row) EXCEPT !.receipt = None, !.status = "EXPIRED"]
<1> DEFINE new == [Said(row) EXCEPT !.receipt = None, !.status = "EXPIRED"]
<1>1. /\ new = [i \in {"user", "receipt", "product", "period", "status", "at"} |-> new[i]]
      /\ new.user = row.user /\ new.receipt = None /\ new.product = row.product /\ new.period = row.period /\ new.status = "EXPIRED" /\ new.at = row.stated
  BY DEF Said
<1> HIDE DEF new
<1>2. Said(ended) = new
  BY <1>1 DEF Said
<1>3. QED
  BY <1>2 DEF new

\* A receipt moved inside its account, and the row that carried it ended.
LEMMA ReceiptAdopted ==
  ASSUME RowsCore, NEW r \in Written, NEW o \in Written, o # r, NEW new \in SubscriptionRow, NEW ended \in SubscriptionRow,
         rows' = [h \in Row |-> IF h = r THEN new ELSE IF h = o THEN ended ELSE rows[h]],
         new.user = rows[r].user, new.stated \in Nat, rows[r].stated = None \/ rows[r].stated <= new.stated,
         rows[o].user = rows[r].user, rows[o].ext \in Nat, new.ext = rows[o].ext,
         new.cycle + rows[r].moves <= rows[r].cycle + new.moves,
         ended.user = rows[o].user, ended.product = rows[o].product, ended.period = rows[o].period, ended.stated = rows[o].stated,
         ended.cycle = rows[o].cycle, ended.moves = rows[o].moves, ended.ext = None, ended.status = "EXPIRED"
  PROVE  RowsKept /\ Written' = Written
<1>1. /\ r \in Row /\ rows[r] \in SubscriptionRow /\ rows[r] # None /\ rows[r].stated \in Nat \cup {None}
      /\ o \in Row /\ rows[o] \in SubscriptionRow /\ rows[o] # None
  BY RowOf DEF RowsCore
<1>2. /\ rows'[r] = new /\ rows'[o] = ended /\ (\A h \in Row : h # r /\ h # o => rows'[h] = rows[h])
      /\ new # None /\ ended # None /\ RowsShape'
  BY <1>1, ReconciliationAssumption DEF RowsCore, RowsShape
<1>3. Written' = Written
  BY <1>1, <1>2 DEF Written
<1>4. OneRowPerReceipt'
  <2> SUFFICES ASSUME NEW h \in Written, NEW g \in Written, rows'[h].ext # None, rows'[h].ext = rows'[g].ext PROVE h = g
    BY <1>3 DEF OneRowPerReceipt
  <2>1. h # o /\ g # o /\ h \in Row /\ g \in Row
    BY <1>2 DEF Written
  <2>2. CASE h = r
    <3>1. CASE g # r
      <4>1. rows[g].ext = rows[o].ext /\ rows[o].ext # None
        BY <1>2, <2>1, <2>2, <3>1, ReconciliationAssumption
      <4>2. QED
        BY <2>1, <4>1 DEF RowsCore, OneRowPerReceipt
    <3>2. QED
      BY <2>2, <3>1
  <2>3. CASE g = r
    <3>1. CASE h # r
      <4>1. rows[h].ext = rows[o].ext /\ rows[o].ext # None
        BY <1>2, <2>1, <2>3, <3>1, ReconciliationAssumption
      <4>2. QED
        BY <2>1, <4>1 DEF RowsCore, OneRowPerReceipt
    <3>2. QED
      BY <2>3, <3>1
  <2>4. CASE h # r /\ g # r
    BY <1>2, <2>1, <2>4 DEF RowsCore, OneRowPerReceipt
  <2>5. QED
    BY <2>2, <2>3, <2>4
<1>5. Promise!Next
  <2>1. /\ Saids[r] = Said(rows[r]) /\ Saids'[r] = Said(new) /\ Saids[o] = Said(rows[o]) /\ Saids'[o] = Said(ended)
        /\ (\A h \in Row \ {r, o} : Saids'[h] = Saids[h]) /\ DOMAIN Saids' = Row
    BY <1>1, <1>2 DEF Saids
  <2>2. Promise!Older(new.stated, rows[r].stated) => FALSE
    BY <1>1, ReconciliationAssumption DEF Promise!Older
  <2>3. Promise!Newer(r)
    BY <1>1, <2>1, <2>2, SaidOf, ReconciliationAssumption DEF Promise!Newer, Saids
  <2>4. Saids'[o] = [Saids[o] EXCEPT !.receipt = None, !.status = Saids'[o].status]
    <3>1. Said(ended) = [Said(rows[o]) EXCEPT !.receipt = None, !.status = "EXPIRED"]
      BY SaidEnded
    <3>2. Said(ended).status = "EXPIRED"
      BY SaidOf
    <3>3. QED
      BY <2>1, <3>1, <3>2
  <2>5. Saids[o] # None /\ Saids[o].user = Saids[r].user /\ Saids[o].receipt = Saids'[r].receipt /\ Saids'[o].status \notin ELIGIBLE_SUBSCRIPTION_STATUSES
    BY <1>1, <2>1, SaidOf DEF ELIGIBLE_SUBSCRIPTION_STATUSES
  <2>6. Promise!Adopted(r, o)
    BY <2>1, <2>3, <2>4, <2>5 DEF Promise!Adopted, Promise!Unmoved, Saids
  <2>7. QED
    BY <1>1, <2>1, <2>6 DEF Promise!Next, Saids
<1>6. OwesNoMore
  <2> SUFFICES ASSUME NEW h \in Written PROVE rows'[h].cycle + rows[h].moves <= rows[h].cycle + rows'[h].moves
    BY <1>3 DEF OwesNoMore
  <2>1. rows[h].cycle \in Nat /\ rows[h].moves \in Nat /\ h \in Row
    BY RowOf DEF RowsCore
  <2>2. CASE h = r
    BY <1>2, <2>2
  <2>3. CASE h # r
    BY <1>2, <2>1, <2>3
  <2>4. QED
    BY <2>2, <2>3
<1>7. QED
  BY <1>2, <1>3, <1>4, <1>5, <1>6 DEF RowsKept, RowsCore, PromiseKept

\* The first word of a receipt nobody here carries.
LEMMA FirstHeard ==
  ASSUME RowsCore, NEW r \in Row \ Written, NEW new \in SubscriptionRow, Put(r, new),
         \A o \in Written : rows[o].ext # new.ext, new.cycle = 0
  PROVE  RowsKept /\ Written' = Written \cup {r}
<1>1. /\ RowsShape' /\ rows'[r] = new /\ (\A o \in Row : o # r => rows'[o] = rows[o])
      /\ Written' = Written \cup {r} /\ Saids' = [Saids EXCEPT ![r] = Said(new)] /\ rows[r] = None
  BY PutRow DEF RowsCore, Written
<1>2. OneRowPerReceipt'
  BY <1>1 DEF RowsCore, OneRowPerReceipt, Written
<1>3. Promise!Next
  <2>1. Saids[r] = None /\ Saids'[r] = Said(new) /\ (\A o \in Row \ {r} : Saids'[o] = Saids[o]) /\ DOMAIN Saids' = Row
    BY <1>1 DEF Saids
  <2>2. Promise!First(r)
    BY <2>1, SaidOf DEF Promise!First, Promise!Unmoved, Saids
  <2>3. QED
    BY <2>1, <2>2 DEF Promise!Next, Saids
<1>4. OwesNoMore
  <2>1. ASSUME NEW o \in Written PROVE rows'[o].cycle + rows[o].moves <= rows[o].cycle + rows'[o].moves
    <3>1. rows'[o] = rows[o]
      BY <1>1, RowOf DEF RowsCore
    <3>2. QED
      BY <3>1, RowOf DEF RowsCore
  <2>2. QED
    BY <1>1, <2>1 DEF OwesNoMore
<1>5. QED
  BY <1>1, <1>2, <1>3, <1>4 DEF RowsKept, RowsCore, PromiseKept

\* What no gateway dates: a receipt passed to another account, a period that ran out.
LEMMA Undated ==
  ASSUME RowsCore, NEW r \in Written, NEW new \in SubscriptionRow, Put(r, new), new.ext = rows[r].ext, new.stated = rows[r].stated,
         \/ new.user # rows[r].user
         \/ /\ rows[r].status \in ELIGIBLE_SUBSCRIPTION_STATUSES /\ new.status \notin ELIGIBLE_SUBSCRIPTION_STATUSES
            /\ new.user = rows[r].user /\ new.product = rows[r].product /\ new.period = rows[r].period
         \/ Said(new) = Said(rows[r])
  PROVE  RowsCore' /\ Written' = Written /\ PromiseKept
<1>1. r \in Row /\ rows[r] \in SubscriptionRow /\ rows[r] # None
  BY RowOf DEF RowsCore
<1>2. /\ RowsShape' /\ rows'[r] = new /\ (\A o \in Row : o # r => rows'[o] = rows[o])
      /\ Written' = Written /\ Saids' = [Saids EXCEPT ![r] = Said(new)]
  BY <1>1, PutRow DEF RowsCore
<1>3. OneRowPerReceipt'
  BY <1>1, <1>2 DEF RowsCore, OneRowPerReceipt, Written
<1>4. Saids[r] = Said(rows[r]) /\ Saids'[r] = Said(new) /\ (\A o \in Row \ {r} : Saids'[o] = Saids[o]) /\ DOMAIN Saids' = Row
  BY <1>1, <1>2 DEF Saids
<1>5. CASE new.user # rows[r].user
  <2>1. Promise!PassedOn(r)
    BY <1>1, <1>4, <1>5, SaidOf DEF Promise!PassedOn, Promise!Unmoved, Saids
  <2>2. QED
    BY <1>1, <1>2, <1>3, <1>4, <2>1 DEF Promise!Next, Saids, PromiseKept, RowsCore
<1>6. CASE /\ rows[r].status \in ELIGIBLE_SUBSCRIPTION_STATUSES /\ new.status \notin ELIGIBLE_SUBSCRIPTION_STATUSES
           /\ new.user = rows[r].user /\ new.product = rows[r].product /\ new.period = rows[r].period
  <2>1. Said(new) = [Said(rows[r]) EXCEPT !.status = new.status]
    BY <1>6 DEF Said
  <2>2. Promise!RanOut(r)
    BY <1>1, <1>4, <1>6, <2>1, SaidOf DEF Promise!RanOut, Promise!Unmoved, Saids
  <2>3. QED
    BY <1>1, <1>2, <1>3, <1>4, <2>2 DEF Promise!Next, Saids, PromiseKept, RowsCore
<1>7. CASE Said(new) = Said(rows[r])
  <2>1. UNCHANGED Saids
    BY <1>1, <1>2, <1>4, <1>7 DEF Saids
  <2>2. QED
    BY <1>2, <1>3, <2>1 DEF PromiseKept, RowsCore
<1>8. QED
  BY <1>5, <1>6, <1>7

-----------------------------------------------------------------------------
(* What the words write on a row.                                          *)

LEMMA PurchaseOf ==
  ASSUME NEW p \in ProviderPurchase
  PROVE  p.ext \in Nat /\ p.ext # None /\ p.product \in Product /\ p.period \in Nat /\ status_of(p) \in SubscriptionStatus
<1>1. p.ext \in Nat /\ p.product \in Product /\ p.period \in Nat /\ p.status \in SubscriptionStatus \cup {None}
  BY DEF ProviderPurchase
<1>2. QED
  BY <1>1, ReconciliationAssumption DEF status_of, SubscriptionStatus

LEMMA StampedRow ==
  ASSUME NEW row \in SubscriptionRow, NEW stamp \in Nat
  PROVE  /\ Stamped(row, stamp) \in SubscriptionRow /\ Stamped(row, stamp).stated = stamp
         /\ Stamped(row, stamp).user = row.user /\ Stamped(row, stamp).product = row.product /\ Stamped(row, stamp).ext = row.ext
         /\ Stamped(row, stamp).status = row.status /\ Stamped(row, stamp).cycle = row.cycle /\ Stamped(row, stamp).moves = row.moves
<1>1. Stamped(row, stamp) = [row EXCEPT !.stated = stamp]
  BY ReconciliationAssumption DEF Stamped
<1>2. QED
  BY <1>1 DEF SubscriptionRow

LEMMA ClosedRow ==
  ASSUME NEW row \in SubscriptionRow, NEW status \in SubscriptionStatus, clock \in Nat
  PROVE  /\ close(row, status) \in SubscriptionRow /\ close(row, status).status = status
         /\ close(row, status).user = row.user /\ close(row, status).product = row.product /\ close(row, status).ext = row.ext
         /\ close(row, status).period = row.period /\ close(row, status).stated = row.stated
         /\ close(row, status).cycle = row.cycle /\ close(row, status).moves = row.moves
<1>1. CASE row.status = status
  BY <1>1 DEF close
<1>2. CASE row.status # status
  <2>1. close(row, status) = [row EXCEPT !.status = status, !.closed = clock]
    BY <1>2 DEF close
  <2>2. QED
    BY <2>1 DEF SubscriptionRow
<1>3. QED
  BY <1>1, <1>2

LEMMA CarriedRow ==
  ASSUME NEW row \in SubscriptionRow, NEW p \in ProviderPurchase
  PROVE  /\ carry(row, p) \in SubscriptionRow
         /\ carry(row, p).user = row.user /\ carry(row, p).product = row.product /\ carry(row, p).ext = row.ext /\ carry(row, p).stated = row.stated
         /\ carry(row, p).cycle = row.cycle /\ carry(row, p).moves = row.moves
<1>1. p.period \in Nat /\ status_of(p) \in SubscriptionStatus
  BY PurchaseOf
<1>2. QED
  BY <1>1 DEF carry, SubscriptionRow

-----------------------------------------------------------------------------
(* Where a session goes.                                                   *)

Goes(s) == \E new \in Work : Keep(s, new) /\ Relies(new, Written') /\ new.at # "release"

LEMMA WorkOf ==
  ASSUME WorkShape, NEW s \in Session
  PROVE  /\ work[s] \in Work /\ work[s].at \in Places /\ work[s].notice \in SubscriptionNotice \cup {None} /\ work[s].users \in Seq(User)
         /\ work[s].user \in User \cup {None} /\ work[s].stamp \in Nat \cup {None} /\ work[s].held \subseteq ProviderPurchase
         /\ work[s].ours \subseteq Product \X Row /\ work[s].p \in ProviderPurchase \cup {None} /\ work[s].row \in Row \cup {None}
<1>1. work[s] \in Work
  BY DEF WorkShape
<1>2. QED
  BY <1>1 DEF Work

LEMMA GoesThrough ==
  ASSUME WorkShape, NEW s \in Session, Relies(work[s], Written), work[s].at \in Speaking, Written \subseteq Written', NEW p, NEW r, Keep(s, Through(s, p, r))
  PROVE  Goes(s)
<1> DEFINE new == Through(s, p, r)
<1>1. /\ new \in Work /\ new.at = "settle" /\ new.user = work[s].user /\ new.stamp = work[s].stamp /\ new.ours \subseteq work[s].ours
  BY WorkOf DEF Through, Work, Places
<1>2. Relies(new, Written')
  BY <1>1 DEF Relies, Speaking, OnRow
<1>3. QED
  BY <1>1, <1>2 DEF Goes

LEMMA IdleWork == Idle \in Work /\ Idle.at = "idle" /\ Idle.ours = {} /\ Idle.held = {}
BY DEF Idle, Work, Places

LEMMA GoesIdle ==
  ASSUME NEW s \in Session, Keep(s, Idle)
  PROVE  Goes(s)
BY IdleWork DEF Goes, Relies, Speaking, OnRow

\* A session takes its hand to a row.
LEMMA GoesOn ==
  ASSUME WorkShape, NEW s \in Session, Relies(work[s], Written), work[s].at \in Speaking, Written \subseteq Written',
         NEW p \in ProviderPurchase, NEW r \in Written, NEW at \in {"again", "carry"},
         Keep(s, [work[s] EXCEPT !.at = at, !.p = p, !.row = r])
  PROVE  Goes(s)
<1> DEFINE new == [work[s] EXCEPT !.at = at, !.p = p, !.row = r]
<1>1. r \in Row
  BY DEF Written
<1>2. new \in Work /\ new.at = at /\ new.p = p /\ new.row = r /\ new.user = work[s].user /\ new.stamp = work[s].stamp /\ new.ours = work[s].ours
  BY <1>1, WorkOf DEF Work, Places
<1>3. Relies(new, Written')
  BY <1>2 DEF Relies, Speaking, OnRow
<1>4. QED
  BY <1>2, <1>3 DEF Goes

-----------------------------------------------------------------------------
(* The words, as they are settled.                                         *)

\* align writes one word on the row, and may take the receipt from another row of the account.
LEMMA AlignHeard ==
  ASSUME clock \in Nat, WorkShape, RowsCore, NEW s \in Session, Relies(work[s], Written), work[s].at \in Speaking,
         NEW p \in ProviderPurchase, NEW r \in Written, NEW row \in SubscriptionRow,
         row.user = rows[r].user, row.ext = rows[r].ext, row.stated \in Nat, rows[r].stated = None \/ rows[r].stated <= row.stated,
         row.cycle + rows[r].moves <= rows[r].cycle + row.moves, align(s, p, r, row)
  PROVE  RowsKept /\ Goes(s)
<1> DEFINE holder == {h \in Holder(p) : h # r /\ rows[h].user = row.user}
           foreign == \E h \in Holder(p) : h # r /\ rows[h].user # row.user
<1>1. CASE \E status \in {"REVOKED", "EXPIRED"} : Put(r, close(row, status)) /\ Keep(s, Through(s, p, r))
  <2>1. PICK status \in {"REVOKED", "EXPIRED"} : Put(r, close(row, status)) /\ Keep(s, Through(s, p, r))
    BY <1>1
  <2>2. status \in SubscriptionStatus
    BY DEF SubscriptionStatus
  <2>3. RowsKept /\ Written' = Written
    BY <2>1, <2>2, ClosedRow, WordHeard
  <2>4. QED
    BY <2>1, <2>3, GoesThrough
<1>2. CASE Adopts(s, p, r, row) /\ (holder = {} \/ p.ext = row.ext)
  <2> DEFINE bought == IF foreign THEN row ELSE [row EXCEPT !.ext = p.ext]
             new == carry(bought, p)
  <2>1. Put(r, new) /\ Keep(s, Through(s, p, r))
    BY <1>2 DEF Adopts
  <2>2. /\ bought \in SubscriptionRow /\ bought.user = row.user /\ bought.stated = row.stated /\ bought.cycle = row.cycle /\ bought.moves = row.moves
        /\ bought.ext = row.ext \/ (~foreign /\ bought.ext = p.ext)
    BY PurchaseOf DEF SubscriptionRow
  <2>3. bought.ext = rows[r].ext \/ \A o \in Written : o # r => rows[o].ext # bought.ext
    <3>1. CASE p.ext = row.ext
      BY <2>2, <3>1
    <3>2. CASE holder = {} /\ ~foreign /\ bought.ext = p.ext
      BY <3>2 DEF Holder
    <3>3. QED
      BY <1>2, <2>2, <3>1, <3>2
  <2> HIDE DEF bought
  <2>4. /\ new \in SubscriptionRow /\ new.user = row.user /\ new.stated = row.stated /\ new.cycle = row.cycle /\ new.moves = row.moves
        /\ new.ext = bought.ext
    BY <2>2, CarriedRow
  <2> HIDE DEF new
  <2>5. RowsKept /\ Written' = Written
    BY <2>1, <2>3, <2>4, WordHeard
  <2>6. QED
    BY <2>1, <2>5, GoesThrough
<1>3. CASE Adopts(s, p, r, row) /\ ~(holder = {} \/ p.ext = row.ext)
  <2>1. PICK o \in Written : o # r /\ rows[o].user = row.user /\ rows[o].ext = p.ext /\ p.ext \in Nat /\ o \in Row
    BY <1>3, PurchaseOf DEF Holder, Written
  <2>2. \A h \in Row : (h # r /\ h \in holder) <=> (h # r /\ h = o)
    BY <2>1, PurchaseOf DEF RowsCore, OneRowPerReceipt, Holder
  <2> DEFINE new == [row EXCEPT !.ext = p.ext]
             closed == close(rows[o], "EXPIRED")
             ended == [closed EXCEPT !.ext = None]
  <2>3. new \in SubscriptionRow /\ new.user = row.user /\ new.stated = row.stated /\ new.cycle = row.cycle /\ new.moves = row.moves /\ new.ext = p.ext
    BY PurchaseOf DEF SubscriptionRow
  <2>4. closed \in SubscriptionRow /\ closed.user = rows[o].user /\ closed.product = rows[o].product /\ closed.period = rows[o].period
        /\ closed.stated = rows[o].stated /\ closed.cycle = rows[o].cycle /\ closed.moves = rows[o].moves /\ closed.status = "EXPIRED"
    BY RowOf, ClosedRow DEF RowsCore, SubscriptionStatus
  <2> HIDE DEF closed
  <2>5. ended \in SubscriptionRow /\ ended.user = rows[o].user /\ ended.product = rows[o].product /\ ended.period = rows[o].period
        /\ ended.stated = rows[o].stated /\ ended.cycle = rows[o].cycle /\ ended.moves = rows[o].moves /\ ended.status = "EXPIRED" /\ ended.ext = None
    BY <2>4 DEF SubscriptionRow
  <2>6. rows' = [h \in Row |-> IF h = r THEN new ELSE IF h = o THEN ended ELSE rows[h]]
    <3>1. rows' = [h \in Row |-> IF h = r THEN new ELSE IF h \in holder THEN [close(rows[h], "EXPIRED") EXCEPT !.ext = None] ELSE rows[h]]
      BY <1>3 DEF Adopts
    <3>2. \A h \in Row : (IF h = r THEN new ELSE IF h \in holder THEN [close(rows[h], "EXPIRED") EXCEPT !.ext = None] ELSE rows[h])
                         = (IF h = r THEN new ELSE IF h = o THEN ended ELSE rows[h])
      BY <2>2 DEF closed
    <3>3. QED
      BY <3>1, <3>2
  <2> HIDE DEF new, ended
  <2>7. RowsKept /\ Written' = Written
    BY <2>1, <2>3, <2>5, <2>6, ReceiptAdopted
  <2>8. Keep(s, [work[s] EXCEPT !.at = "carry", !.p = p, !.row = r])
    BY <1>3 DEF Adopts
  <2>9. QED
    BY <2>7, <2>8, GoesOn
<1>4. QED
  BY <1>1, <1>2, <1>3 DEF align

\* hold lets a word take the row only when it is as new as the last one.
LEMMA HoldOf ==
  ASSUME NEW stamp \in Nat, NEW r, hold(r, stamp)
  PROVE  rows[r].stated = None \/ rows[r].stated <= stamp
BY ReconciliationAssumption DEF hold

\* The row with the stamp of the word that took it.
LEMMA TakenRow ==
  ASSUME RowsCore, NEW r \in Written, NEW stamp \in Nat, NEW row, row = Stamped(rows[r], stamp)
  PROVE  /\ row \in SubscriptionRow /\ row.user = rows[r].user /\ row.ext = rows[r].ext /\ row.stated = stamp
         /\ row.cycle = rows[r].cycle /\ row.moves = rows[r].moves
         /\ row.cycle + rows[r].moves <= rows[r].cycle + row.moves
<1>1. rows[r] \in SubscriptionRow /\ rows[r].cycle \in Nat /\ rows[r].moves \in Nat
  BY RowOf DEF RowsCore
<1>2. /\ row \in SubscriptionRow /\ row.user = rows[r].user /\ row.ext = rows[r].ext /\ row.stated = stamp
      /\ row.cycle = rows[r].cycle /\ row.moves = rows[r].moves
  BY <1>1, StampedRow
<1>3. row.cycle + rows[r].moves <= rows[r].cycle + row.moves
  BY <1>1, <1>2
<1>4. QED
  BY <1>2, <1>3

LEMMA SettleKeeps ==
  ASSUME clock \in Nat, WorkShape, RowsCore, NEW s \in Session, Relies(work[s], Written), NEW p \in work[s].held, settle(s, p)
  PROVE  RowsKept /\ Goes(s) /\ work[s].at = "settle"
<1>1. /\ work[s].at = "settle" /\ work[s].at \in Speaking /\ p \in ProviderPurchase /\ p.product \in Product
      /\ work[s].stamp \in Nat
  BY WorkOf, PurchaseOf DEF settle, InSettle, Speaking, Relies
<1>2. PICK r \in Matches(s, p) :
       LET row == Stamped(rows[r], work[s].stamp)
           to == [row EXCEPT !.product = p.product, !.moves = @ + 1]
       IN IF ~hold(r, work[s].stamp) THEN UNCHANGED rows /\ Keep(s, Through(s, p, r))
          ELSE IF status_of(p) = "PENDING" /\ row.status # "PENDING" THEN Put(r, row) /\ Keep(s, Through(s, p, r))
          ELSE IF p.product = row.product THEN align(s, p, r, row)
          ELSE IF Taken(r, row.user, p.product) THEN Raises(s)
          ELSE IF p.product \notin NewCycle THEN align(s, p, r, to)
          ELSE Put(r, [to EXCEPT !.cycle = @ + 1]) /\ Keep(s, [work[s] EXCEPT !.at = "again", !.p = p, !.row = r])
  BY DEF settle
<1>3. r \in Written
  BY DEF Matches, Holder
<1> DEFINE row == Stamped(rows[r], work[s].stamp)
           to == [row EXCEPT !.product = p.product, !.moves = @ + 1]
           new == [to EXCEPT !.cycle = @ + 1]
<1>4. /\ row \in SubscriptionRow /\ row.user = rows[r].user /\ row.ext = rows[r].ext /\ row.stated = work[s].stamp
      /\ row.cycle = rows[r].cycle /\ row.moves = rows[r].moves /\ row.cycle + rows[r].moves <= rows[r].cycle + row.moves
  BY <1>1, <1>3, TakenRow
<1>5. CASE UNCHANGED rows /\ Keep(s, Through(s, p, r))
  BY <1>1, <1>5, RowsStill, GoesThrough
<1>6. CASE hold(r, work[s].stamp) /\ Put(r, row) /\ Keep(s, Through(s, p, r))
  <2> HIDE DEF row
  <2>1. rows[r].stated = None \/ rows[r].stated <= row.stated
    BY <1>1, <1>4, <1>6, HoldOf
  <2>2. RowsKept /\ Written' = Written
    BY <1>1, <1>3, <1>4, <1>6, <2>1, WordHeard
  <2>3. QED
    BY <1>1, <1>6, <2>2, GoesThrough
<1>7. CASE hold(r, work[s].stamp) /\ align(s, p, r, row)
  <2> HIDE DEF row
  <2>1. rows[r].stated = None \/ rows[r].stated <= row.stated
    BY <1>1, <1>4, <1>7, HoldOf
  <2>2. QED
    BY <1>1, <1>3, <1>4, <1>7, <2>1, AlignHeard
<1>8. CASE Raises(s)
  BY <1>1, <1>8, RowsStill, GoesIdle DEF Raises
<1>9. /\ to \in SubscriptionRow /\ to.user = rows[r].user /\ to.ext = rows[r].ext /\ to.stated = work[s].stamp
      /\ to.cycle = rows[r].cycle /\ to.moves = rows[r].moves + 1 /\ to.cycle + rows[r].moves <= rows[r].cycle + to.moves
  <2> HIDE DEF row
  <2>1. row.moves + 1 \in Nat /\ rows[r].moves \in Nat /\ rows[r].cycle \in Nat
    BY <1>3, <1>4, RowOf DEF RowsCore
  <2>2. /\ to \in SubscriptionRow /\ to.user = row.user /\ to.ext = row.ext /\ to.stated = row.stated
        /\ to.cycle = row.cycle /\ to.moves = row.moves + 1
    BY <1>1, <1>4, <2>1 DEF SubscriptionRow
  <2>3. QED
    BY <1>4, <2>1, <2>2
<1>10. CASE hold(r, work[s].stamp) /\ align(s, p, r, to)
  <2> HIDE DEF to
  <2>1. rows[r].stated = None \/ rows[r].stated <= to.stated
    BY <1>1, <1>9, <1>10, HoldOf
  <2>2. QED
    BY <1>1, <1>3, <1>9, <1>10, <2>1, AlignHeard
<1>11. CASE hold(r, work[s].stamp) /\ Put(r, new) /\ Keep(s, [work[s] EXCEPT !.at = "again", !.p = p, !.row = r])
  <2> HIDE DEF to
  <2>1. rows[r].moves \in Nat /\ rows[r].cycle \in Nat /\ to.cycle + 1 \in Nat
    BY <1>3, <1>9, RowOf DEF RowsCore
  <2>2. new \in SubscriptionRow /\ new.user = to.user /\ new.ext = to.ext /\ new.stated = to.stated /\ new.cycle = to.cycle + 1 /\ new.moves = to.moves
    BY <1>9, <2>1 DEF SubscriptionRow
  <2>3. new.cycle + rows[r].moves <= rows[r].cycle + new.moves
    BY <1>9, <2>1, <2>2
  <2>4. rows[r].stated = None \/ rows[r].stated <= new.stated
    BY <1>1, <1>9, <1>11, <2>2, HoldOf
  <2> HIDE DEF new
  <2>5. RowsKept /\ Written' = Written
    BY <1>1, <1>3, <1>9, <1>11, <2>2, <2>3, <2>4, WordHeard
  <2>6. QED
    BY <1>1, <1>3, <1>11, <2>5, GoesOn
<1>12. QED
  BY <1>2, <1>5, <1>6, <1>7, <1>8, <1>10, <1>11

\* A word that let go of its row takes it again.
LEMMA HeldAgainKeeps ==
  ASSUME clock \in Nat, WorkShape, RowsCore, NEW s \in Session, Relies(work[s], Written), HoldAgain(s) \/ HoldAndCarry(s)
  PROVE  RowsKept /\ Goes(s) /\ work[s].at # "release"
<1>1. work[s].at \in {"again", "carry"}
  BY DEF HoldAgain, HoldAndCarry
<1>2. PICK r \in Written, p \in ProviderPurchase : r = work[s].row /\ p = work[s].p
  BY <1>1 DEF Relies, OnRow
<1>3. work[s].at \in Speaking /\ work[s].stamp \in Nat /\ work[s].at # "release"
  BY <1>1 DEF Relies, Speaking
<1> DEFINE row == Stamped(rows[r], work[s].stamp)
           new == carry(row, p)
<1>4. \/ UNCHANGED rows /\ Keep(s, Through(s, p, r))
      \/ hold(r, work[s].stamp) /\ align(s, p, r, row)
      \/ hold(r, work[s].stamp) /\ Put(r, new) /\ Keep(s, Through(s, p, r))
  BY <1>2 DEF HoldAgain, HoldAndCarry
<1>5. /\ row \in SubscriptionRow /\ row.user = rows[r].user /\ row.ext = rows[r].ext /\ row.stated = work[s].stamp
      /\ row.cycle = rows[r].cycle /\ row.moves = rows[r].moves /\ row.cycle + rows[r].moves <= rows[r].cycle + row.moves
  BY <1>3, TakenRow
<1> HIDE DEF row
<1>6. CASE UNCHANGED rows /\ Keep(s, Through(s, p, r))
  BY <1>3, <1>6, RowsStill, GoesThrough
<1>7. CASE hold(r, work[s].stamp) /\ align(s, p, r, row)
  <2>1. rows[r].stated = None \/ rows[r].stated <= row.stated
    BY <1>3, <1>5, <1>7, HoldOf
  <2>2. QED
    BY <1>3, <1>5, <1>7, <2>1, AlignHeard
<1>8. CASE hold(r, work[s].stamp) /\ Put(r, new) /\ Keep(s, Through(s, p, r))
  <2>1. new \in SubscriptionRow /\ new.user = row.user /\ new.ext = row.ext /\ new.stated = row.stated /\ new.cycle = row.cycle /\ new.moves = row.moves
    BY <1>5, CarriedRow
  <2> HIDE DEF new
  <2>2. rows[r].stated = None \/ rows[r].stated <= new.stated
    BY <1>3, <1>5, <1>8, <2>1, HoldOf
  <2>3. RowsKept /\ Written' = Written
    BY <1>3, <1>5, <1>8, <2>1, <2>2, WordHeard
  <2>4. QED
    BY <1>3, <1>8, <2>3, GoesThrough
<1>9. QED
  BY <1>4, <1>6, <1>7, <1>8

\* A purchase nobody here has becomes a row, and one somebody has is met.
LEMMA OpenKeeps ==
  ASSUME WorkShape, RowsCore, NEW s \in Session, Relies(work[s], Written), NEW p \in work[s].held, open(s, p)
  PROVE  RowsKept /\ Goes(s) /\ work[s].at # "release"
<1>1. /\ work[s].at = "settle" /\ work[s].at \in Speaking /\ p \in ProviderPurchase /\ p.product \in Product /\ p.ext \in Nat /\ p.ext # None
      /\ work[s].stamp \in Nat /\ work[s].user \in User
  BY WorkOf, PurchaseOf DEF open, InSettle, Speaking, Relies
<1> DEFINE opened == [user |-> work[s].user, product |-> p.product, ext |-> p.ext, status |-> "PENDING", period |-> 0, stated |-> work[s].stamp,
                      closed |-> None, cycle |-> 0, moves |-> 0]
           new == carry(opened, p)
<1>2. \/ UNCHANGED rows /\ Keep(s, Through(s, p, None))
      \/ Raises(s)
      \/ Holder(p) = {} /\ \E r \in Row \ Written : Put(r, new) /\ Keep(s, Through(s, p, r))
  BY DEF open
<1>3. CASE UNCHANGED rows /\ Keep(s, Through(s, p, None))
  BY <1>1, <1>3, RowsStill, GoesThrough
<1>4. CASE Raises(s)
  BY <1>1, <1>4, RowsStill, GoesIdle DEF Raises
<1>5. CASE Holder(p) = {} /\ \E r \in Row \ Written : Put(r, new) /\ Keep(s, Through(s, p, r))
  <2>1. PICK r \in Row \ Written : Put(r, new) /\ Keep(s, Through(s, p, r))
    BY <1>5
  <2>2. opened \in SubscriptionRow /\ opened.ext = p.ext /\ opened.cycle = 0
    BY <1>1 DEF SubscriptionRow, SubscriptionStatus
  <2> HIDE DEF opened
  <2>3. new \in SubscriptionRow /\ new.ext = p.ext /\ new.cycle = 0
    BY <1>1, <2>2, CarriedRow
  <2> HIDE DEF new
  <2>4. \A o \in Written : rows[o].ext # new.ext
    BY <1>5, <2>3 DEF Holder
  <2>5. RowsKept /\ Written \subseteq Written'
    BY <2>1, <2>3, <2>4, FirstHeard
  <2>6. QED
    BY <1>1, <2>1, <2>5, GoesThrough
<1>6. QED
  BY <1>2, <1>3, <1>4, <1>5

LEMMA MeetKeeps ==
  ASSUME WorkShape, RowsCore, NEW s \in Session, Relies(work[s], Written), NEW p \in work[s].held, MeetHolder(s, p)
  PROVE  RowsKept /\ Goes(s) /\ work[s].at # "release"
<1>1. work[s].at = "settle" /\ p \in ProviderPurchase /\ work[s].user \in User /\ work[s].stamp \in Nat /\ UNCHANGED rows /\ Matches(s, p) = {}
  BY WorkOf DEF MeetHolder, InSettle, Speaking, Relies
<1>2. PICK r \in Holder(p) : Keep(s, [work[s] EXCEPT !.at = "receipt", !.p = p, !.row = r, !.previous = rows[r].user])
  BY DEF MeetHolder
<1>3. r \in Written /\ r \in Row /\ rows[r].user \in User
  BY RowOf DEF Holder, RowsCore
<1>4. rows[r].user # work[s].user
  BY <1>1 DEF Matches
<1> DEFINE new == [work[s] EXCEPT !.at = "receipt", !.p = p, !.row = r, !.previous = rows[r].user]
<1>5. new \in Work /\ new.at = "receipt" /\ new.p = p /\ new.row = r /\ new.previous = rows[r].user /\ new.user = work[s].user /\ new.stamp = work[s].stamp /\ new.ours = work[s].ours
  BY <1>1, <1>3, WorkOf DEF Work, Places
<1>6. RowsKept /\ Written' = Written
  BY <1>1, RowsStill
<1> HIDE DEF new
<1>7. Relies(new, Written')
  BY <1>1, <1>3, <1>4, <1>5, <1>6 DEF Relies, Speaking, OnRow
<1>8. QED
  BY <1>1, <1>2, <1>5, <1>6, <1>7 DEF Goes, new

\* A complete answer closes the rows it did not mention.
LEMMA LeftoverKeeps ==
  ASSUME clock \in Nat, WorkShape, RowsCore, NEW s \in Session, Relies(work[s], Written), Leftover(s)
  PROVE  RowsKept /\ Goes(s) /\ work[s].at # "release"
<1>1. work[s].at = "settle" /\ work[s].at \in Speaking /\ work[s].stamp \in Nat
  BY DEF Leftover, Speaking, Relies
<1>2. PICK x \in work[s].ours :
       /\ LET row == Stamped(rows[x[2]], work[s].stamp)
          IN IF ~hold(x[2], work[s].stamp) THEN UNCHANGED rows
             ELSE Put(x[2], IF row.status \in ELIGIBLE_SUBSCRIPTION_STATUSES THEN close(row, "EXPIRED") ELSE row)
       /\ Keep(s, Through(s, None, x[2]))
  BY DEF Leftover
<1>3. PICK r \in Written : r = x[2]
  BY DEF Relies
<1> DEFINE row == Stamped(rows[r], work[s].stamp)
           new == IF row.status \in ELIGIBLE_SUBSCRIPTION_STATUSES THEN close(row, "EXPIRED") ELSE row
<1>4. CASE UNCHANGED rows
  BY <1>1, <1>2, <1>4, RowsStill, GoesThrough
<1>5. CASE hold(r, work[s].stamp) /\ Put(r, new)
  <2>1. /\ row \in SubscriptionRow /\ row.user = rows[r].user /\ row.ext = rows[r].ext /\ row.stated = work[s].stamp
        /\ row.cycle = rows[r].cycle /\ row.moves = rows[r].moves /\ row.cycle + rows[r].moves <= rows[r].cycle + row.moves
    BY <1>1, TakenRow
  <2> HIDE DEF row
  <2>2. new \in SubscriptionRow /\ new.user = row.user /\ new.ext = row.ext /\ new.stated = row.stated /\ new.cycle = row.cycle /\ new.moves = row.moves
    BY <2>1, ClosedRow DEF SubscriptionStatus
  <2> HIDE DEF new
  <2>3. rows[r].stated = None \/ rows[r].stated <= new.stated
    BY <1>1, <1>5, <2>1, <2>2, HoldOf
  <2>4. RowsKept /\ Written' = Written
    BY <1>1, <1>5, <2>1, <2>2, <2>3, WordHeard
  <2>5. QED
    BY <1>1, <1>2, <2>4, GoesThrough
<1>6. QED
  BY <1>2, <1>3, <1>4, <1>5

-----------------------------------------------------------------------------
(* The invariant after a step.                                             *)

\* More rows let a session down in nothing.
LEMMA ReliesStill ==
  ASSUME NEW w, NEW written, NEW more, written \subseteq more, Relies(w, written)
  PROVE  Relies(w, more)
BY DEF Relies

\* Nobody began or ended a hand over, and no row owes more.
LEMMA OwedStill ==
  ASSUME CyclesOwed, SessionsRely, RowsShape, RowsShape', Written \subseteq Written', OwesNoMore,
         \A r \in Written' : Releasing(r)' = Releasing(r)
  PROVE  CyclesOwed'
<1> SUFFICES ASSUME NEW r \in Written'
             PROVE  IsFiniteSet(Releasing(r)) /\ rows'[r].cycle + Cardinality(Releasing(r)) <= rows'[r].moves
  BY DEF CyclesOwed
<1>1. rows'[r].cycle \in Nat /\ rows'[r].moves \in Nat
  <2>1. r \in Row /\ rows'[r] \in SubscriptionRow
    BY DEF RowsShape, Written
  <2>2. QED
    BY <2>1 DEF SubscriptionRow
<1>2. CASE r \in Written
  <2>1. IsFiniteSet(Releasing(r)) /\ rows[r].cycle + Cardinality(Releasing(r)) <= rows[r].moves
    BY <1>2 DEF CyclesOwed
  <2>2. Cardinality(Releasing(r)) \in Nat
    BY <2>1, FS_CardinalityType
  <2>3. rows'[r].cycle + rows[r].moves <= rows[r].cycle + rows'[r].moves
    BY <1>2 DEF OwesNoMore
  <2>4. rows[r].cycle \in Nat /\ rows[r].moves \in Nat
    BY <1>2, RowOf
  <2>5. QED
    BY <1>1, <2>1, <2>2, <2>3, <2>4
<1>3. CASE r \notin Written
  <2>1. Releasing(r) = {}
    BY <1>3 DEF Releasing, SessionsRely, Relies, OnRow
  <2>2. IsFiniteSet(Releasing(r)) /\ Cardinality(Releasing(r)) = 0
    BY <2>1, FS_EmptySet
  <2>3. rows'[r].cycle = 0
    BY <1>3 DEF OwesNoMore
  <2>4. QED
    BY <1>1, <2>2, <2>3
<1>4. QED
  BY <1>2, <1>3

\* A session moved, from a place that owes no cycle to another.
LEMMA SessionWent ==
  ASSUME ReconciliationIInv, GatewayShape', RowsKept, NEW s \in Session, work[s].at # "release", Goes(s)
  PROVE  ReconciliationIInv'
<1>1. PICK new \in Work : Keep(s, new) /\ Relies(new, Written') /\ new.at # "release"
  BY DEF Goes
<1>2. WorkShape' /\ work'[s] = new /\ \A t \in Session : t # s => work'[t] = work[t]
  BY <1>1 DEF ReconciliationIInv, WorkShape, Keep
<1>3. SessionsRely'
  BY <1>1, <1>2, ReliesStill DEF ReconciliationIInv, SessionsRely, RowsKept
<1>4. \A r \in Written' : Releasing(r)' = Releasing(r)
  BY <1>1, <1>2 DEF Releasing
<1>5. CyclesOwed'
  BY <1>4, OwedStill DEF ReconciliationIInv, RowsKept, RowsCore
<1>6. QED
  BY <1>2, <1>3, <1>5 DEF ReconciliationIInv, RowsKept

\* No session moved.
LEMMA SessionsStood ==
  ASSUME ReconciliationIInv, GatewayShape', RowsKept, UNCHANGED work
  PROVE  ReconciliationIInv'
<1>1. WorkShape'
  BY DEF ReconciliationIInv, WorkShape
<1>2. SessionsRely'
  BY ReliesStill DEF ReconciliationIInv, SessionsRely, RowsKept
<1>3. \A r \in Written' : Releasing(r)' = Releasing(r)
  BY DEF Releasing
<1>4. CyclesOwed'
  BY <1>3, OwedStill DEF ReconciliationIInv, RowsKept, RowsCore
<1>5. QED
  BY <1>1, <1>2, <1>4 DEF ReconciliationIInv, RowsKept

\* A step of a session leaves the gateway as it was.
LEMMA GatewayStill ==
  ASSUME GatewayShape, UNCHANGED <<kind, gatewayHolds, changes>>, clock' \in Nat, window' \subseteq User, notices' \subseteq notices
  PROVE  GatewayShape'
BY DEF GatewayShape, LineOf

\* A word settled, opened or held again, and a receipt met.
LEMMA WordStep ==
  ASSUME ReconciliationIInv, NEW s \in Session,
         \/ \E p \in work[s].held : settle(s, p) \/ open(s, p) \/ MeetHolder(s, p)
         \/ HoldAgain(s) \/ HoldAndCarry(s) \/ Leftover(s)
  PROVE  ReconciliationIInv' /\ PromiseKept
<1>1. GatewayShape /\ WorkShape /\ RowsCore /\ Relies(work[s], Written) /\ clock \in Nat
  BY DEF ReconciliationIInv, SessionsRely, GatewayShape
<1>2. GatewayShape'
  <2>1. UNCHANGED <<kind, clock, gatewayHolds, notices, window, changes>>
    BY DEF settle, open, MeetHolder, HoldAgain, HoldAndCarry, Leftover, bounds
  <2>2. QED
    BY <1>1, <2>1, GatewayStill DEF GatewayShape
<1>3. RowsKept /\ Goes(s) /\ work[s].at # "release"
  <2>1. CASE \E p \in work[s].held : settle(s, p)
    BY <1>1, <2>1, SettleKeeps
  <2>2. CASE \E p \in work[s].held : open(s, p)
    BY <1>1, <2>2, OpenKeeps
  <2>3. CASE \E p \in work[s].held : MeetHolder(s, p)
    BY <1>1, <2>3, MeetKeeps
  <2>4. CASE HoldAgain(s) \/ HoldAndCarry(s)
    BY <1>1, <2>4, HeldAgainKeeps
  <2>5. CASE Leftover(s)
    BY <1>1, <2>5, LeftoverKeeps
  <2>6. QED
    BY <2>1, <2>2, <2>3, <2>4, <2>5
<1>4. QED
  BY <1>2, <1>3, SessionWent DEF RowsKept

-----------------------------------------------------------------------------
(* A receipt that passes to another account.                               *)

\* The hand over that lands moves the row, and owes it a cycle.
LEMMA Landed ==
  ASSUME ReconciliationIInv, NEW s \in Session, work[s].at = "receipt", GatewayShape', rows[work[s].row].user = work[s].previous,
         Moved(s, work[s].row), Keep(s, [work[s] EXCEPT !.at = "release"])
  PROVE  ReconciliationIInv' /\ PromiseKept
<1> DEFINE r == work[s].row
           p == work[s].p
           carried == carry(rows[r], p)
           passed == [carried EXCEPT !.user = work[s].user]
           row == [carried EXCEPT !.user = work[s].user, !.moves = IF rows[r].user = work[s].user THEN @ ELSE @ + 1]
           new == [work[s] EXCEPT !.at = "release"]
<1>1. /\ WorkShape /\ RowsCore /\ RowsShape /\ SessionsRely /\ CyclesOwed /\ Relies(work[s], Written) /\ work[s] \in Work
      /\ r \in Written /\ p \in ProviderPurchase /\ work[s].user \in User /\ work[s].stamp \in Nat /\ rows[r].user # work[s].user
  BY DEF ReconciliationIInv, SessionsRely, Relies, Speaking, OnRow, WorkShape, RowsCore
<1>2. rows[r] \in SubscriptionRow /\ rows[r].cycle \in Nat /\ rows[r].moves \in Nat /\ r \in Row
  BY <1>1, RowOf
<1>3. /\ carried \in SubscriptionRow /\ carried.ext = rows[r].ext /\ carried.stated = rows[r].stated
      /\ carried.cycle = rows[r].cycle /\ carried.moves = rows[r].moves
  BY <1>1, <1>2, CarriedRow
<1>4. row = [carried EXCEPT !.user = work[s].user, !.moves = rows[r].moves + 1]
  <2> HIDE DEF r, p
  <2>1. carried.moves = rows[r].moves
    BY <1>3
  <2> HIDE DEF carried
  <2>2. QED
    BY <1>1, <2>1
<1>5. Put(r, row)
  BY DEF Moved
<1> HIDE DEF carried, r, p
<1>6. rows[r].moves + 1 \in Nat
  BY <1>2
<1>7. /\ row \in SubscriptionRow /\ row.user = work[s].user /\ row.ext = rows[r].ext /\ row.stated = rows[r].stated
      /\ row.cycle = rows[r].cycle /\ row.moves = rows[r].moves + 1
  BY <1>1, <1>3, <1>4, <1>6 DEF SubscriptionRow
<1> HIDE DEF row
<1>8. RowsCore' /\ Written' = Written /\ PromiseKept
  BY <1>1, <1>5, <1>7, Undated
<1>9. rows'[r] = row /\ \A o \in Row : o # r => rows'[o] = rows[o]
  BY <1>1, <1>2, <1>5, <1>7, PutRow
<1>10. new \in Work /\ new.at = "release" /\ new.row = r /\ new.p = work[s].p /\ new.user = work[s].user /\ new.stamp = work[s].stamp /\ new.ours = work[s].ours
  BY <1>1 DEF Work, Places, r
<1>11. Keep(s, new)
  OBVIOUS
<1> HIDE DEF new
<1>12. WorkShape' /\ work'[s] = new /\ \A t \in Session : t # s => work'[t] = work[t]
  BY <1>1, <1>10, <1>11 DEF WorkShape, Keep
<1>13. SessionsRely'
  <2>1. Relies(new, Written')
    BY <1>1, <1>8, <1>10 DEF Relies, Speaking, OnRow, p
  <2>2. QED
    BY <1>1, <1>8, <1>12, <2>1 DEF SessionsRely
<1>14. CyclesOwed'
  <2> SUFFICES ASSUME NEW o \in Written
               PROVE  IsFiniteSet(Releasing(o)') /\ rows'[o].cycle + Cardinality(Releasing(o)') <= rows'[o].moves
    BY <1>8 DEF CyclesOwed
  <2>1. IsFiniteSet(Releasing(o)) /\ rows[o].cycle + Cardinality(Releasing(o)) <= rows[o].moves
    BY <1>1 DEF CyclesOwed
  <2>2. Cardinality(Releasing(o)) \in Nat
    BY <2>1, FS_CardinalityType
  <2>3. CASE o = r
    <3>1. Releasing(o)' = Releasing(o) \cup {s} /\ s \notin Releasing(o)
      BY <1>10, <1>12, <2>3 DEF Releasing
    <3>2. IsFiniteSet(Releasing(o)') /\ Cardinality(Releasing(o)') = Cardinality(Releasing(o)) + 1
      BY <2>1, <3>1, FS_AddElement
    <3>3. rows'[o].cycle = rows[o].cycle /\ rows'[o].moves = rows[o].moves + 1
      BY <1>7, <1>9, <2>3
    <3>4. rows[o].cycle \in Nat /\ rows[o].moves \in Nat
      BY <1>1, RowOf
    <3>5. QED
      BY <2>1, <2>2, <3>2, <3>3, <3>4
  <2>4. CASE o # r
    <3>1. Releasing(o)' = Releasing(o)
      BY <1>10, <1>12, <2>4 DEF Releasing
    <3>2. rows'[o] = rows[o]
      BY <1>1, <1>9, <2>4, RowOf
    <3>3. QED
      BY <2>1, <3>1, <3>2
  <2>5. QED
    BY <2>3, <2>4
<1>15. QED
  BY <1>8, <1>12, <1>13, <1>14 DEF ReconciliationIInv

LEMMA HandOverStep ==
  ASSUME ReconciliationIInv, NEW s \in Session, hand_over(s)
  PROVE  ReconciliationIInv' /\ PromiseKept
<1>1. work[s].at = "receipt" /\ work[s].at # "release" /\ work[s].at \in Speaking
  BY DEF hand_over, Speaking
<1>2. GatewayShape'
  <2>1. UNCHANGED <<kind, clock, gatewayHolds, notices, window, changes>>
    BY DEF hand_over, bounds
  <2>2. QED
    BY <2>1, GatewayStill DEF GatewayShape, ReconciliationIInv
<1>3. WorkShape /\ RowsCore /\ Relies(work[s], Written)
  BY DEF ReconciliationIInv, SessionsRely
<1>4. CASE UNCHANGED rows /\ (Raises(s) \/ Keep(s, Through(s, work[s].p, work[s].row)))
  <2>1. RowsKept /\ Written \subseteq Written'
    BY <1>3, <1>4, RowsStill
  <2>2. Goes(s)
    BY <1>1, <1>3, <1>4, <2>1, GoesIdle, GoesThrough DEF Raises
  <2>3. QED
    BY <1>1, <1>2, <2>1, <2>2, SessionWent DEF RowsKept
<1>5. CASE rows[work[s].row].user = work[s].previous /\ Moved(s, work[s].row) /\ Keep(s, [work[s] EXCEPT !.at = "release"])
  BY <1>1, <1>2, <1>5, Landed
<1>6. QED
  BY <1>4, <1>5 DEF hand_over, Raises

\* The cycle that was owed opens.
LEMMA ReleaseStep ==
  ASSUME ReconciliationIInv, NEW s \in Session, HandOverRelease(s)
  PROVE  ReconciliationIInv' /\ PromiseKept
<1> DEFINE r == work[s].row
           row == [rows[r] EXCEPT !.cycle = @ + 1]
           new == Through(s, work[s].p, r)
<1>1. /\ WorkShape /\ RowsCore /\ RowsShape /\ SessionsRely /\ CyclesOwed /\ Relies(work[s], Written)
      /\ work[s].at = "release" /\ work[s].at \in Speaking /\ r \in Written
  BY DEF ReconciliationIInv, SessionsRely, RowsCore, HandOverRelease, Relies, Speaking, OnRow
<1>2. GatewayShape'
  <2>1. UNCHANGED <<kind, clock, gatewayHolds, notices, window, changes>>
    BY DEF HandOverRelease, bounds
  <2>2. QED
    BY <2>1, GatewayStill DEF GatewayShape, ReconciliationIInv
<1>3. rows[r] \in SubscriptionRow /\ rows[r].cycle \in Nat /\ rows[r].moves \in Nat /\ r \in Row /\ rows[r].cycle + 1 \in Nat
  BY <1>1, RowOf
<1>4. Put(r, row) /\ Keep(s, new)
  BY DEF HandOverRelease
<1>5. /\ row \in SubscriptionRow /\ row.user = rows[r].user /\ row.ext = rows[r].ext /\ row.product = rows[r].product /\ row.period = rows[r].period
      /\ row.status = rows[r].status /\ row.stated = rows[r].stated /\ row.cycle = rows[r].cycle + 1 /\ row.moves = rows[r].moves
  BY <1>3 DEF SubscriptionRow
<1> HIDE DEF row
<1>6. Said(row) = Said(rows[r])
  BY <1>5 DEF Said
<1>7. RowsCore' /\ Written' = Written /\ PromiseKept
  BY <1>1, <1>4, <1>5, <1>6, Undated
<1>8. rows'[r] = row /\ \A o \in Row : o # r => rows'[o] = rows[o]
  BY <1>1, <1>3, <1>4, <1>5, PutRow
<1>9. Goes(s)
  BY <1>1, <1>4, <1>7, GoesThrough
<1>10. PICK went \in Work : Keep(s, went) /\ Relies(went, Written') /\ went.at # "release"
  BY <1>9 DEF Goes
<1> HIDE DEF new
<1>11. WorkShape' /\ work'[s] = went /\ \A t \in Session : t # s => work'[t] = work[t]
  BY <1>1, <1>10 DEF WorkShape, Keep
<1>12. SessionsRely'
  BY <1>1, <1>7, <1>10, <1>11 DEF SessionsRely
<1>13. CyclesOwed'
  <2> SUFFICES ASSUME NEW o \in Written
               PROVE  IsFiniteSet(Releasing(o)') /\ rows'[o].cycle + Cardinality(Releasing(o)') <= rows'[o].moves
    BY <1>7 DEF CyclesOwed
  <2>1. IsFiniteSet(Releasing(o)) /\ rows[o].cycle + Cardinality(Releasing(o)) <= rows[o].moves
    BY <1>1 DEF CyclesOwed
  <2>2. Cardinality(Releasing(o)) \in Nat
    BY <2>1, FS_CardinalityType
  <2>3. CASE o = r
    <3>1. Releasing(o)' = Releasing(o) \ {s} /\ s \in Releasing(o)
      BY <1>1, <1>10, <1>11, <2>3 DEF Releasing
    <3>2. IsFiniteSet(Releasing(o)') /\ Cardinality(Releasing(o)') = Cardinality(Releasing(o)) - 1
      BY <2>1, <3>1, FS_RemoveElement
    <3>3. rows'[o].cycle = rows[o].cycle + 1 /\ rows'[o].moves = rows[o].moves
      BY <1>5, <1>8, <2>3
    <3>4. rows[o].cycle \in Nat /\ rows[o].moves \in Nat
      BY <1>1, RowOf
    <3>5. QED
      BY <2>1, <2>2, <3>2, <3>3, <3>4
  <2>4. CASE o # r
    <3>1. Releasing(o)' = Releasing(o)
      BY <1>1, <1>10, <1>11, <2>4 DEF Releasing
    <3>2. rows'[o] = rows[o]
      BY <1>1, <1>8, <2>4, RowOf
    <3>3. QED
      BY <2>1, <3>1, <3>2
  <2>5. QED
    BY <2>3, <2>4
<1>14. QED
  BY <1>2, <1>7, <1>11, <1>12, <1>13 DEF ReconciliationIInv

-----------------------------------------------------------------------------
(* The end of an answer, and the clock.                                    *)

\* Who was asked about is written on the rows, which say what they said.
LEMMA AskedRows ==
  ASSUME RowsCore, NEW asked, NEW stamp \in Nat, rows' = [r \in Row |-> IF asked[r] /\ r \in Written THEN Asked(rows[r], stamp) ELSE rows[r]]
  PROVE  RowsKept /\ Written' = Written
<1>1. ASSUME NEW r \in Written
      PROVE  /\ rows'[r] \in SubscriptionRow /\ Said(rows'[r]) = Said(rows[r]) /\ rows'[r].ext = rows[r].ext
             /\ rows'[r].cycle = rows[r].cycle /\ rows'[r].moves = rows[r].moves /\ rows[r] # None
  <2>1. rows[r] \in SubscriptionRow /\ r \in Row /\ rows[r].closed \in Nat \cup {None} /\ rows[r] # None
    BY RowOf DEF RowsCore
  <2>2. CASE rows'[r] = rows[r]
    BY <2>1, <2>2
  <2>3. CASE rows'[r] = Asked(rows[r], stamp)
    <3> DEFINE closed == IF rows[r].closed # None /\ stamp > rows[r].closed THEN None ELSE rows[r].closed
    <3>1. closed \in Nat \cup {None} /\ Asked(rows[r], stamp) = [rows[r] EXCEPT !.closed = closed]
      BY <2>1 DEF Asked
    <3> HIDE DEF closed
    <3>2. rows'[r] \in SubscriptionRow /\ rows'[r] = [rows[r] EXCEPT !.closed = closed]
      BY <2>1, <2>3, <3>1 DEF SubscriptionRow
    <3>3. /\ rows'[r].user = rows[r].user /\ rows'[r].product = rows[r].product /\ rows'[r].ext = rows[r].ext /\ rows'[r].status = rows[r].status
          /\ rows'[r].period = rows[r].period /\ rows'[r].stated = rows[r].stated /\ rows'[r].cycle = rows[r].cycle /\ rows'[r].moves = rows[r].moves
      BY <2>1, <3>2 DEF SubscriptionRow
    <3>4. QED
      BY <2>1, <3>2, <3>3 DEF Said
  <2>4. QED
    BY <2>1, <2>2, <2>3
<1>2. \A r \in Row \ Written : rows'[r] = None /\ rows[r] = None
  BY DEF Written
<1>3. Written' = Written
  BY <1>1, <1>2, ReconciliationAssumption DEF Written
<1>4. RowsCore'
  <2>1. RowsShape'
    BY <1>1, <1>2 DEF RowsShape
  <2>2. OneRowPerReceipt'
    BY <1>1, <1>3 DEF RowsCore, OneRowPerReceipt
  <2>3. QED
    BY <2>1, <2>2 DEF RowsCore
<1>5. UNCHANGED Saids
  <2>1. ASSUME NEW r \in Row PROVE (IF rows'[r] = None THEN None ELSE Said(rows'[r])) = (IF rows[r] = None THEN None ELSE Said(rows[r]))
    <3>1. CASE r \in Written
      BY <1>1, <3>1, ReconciliationAssumption
    <3>2. CASE r \notin Written
      BY <1>2, <3>2
    <3>3. QED
      BY <3>1, <3>2
  <2>2. QED
    BY <2>1 DEF Saids
<1>6. OwesNoMore
  <2>1. ASSUME NEW r \in Written PROVE rows'[r].cycle + rows[r].moves <= rows[r].cycle + rows'[r].moves
    <3>1. rows[r].cycle \in Nat /\ rows[r].moves \in Nat
      BY RowOf DEF RowsCore
    <3>2. QED
      BY <1>1, <3>1
  <2>2. QED
    BY <1>3, <2>1 DEF OwesNoMore
<1>7. QED
  BY <1>3, <1>4, <1>5, <1>6 DEF RowsKept, PromiseKept

LEMMA AppliedStep ==
  ASSUME ReconciliationIInv, NEW s \in Session, Applied(s)
  PROVE  ReconciliationIInv' /\ PromiseKept
<1>1. /\ WorkShape /\ RowsCore /\ work[s].at = "settle" /\ work[s].stamp \in Nat
  BY DEF ReconciliationIInv, SessionsRely, Applied, Relies, Speaking
<1>2. GatewayShape'
  <2>1. UNCHANGED <<kind, clock, gatewayHolds, window, changes>> /\ notices' \subseteq notices
    BY DEF Applied, bounds
  <2>2. QED
    BY <2>1, GatewayStill DEF GatewayShape, ReconciliationIInv
<1>3. RowsKept
  <2> DEFINE asked == [r \in Row |-> kind = "queried" /\ r \in RowsOf(work[s].user)]
  <2>1. rows' = [r \in Row |-> IF asked[r] /\ r \in Written THEN Asked(rows[r], work[s].stamp) ELSE rows[r]]
    BY DEF Applied, RowsOf
  <2> HIDE DEF asked
  <2>2. QED
    BY <1>1, <2>1, AskedRows
<1>4. Goes(s)
  <2>1. CASE Keep(s, Idle)
    BY <2>1, GoesIdle
  <2>2. CASE work[s].users # <<>> /\ Keep(s, [Idle EXCEPT !.at = "ask", !.notice = work[s].notice, !.users = work[s].users])
    <3> DEFINE new == [Idle EXCEPT !.at = "ask", !.notice = work[s].notice, !.users = work[s].users]
    <3>1. new \in Work /\ new.at = "ask" /\ new.users = work[s].users /\ new.ours = {}
      BY <1>1, WorkOf DEF Idle, Work, Places
    <3>2. Relies(new, Written')
      BY <2>2, <3>1 DEF Relies, Speaking, OnRow
    <3>3. QED
      BY <2>2, <3>1, <3>2 DEF Goes
  <2>3. QED
    BY <2>1, <2>2 DEF Applied
<1>5. QED
  BY <1>1, <1>2, <1>3, <1>4, SessionWent DEF RowsKept

\* The clock closes what ran out.
LEMMA ExpireStep ==
  ASSUME ReconciliationIInv, NEW r \in Written, Expire(r)
  PROVE  ReconciliationIInv' /\ PromiseKept
<1>1. RowsCore /\ clock \in Nat /\ GatewayShape
  BY DEF ReconciliationIInv, GatewayShape
<1>2. GatewayShape'
  <2>1. UNCHANGED <<kind, clock, gatewayHolds, notices, window, changes>>
    BY DEF Expire, bounds
  <2>2. QED
    BY <1>1, <2>1, GatewayStill DEF GatewayShape
<1>3. rows[r] \in SubscriptionRow /\ r \in Row /\ rows[r].status \in ELIGIBLE_SUBSCRIPTION_STATUSES /\ "EXPIRED" \in SubscriptionStatus
  BY <1>1, RowOf DEF RowsCore, Expire, Overdue, SubscriptionStatus
<1> DEFINE row == close(rows[r], "EXPIRED")
<1>4. /\ row \in SubscriptionRow /\ row.status = "EXPIRED" /\ row.user = rows[r].user /\ row.product = rows[r].product /\ row.ext = rows[r].ext
      /\ row.period = rows[r].period /\ row.stated = rows[r].stated /\ row.cycle = rows[r].cycle /\ row.moves = rows[r].moves
  BY <1>1, <1>3, ClosedRow
<1>5. Put(r, row) /\ UNCHANGED work
  BY DEF Expire
<1> HIDE DEF row
<1>6. row.status \notin ELIGIBLE_SUBSCRIPTION_STATUSES
  BY <1>4 DEF ELIGIBLE_SUBSCRIPTION_STATUSES
<1>7. RowsCore' /\ Written' = Written /\ PromiseKept
  BY <1>1, <1>3, <1>4, <1>5, <1>6, Undated
<1>8. OwesNoMore
  <2>1. rows'[r] = row /\ \A o \in Row : o # r => rows'[o] = rows[o]
    BY <1>1, <1>3, <1>4, <1>5, PutRow DEF RowsCore
  <2>2. ASSUME NEW o \in Written PROVE rows'[o].cycle + rows[o].moves <= rows[o].cycle + rows'[o].moves
    <3>1. rows[o].cycle \in Nat /\ rows[o].moves \in Nat /\ o \in Row
      BY <1>1, RowOf DEF RowsCore
    <3>2. rows'[o].cycle = rows[o].cycle /\ rows'[o].moves = rows[o].moves
      BY <1>4, <2>1, <3>1
    <3>3. QED
      BY <3>1, <3>2
  <2>3. QED
    BY <1>7, <2>2 DEF OwesNoMore
<1>9. QED
  BY <1>2, <1>5, <1>7, <1>8, SessionsStood DEF RowsKept

-----------------------------------------------------------------------------
(* How a session begins.                                                   *)

LEMMA OursOf ==
  ASSUME RowsCore, NEW u
  PROVE  ours(u) \subseteq Product \X Row /\ \A x \in ours(u) : x[2] \in Written
BY RowOf DEF ours, RowsOf, RowsCore

LEMMA PurchaseStated ==
  ASSUME NEW product \in Product, NEW line \in Line, line.raw \in Stated
  PROVE  purchase_of(product, line) \in ProviderPurchase
<1>1. STATUSES[line.raw] \in SubscriptionStatus
  BY DEF STATUSES, Stated, SubscriptionStatus
<1>2. QED
  BY <1>1 DEF purchase_of, ProviderPurchase, Line

LEMMA PurchaseQueried ==
  ASSUME NEW product \in Product, NEW line \in Line
  PROVE  recurring(product, line) \in ProviderPurchase
BY DEF recurring, ProviderPurchase, Line

\* The account asked about is the first of those the session has to ask about.
LEMMA AskStep ==
  ASSUME ReconciliationIInv, NEW s \in Session, NEW n \in SubscriptionNotice \cup {None}, NEW users \in Seq(User), users # <<>>,
         work[s].at # "release", Ask(s, n, users), window' \subseteq User
  PROVE  ReconciliationIInv' /\ PromiseKept
<1> DEFINE new == [Idle EXCEPT !.at = "asked", !.notice = n, !.user = Head(users), !.users = Tail(users), !.stamp = clock + 1]
<1>1. RowsCore /\ clock \in Nat /\ GatewayShape /\ clock + 1 \in Nat
  BY DEF ReconciliationIInv, GatewayShape
<1>2. UNCHANGED <<kind, gatewayHolds, changes, notices, rows>> /\ clock' = clock + 1 /\ Keep(s, new)
  BY DEF Ask
<1>3. GatewayShape'
  BY <1>1, <1>2, GatewayStill
<1>4. Head(users) \in User /\ Tail(users) \in Seq(User)
  OBVIOUS
<1>5. new \in Work /\ new.at = "asked" /\ new.user = Head(users) /\ new.stamp = clock + 1 /\ new.ours = {}
  BY <1>1, <1>4 DEF Idle, Work, Places
<1> HIDE DEF new
<1>6. Relies(new, Written')
  BY <1>1, <1>4, <1>5 DEF Relies, OnRow
<1>7. Goes(s)
  BY <1>2, <1>5, <1>6 DEF Goes
<1>8. RowsKept
  BY <1>1, <1>2, RowsStill
<1>9. QED
  BY <1>3, <1>7, <1>8, SessionWent DEF RowsKept

\* Whoever asks does it about accounts of the kit.
LEMMA AsksStep ==
  ASSUME ReconciliationIInv, NEW s \in Session,
         reconcile_stale(s) \/ against(s) \/ (\E n \in notices : ReceiveQueried(s, n)) \/ (\E u \in User : refresh(s, u))
  PROVE  ReconciliationIInv' /\ PromiseKept
<1>1. RowsCore /\ GatewayShape /\ WorkShape /\ Relies(work[s], Written) /\ window \subseteq User
  BY DEF ReconciliationIInv, GatewayShape, SessionsRely
<1>2. CASE reconcile_stale(s)
  <2>1. PICK r \in Written : Ask(s, None, <<rows[r].user>>)
    BY <1>2 DEF reconcile_stale
  <2>2. <<rows[r].user>> \in Seq(User) /\ <<rows[r].user>> # <<>>
    BY <1>1, RowOf DEF RowsCore
  <2>3. work[s].at # "release" /\ window' \subseteq User
    BY <1>1, <1>2 DEF reconcile_stale, Free
  <2>4. QED
    BY <2>1, <2>2, <2>3, AskStep
<1>3. CASE against(s)
  <2>1. work[s].at = "ask" /\ Ask(s, work[s].notice, work[s].users) /\ window' \subseteq User
    BY <1>1, <1>3 DEF against
  <2>2. work[s].users \in Seq(User) /\ work[s].users # <<>> /\ work[s].notice \in SubscriptionNotice \cup {None} /\ work[s].at # "release"
    BY <1>1, <2>1, WorkOf DEF Relies
  <2>3. QED
    BY <2>1, <2>2, AskStep
<1>4. CASE \E n \in notices : ReceiveQueried(s, n)
  <2>1. PICK n \in notices : ReceiveQueried(s, n)
    BY <1>4
  <2>2. n \in SubscriptionNotice /\ n.users \in Seq(User) /\ n.users # <<>>
    BY <1>1 DEF GatewayShape, SubscriptionNotice
  <2>3. Ask(s, n, n.users) /\ window' \subseteq User /\ work[s].at # "release"
    BY <1>1, <2>1 DEF ReceiveQueried, Free
  <2>4. QED
    BY <2>2, <2>3, AskStep
<1>5. CASE \E u \in User : refresh(s, u)
  <2>1. PICK u \in User : refresh(s, u)
    BY <1>5
  <2>2. <<u>> \in Seq(User) /\ <<u>> # <<>>
    OBVIOUS
  <2>3. Ask(s, None, <<u>>) /\ window' \subseteq User /\ work[s].at # "release"
    BY <1>1, <2>1 DEF refresh, Free
  <2>4. QED
    BY <2>2, <2>3, AskStep
<1>6. QED
  BY <1>2, <1>3, <1>4, <1>5

\* A session keeps what it was told, and what it read.
LEMMA HearingStep ==
  ASSUME ReconciliationIInv, NEW s \in Session,
         state_from_query(s) \/ apply(s) \/ Silent(s) \/ (\E n \in notices : ReceiveStated(s, n))
  PROVE  ReconciliationIInv' /\ PromiseKept
<1>1. RowsCore /\ GatewayShape /\ WorkShape /\ Relies(work[s], Written)
  BY DEF ReconciliationIInv, SessionsRely
<1>2. UNCHANGED <<kind, clock, gatewayHolds, notices, rows, window, changes>>
  BY DEF state_from_query, apply, Silent, ReceiveStated, bounds
<1>3. GatewayShape' /\ RowsKept /\ Written' = Written
  BY <1>1, <1>2, GatewayStill, RowsStill DEF GatewayShape
<1>4. CASE state_from_query(s)
  <2> DEFINE u == work[s].user
             held == {recurring(p, gatewayHolds[u][p]) : p \in {q \in Product : gatewayHolds[u][q] # None}}
             new == [work[s] EXCEPT !.at = "read", !.held = held]
  <2>1. work[s].at = "asked" /\ u \in User /\ work[s].stamp \in Nat
    BY <1>1, <1>4 DEF state_from_query, Relies, Speaking
  <2>2. \A q \in Product : gatewayHolds[u][q] # None => gatewayHolds[u][q] \in Line
    BY <1>1, <2>1 DEF GatewayShape, LineOf, Line
  <2>3. held \subseteq ProviderPurchase
    BY <2>2, PurchaseQueried
  <2>4. Keep(s, new)
    BY <1>4 DEF state_from_query
  <2> HIDE DEF held
  <2>5. new \in Work /\ new.at = "read" /\ new.user = work[s].user /\ new.stamp = work[s].stamp /\ new.ours = work[s].ours
    BY <1>1, <2>3, WorkOf DEF Work, Places
  <2> HIDE DEF new
  <2>6. Relies(new, Written')
    BY <1>1, <1>3, <2>1, <2>5 DEF Relies, OnRow
  <2>7. Goes(s) /\ work[s].at # "release"
    BY <2>1, <2>4, <2>5, <2>6 DEF Goes
  <2>8. QED
    BY <1>3, <2>7, SessionWent DEF RowsKept
<1>5. CASE apply(s)
  <2> DEFINE new == [work[s] EXCEPT !.at = "settle", !.ours = ours(work[s].user)]
  <2>1. work[s].at = "read" /\ work[s].user \in User /\ work[s].stamp \in Nat
    BY <1>1, <1>5 DEF apply, Relies, Speaking
  <2>2. Keep(s, new)
    BY <1>5 DEF apply
  <2>3. new \in Work /\ new.at = "settle" /\ new.user = work[s].user /\ new.stamp = work[s].stamp /\ new.ours = ours(work[s].user)
    BY <1>1, OursOf, WorkOf DEF Work, Places
  <2> HIDE DEF new
  <2>4. Relies(new, Written')
    BY <1>1, <1>3, <2>1, <2>3, OursOf DEF Relies, OnRow
  <2>5. Goes(s) /\ work[s].at # "release"
    BY <2>1, <2>2, <2>3, <2>4 DEF Goes
  <2>6. QED
    BY <1>3, <2>5, SessionWent DEF RowsKept
<1>6. CASE Silent(s)
  BY <1>3, <1>6, GoesIdle, SessionWent DEF Silent, RowsKept
<1>7. CASE \E n \in notices : ReceiveStated(s, n)
  <2>1. PICK n \in notices : ReceiveStated(s, n)
    BY <1>7
  <2> DEFINE heard == {purchase_of(n.product, n.line)}
             listed == ours(Head(n.users))
             new == [Idle EXCEPT !.at = "settle", !.notice = n, !.user = Head(n.users), !.stamp = n.at,
                                 !.held = heard, !.ours = listed]
  <2>2. /\ n \in SubscriptionNotice /\ n.users \in Seq(User) /\ n.users # <<>> /\ n.at \in Nat
        /\ n.product \in Product /\ n.line \in LineOf /\ kind = "stated"
    BY <1>1, <2>1 DEF GatewayShape, SubscriptionNotice, ReceiveStated
  <2>3. n.line \in Line /\ n.line.raw \in Stated /\ Head(n.users) \in User
    BY <2>2 DEF LineOf, Line
  <2>4. heard \in SUBSET ProviderPurchase /\ listed \in SUBSET (Product \X Row) /\ \A x \in listed : x[2] \in Written
    BY <1>1, <2>2, <2>3, PurchaseStated, OursOf
  <2>5. Keep(s, new) /\ work[s].at # "release"
    BY <2>1 DEF ReceiveStated, Free
  <2> HIDE DEF heard, listed
  <2>6. new \in Work /\ new.at = "settle" /\ new.user = Head(n.users) /\ new.stamp = n.at /\ new.ours = listed
    <3> DEFINE first == Head(n.users)
               stamp == n.at
    <3>1. /\ new = [i \in {"at", "notice", "users", "user", "stamp", "held", "ours", "p", "row", "previous"} |-> new[i]]
          /\ new.at = "settle" /\ new.notice = n /\ new.users = <<>> /\ new.user = first /\ new.stamp = stamp /\ new.held = heard /\ new.ours = listed
          /\ new.p = None /\ new.row = None /\ new.previous = None
      BY DEF Idle
    <3>2. first \in User \cup {None} /\ stamp \in Nat \cup {None} /\ n \in SubscriptionNotice \cup {None} /\ <<>> \in Seq(User)
      BY <2>2, <2>3
    <3> HIDE DEF new, first, stamp
    <3>3. new \in Work
      BY <2>4, <3>1, <3>2 DEF Work, Places
    <3>4. QED
      BY <3>1, <3>3 DEF first, stamp
  <2> HIDE DEF new
  <2>7. Relies(new, Written')
    BY <1>3, <2>2, <2>3, <2>4, <2>6 DEF Relies, OnRow
  <2>8. Goes(s)
    BY <2>5, <2>6, <2>7 DEF Goes
  <2>9. QED
    BY <1>3, <2>5, <2>8, SessionWent DEF RowsKept
<1>8. QED
  BY <1>4, <1>5, <1>6, <1>7

LEMMA SessionKeeps ==
  ASSUME ReconciliationIInv, NEW s \in Session, SessionStep(s) \/ Silent(s)
  PROVE  ReconciliationIInv' /\ PromiseKept
<1>1. CASE reconcile_stale(s) \/ against(s) \/ (\E n \in notices : ReceiveQueried(s, n))
  BY <1>1, AsksStep
<1>2. CASE state_from_query(s) \/ apply(s) \/ Silent(s) \/ (\E n \in notices : ReceiveStated(s, n))
  BY <1>2, HearingStep
<1>3. CASE \/ \E p \in work[s].held : settle(s, p) \/ open(s, p) \/ MeetHolder(s, p)
           \/ HoldAgain(s) \/ HoldAndCarry(s) \/ Leftover(s)
  BY <1>3, WordStep
<1>4. CASE hand_over(s)
  BY <1>4, HandOverStep
<1>5. CASE HandOverRelease(s)
  BY <1>5, ReleaseStep
<1>6. CASE Applied(s)
  BY <1>6, AppliedStep
<1>7. QED
  BY <1>1, <1>2, <1>3, <1>4, <1>5, <1>6 DEF SessionStep

-----------------------------------------------------------------------------
(* The gateway.                                                            *)

LEMMA RaisedKeeps ==
  ASSUME ReconciliationIInv, NEW users \in Seq(User), users # <<>>, NEW product \in Product, NEW line \in LineOf, NEW at \in Nat, NEW ends \in BOOLEAN,
         RaiseNotice(users, product, line, at, ends), gatewayHolds' \in [User -> [Product -> LineOf \cup {None}]]
  PROVE  ReconciliationIInv' /\ PromiseKept
<1> DEFINE notice == [users |-> users, at |-> at, ends |-> ends,
                      product |-> IF kind = "stated" THEN product ELSE None, line |-> IF kind = "stated" THEN line ELSE None]
<1>1. RowsCore /\ GatewayShape
  BY DEF ReconciliationIInv
<1>2. /\ UNCHANGED <<kind, rows, window, work>> /\ clock' = at /\ notices' = notices \cup {notice} /\ changes' = changes + 1
  BY DEF RaiseNotice
<1>3. line \in Line
  BY DEF LineOf, Line, Stated, Queried
<1>4. /\ notice \in SubscriptionNotice /\ notice.users # <<>>
      /\ kind = "stated" => notice.product \in Product /\ notice.line \in LineOf
  BY <1>3 DEF SubscriptionNotice
<1> HIDE DEF notice
<1>5. LineOf' = LineOf
  BY <1>2 DEF LineOf
<1>6. GatewayShape'
  BY <1>1, <1>2, <1>4, <1>5 DEF GatewayShape
<1>7. QED
  BY <1>1, <1>2, <1>6, RowsStill, SessionsStood DEF RowsKept

\* The gateway writes what it holds.
LEMMA HoldsWrite ==
  ASSUME NEW Lines, NEW holds \in [User -> [Product -> Lines]], NEW u \in User, NEW p \in Product, NEW line \in Lines
  PROVE  [holds EXCEPT ![u][p] = line] \in [User -> [Product -> Lines]]
OBVIOUS

LEMMA NextLinesOf ==
  ASSUME GatewayShape, NEW held \in LineOf \cup {None}, NEW line \in NextLines(held)
  PROVE  line \in LineOf
<1> DEFINE Words == IF kind = "stated" THEN Stated ELSE Queried
<1>1. Fresh \in Nat
  BY DEF GatewayShape, Fresh
<1>2. CASE Gone(held)
  <2>1. PICK raw \in Opening \cup (IF held = None THEN Tried ELSE {}) : line = [ext |-> Fresh, raw |-> raw, period |-> Fresh]
    BY <1>2 DEF NextLines
  <2>2. raw \in Words
    BY <2>1 DEF Opening, Tried, Stated, Queried
  <2>3. QED
    BY <1>1, <2>1, <2>2 DEF LineOf
<1>3. CASE ~Gone(held)
  <2>1. held \in LineOf /\ held.ext \in Nat /\ held.period \in Nat /\ held.raw \in Words
    BY <1>3 DEF Gone, LineOf
  <2>2. Turns[held.raw] \subseteq Words
    <3>1. CASE kind = "stated"
      BY <2>1, <3>1 DEF Turns, Stated
    <3>2. CASE kind # "stated"
      BY <2>1, <3>2 DEF Turns, Queried
    <3>3. QED
      BY <3>1, <3>2
  <2>3. \/ \E raw \in Turns[held.raw] : line = [held EXCEPT !.raw = raw]
        \/ kind = "queried" /\ line = [ext |-> Fresh, raw |-> "active", period |-> Fresh]
        \/ line = [held EXCEPT !.period = Fresh]
    BY <1>3 DEF NextLines
  <2>4. CASE \E raw \in Turns[held.raw] : line = [held EXCEPT !.raw = raw]
    BY <2>1, <2>2, <2>4 DEF LineOf
  <2>5. CASE kind = "queried" /\ line = [ext |-> Fresh, raw |-> "active", period |-> Fresh]
    BY <1>1, <2>5 DEF LineOf, Queried
  <2>6. CASE line = [held EXCEPT !.period = Fresh]
    BY <1>1, <2>1, <2>6 DEF LineOf
  <2>7. QED
    BY <2>3, <2>4, <2>5, <2>6
<1>4. QED
  BY <1>2, <1>3

LEMMA GatewayKeeps ==
  ASSUME ReconciliationIInv, NEW u \in User, NEW p \in Product,
         GatewayMoves(u, p) \/ (\E q \in Product : GatewayUpgrades(u, p, q)) \/ (\E v \in User : GatewayTransfers(u, v, p))
  PROVE  ReconciliationIInv' /\ PromiseKept
<1> DEFINE held == gatewayHolds[u][p]
           Lines == LineOf \cup {None}
<1>1. GatewayShape /\ gatewayHolds \in [User -> [Product -> Lines]] /\ held \in Lines /\ clock \in Nat /\ clock + 1 \in Nat /\ None \in Lines
  BY DEF ReconciliationIInv, GatewayShape
<1>2. CASE GatewayMoves(u, p)
  <2>1. PICK line \in NextLines(held) :
          /\ gatewayHolds' = [gatewayHolds EXCEPT ![u][p] = line]
          /\ \E at \in {clock + 1, clock} : RaiseNotice(<<u>>, p, line, at, ~Gone(held) /\ (line.period = Fresh \/ line.raw = "expired"))
    BY <1>2 DEF GatewayMoves
  <2>2. PICK at \in {clock + 1, clock} : RaiseNotice(<<u>>, p, line, at, ~Gone(held) /\ (line.period = Fresh \/ line.raw = "expired"))
    BY <2>1
  <2>3. line \in LineOf /\ at \in Nat /\ <<u>> \in Seq(User) /\ <<u>> # <<>>
    BY <1>1, NextLinesOf
  <2> DEFINE ends == ~Gone(held) /\ (line.period = Fresh \/ line.raw = "expired")
  <2>4. ends \in BOOLEAN
    OBVIOUS
  <2>5. RaiseNotice(<<u>>, p, line, at, ends)
    BY <2>2
  <2> HIDE DEF ends
  <2>6. gatewayHolds' \in [User -> [Product -> Lines]]
    BY <1>1, <2>1, <2>3, HoldsWrite
  <2>7. QED
    BY <2>3, <2>4, <2>5, <2>6, RaisedKeeps
<1>3. CASE \E q \in Product : GatewayUpgrades(u, p, q)
  <2>1. PICK q \in Product : GatewayUpgrades(u, p, q)
    BY <1>3
  <2> DEFINE moved == [gatewayHolds EXCEPT ![u][q] = held]
  <2>2. /\ held # None /\ gatewayHolds' = [moved EXCEPT ![u][p] = None] /\ RaiseNotice(<<u>>, q, held, clock + 1, FALSE)
    BY <2>1 DEF GatewayUpgrades
  <2>3. moved \in [User -> [Product -> Lines]]
    BY <1>1, HoldsWrite
  <2> HIDE DEF moved
  <2>4. gatewayHolds' \in [User -> [Product -> Lines]]
    BY <1>1, <2>2, <2>3, HoldsWrite
  <2>5. held \in LineOf /\ <<u>> \in Seq(User) /\ <<u>> # <<>> /\ FALSE \in BOOLEAN
    BY <1>1, <2>2
  <2>6. QED
    BY <1>1, <2>2, <2>4, <2>5, RaisedKeeps
<1>4. CASE \E v \in User : GatewayTransfers(u, v, p)
  <2>1. PICK v \in User : GatewayTransfers(u, v, p)
    BY <1>4
  <2> DEFINE moved == [gatewayHolds EXCEPT ![v][p] = held]
             users == transfer(u, v)
  <2>2. /\ held # None /\ gatewayHolds' = [moved EXCEPT ![u][p] = None] /\ RaiseNotice(users, p, held, clock + 1, FALSE)
    BY <2>1 DEF GatewayTransfers
  <2>3. moved \in [User -> [Product -> Lines]]
    BY <1>1, HoldsWrite
  <2> HIDE DEF moved
  <2>4. gatewayHolds' \in [User -> [Product -> Lines]]
    BY <1>1, <2>2, <2>3, HoldsWrite
  <2>5. held \in LineOf /\ users \in Seq(User) /\ users # <<>> /\ FALSE \in BOOLEAN
    BY <1>1, <2>2 DEF transfer
  <2> HIDE DEF users
  <2>6. QED
    BY <1>1, <2>2, <2>4, <2>5, RaisedKeeps
<1>5. QED
  BY <1>2, <1>3, <1>4

\* The end of a cooldown, and a notice that is lost.
LEMMA QuietStep ==
  ASSUME ReconciliationIInv, (\E u \in User : CooldownEnds(u)) \/ (\E n \in notices : LoseNotice(n))
  PROVE  ReconciliationIInv' /\ PromiseKept
<1>1. UNCHANGED <<kind, clock, gatewayHolds, rows, work, changes>> /\ window' \subseteq window /\ notices' \subseteq notices
  BY DEF CooldownEnds, LoseNotice, bounds
<1>2. RowsCore /\ GatewayShape /\ clock' \in Nat /\ window' \subseteq User
  BY <1>1 DEF ReconciliationIInv, GatewayShape
<1>3. QED
  BY <1>1, <1>2, GatewayStill, RowsStill, SessionsStood DEF RowsKept

-----------------------------------------------------------------------------
(* What is proved.                                                         *)

LEMMA ReconciliationBegins == Init => ReconciliationIInv
<1> SUFFICES ASSUME Init PROVE ReconciliationIInv
  OBVIOUS
<1>1. GatewayShape
  BY DEF Init, GatewayShape
<1>2. Written = {}
  BY DEF Init, Written
<1>3. WorkShape /\ SessionsRely
  BY IdleWork DEF Init, WorkShape, SessionsRely, Relies, Speaking, OnRow
<1>4. RowsCore /\ CyclesOwed
  BY <1>2 DEF Init, RowsCore, RowsShape, OneRowPerReceipt, CyclesOwed
<1>5. QED
  BY <1>1, <1>3, <1>4 DEF ReconciliationIInv

LEMMA ReconciliationStep == ReconciliationIInv /\ [Next]_vars => ReconciliationIInv' /\ PromiseKept
<1> SUFFICES ASSUME ReconciliationIInv, [Next]_vars PROVE ReconciliationIInv' /\ PromiseKept
  OBVIOUS
<1>1. CASE \E u \in User, p \in Product : GatewayMoves(u, p) \/ \E q \in Product \ {p} : GatewayUpgrades(u, p, q)
  BY <1>1, GatewayKeeps
<1>2. CASE \E u, v \in User, p \in Product : GatewayTransfers(u, v, p)
  BY <1>2, GatewayKeeps
<1>3. CASE \E u \in User : CooldownEnds(u) \/ \E s \in Session : refresh(s, u)
  BY <1>3, QuietStep, AsksStep
<1>4. CASE \E s \in Session : SessionStep(s) \/ Silent(s)
  BY <1>4, SessionKeeps
<1>5. CASE \E n \in notices : LoseNotice(n)
  BY <1>5, QuietStep
<1>6. CASE \E r \in Written : Expire(r)
  BY <1>6, ExpireStep
<1>7. CASE UNCHANGED vars
  <2>1. UNCHANGED <<kind, clock, gatewayHolds, notices, rows, window, work, changes>>
    BY <1>7 DEF vars
  <2>2. RowsCore /\ GatewayShape /\ clock' \in Nat /\ window' \subseteq User
    BY <2>1 DEF ReconciliationIInv, GatewayShape
  <2>3. QED
    BY <2>1, <2>2, GatewayStill, RowsStill, SessionsStood DEF RowsKept
<1>8. QED
  BY <1>1, <1>2, <1>3, <1>4, <1>5, <1>6, <1>7 DEF Next

LEMMA NoCycleTwice == ReconciliationIInv => ReconciliationInv
<1> SUFFICES ASSUME ReconciliationIInv PROVE ReconciliationInv
  OBVIOUS
<1>1. GatewayShape /\ WorkShape /\ RowsShape /\ CyclesOwed
  BY DEF ReconciliationIInv, RowsCore
<1>2. gatewayHolds \in [User -> [Product -> Line \cup {None}]]
  <2>1. LineOf \subseteq Line
    BY DEF LineOf, Line, Stated, Queried
  <2>2. QED
    BY <1>1, <2>1 DEF GatewayShape
<1>3. TypeOK
  BY <1>1, <1>2, WorkOf DEF TypeOK, GatewayShape, RowsShape
<1>4. CyclePerMove
  <2> SUFFICES ASSUME NEW r \in Written PROVE rows[r].cycle <= rows[r].moves
    BY DEF CyclePerMove
  <2>1. rows[r].cycle + Cardinality(Releasing(r)) <= rows[r].moves /\ Cardinality(Releasing(r)) \in Nat
    BY <1>1, FS_CardinalityType DEF CyclesOwed
  <2>2. rows[r].cycle \in Nat /\ rows[r].moves \in Nat
    BY <1>1, RowOf
  <2>3. QED
    BY <2>1, <2>2
<1>5. QED
  BY <1>3, <1>4 DEF ReconciliationInv

\* Whatever the gateway does and however many sessions read an old holder together, the rows keep their shape and no move of a receipt opens two cycles:
\* the conditioned update of hand_over lets one of them through, and what it still owes is counted while release_cycle has not committed.
THEOREM OneCyclePerMove == Spec => []ReconciliationInv
<1>1. Init => ReconciliationIInv
  BY ReconciliationBegins
<1>2. ReconciliationIInv /\ [Next]_vars => ReconciliationIInv'
  BY ReconciliationStep
<1>3. ReconciliationIInv => ReconciliationInv
  BY NoCycleTwice
<1>4. QED
  BY <1>1, <1>2, <1>3, PTL DEF Spec

\* ReconciliationService implements what subscription.stated_at promises: in whatever order notices, answers of the gateway and the clock reach the rows,
\* and however their sessions interleave, no row moves on a word older than the last it heard.
THEOREM NewestWordKept == Spec => KeepsNewestWord
<1>1. Init => Promise!Init
  BY DEF Promise!Init
<1>2. ReconciliationIInv /\ [Next]_vars => [Promise!Next]_([r \in Row |-> IF rows[r] = None THEN None ELSE Said(rows[r])])
  BY ReconciliationStep DEF PromiseKept, Saids
<1>3. Init => ReconciliationIInv
  BY ReconciliationBegins
<1>4. ReconciliationIInv /\ [Next]_vars => ReconciliationIInv'
  BY ReconciliationStep
<1>5. QED
  BY <1>1, <1>2, <1>3, <1>4, PTL DEF KeepsNewestWord, Promise!Spec, Spec

=============================================================================
