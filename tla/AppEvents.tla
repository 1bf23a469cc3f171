------------------------------ MODULE AppEvents ------------------------------
(***************************************************************************)
(* The queue of what the app reports: AppEventService, the job that reads  *)
(* it every ten minutes, and the retention that trims it.  A batch is      *)
(* replayed whenever the app loses the answer, passes of the job overlap   *)
(* and die, and a row goes from under them when its account is erased.     *)
(*                                                                         *)
(* A step is one statement, or what a commit makes visible at once.  The   *)
(* batches of one app keep its order, so two of them never wait for each   *)
(* other in a circle.                                                      *)
(***************************************************************************)
EXTENDS Integers, Sequences, FiniteSetsExt

CONSTANTS
  Uuid,           \* what the app names its events by
  ReadUuid,       \* those whose name EVENT_CATEGORIES lists
  Report,         \* requests that report a batch
  BatchOf,        \* [Report -> sequence of uuids]
  EventPass,      \* passes of the job that run at once
  EventAttempts,  \* MAX_ATTEMPTS
  MaxEventDeaths, \* bound on the passes that die
  MaxForgets      \* an account is erased only before an event lost this many rows

ASSUME AppEventsAssumption ==
  /\ ReadUuid \subseteq Uuid
  /\ IsFiniteSet(Report) /\ BatchOf \in [Report -> Seq(Uuid)]
  /\ EventAttempts \in Nat \ {0} /\ MaxEventDeaths \in Nat /\ MaxForgets \in Nat

VARIABLES
  event,    \* [Uuid -> the app_event row, NoEvent while there is none]
  eventIds, \* the last number the table gave a row
  report,   \* [Report -> where the request is, what is left of its batch, what it knew was stored, the ids it staged and what it counted]
  pass,     \* [EventPass -> where the pass is, the ids it has left and the one it holds]
  trimmed,  \* ids one page of the retention read, and is about to delete
  logged,   \* [Uuid -> entries of the system log its event made]
  gone,     \* [Uuid -> rows of it that were deleted]
  eventDeaths

eventVars == <<event, eventIds, report, pass, trimmed, logged, gone, eventDeaths>>

NoEvent == [id |-> 0]
AppEventStatus == {"pending", "processing", "processed", "ignored", "failed"}
AppEventRow == [id : Nat, status : AppEventStatus, attempts : 0..EventAttempts, stale : BOOLEAN]

IdlePass == [at |-> "idle", todo |-> {}, id |-> 0]
PassRow == [at : {"idle", "list", "claim", "settle", "dispatch"}, todo : SUBSET Nat, id : Nat]

NothingStaged == [u \in Uuid |-> 0]
Arriving(r) == [at |-> "known", left |-> BatchOf[r], known |-> {}, staged |-> NothingStaged, accepted |-> {}]
ReportRow == [at : {"known", "insert", "answered"}, left : Seq(Uuid), known : SUBSET Uuid, staged : [Uuid -> Nat], accepted : SUBSET Uuid]

EventsInit ==
  /\ event = [u \in Uuid |-> NoEvent] /\ eventIds = 0
  /\ report = [r \in Report |-> Arriving(r)]
  /\ pass = [p \in EventPass |-> IdlePass]
  /\ trimmed = {}
  /\ logged = [u \in Uuid |-> 0] /\ gone = [u \in Uuid |-> 0]
  /\ eventDeaths = 0

Stored(u) == event[u] # NoEvent
OfId(id) == {u \in Uuid : Stored(u) /\ event[u].id = id}
Staged(r, u) == report[r].staged[u] # 0

-----------------------------------------------------------------------------
(* Reporting a batch.                                                      *)

\* What is already stored is read once, and passed over.
known_uuids(r) ==
  /\ report[r].at = "known"
  /\ report' = [report EXCEPT ![r].at = "insert", ![r].known = {u \in Uuid : Stored(u)}]
  /\ UNCHANGED <<event, eventIds, pass, trimmed, logged, gone, eventDeaths>>

\* The row of an event is inserted under a number of its own, and counted.
StageEvent(row, u) == [row EXCEPT !.left = Tail(row.left), !.staged = [row.staged EXCEPT ![u] = eventIds + 1], !.accepted = row.accepted \cup {u}]

\* insert_or_read: an insert waits for the transaction that holds the same uuid, and meets the row it left.
IngestOne(r) ==
  LET u == Head(report[r].left)
      known == u \in report[r].known
      fresh == ~known /\ ~Stored(u) /\ ~Staged(r, u)
  IN /\ report[r].at = "insert" /\ report[r].left # <<>>
     /\ known \/ \A other \in Report \ {r} : ~Staged(other, u)
     /\ report' = [report EXCEPT ![r] = IF fresh THEN StageEvent(report[r], u) ELSE [report[r] EXCEPT !.left = Tail(report[r].left)]]
     /\ eventIds' = IF fresh THEN eventIds + 1 ELSE eventIds
     /\ UNCHANGED <<event, pass, trimmed, logged, gone, eventDeaths>>

\* The batch is committed whole, and the app told how many of it were new.
ingest_events(r) ==
  /\ report[r].at = "insert" /\ report[r].left = <<>>
  /\ event' = [u \in Uuid |-> IF Staged(r, u) THEN [id |-> report[r].staged[u], status |-> "pending", attempts |-> 0, stale |-> FALSE] ELSE event[u]]
  /\ report' = [report EXCEPT ![r].at = "answered", ![r].staged = NothingStaged]
  /\ UNCHANGED <<eventIds, pass, trimmed, logged, gone, eventDeaths>>

-----------------------------------------------------------------------------
(* A pass of the job.                                                      *)

PassAt(p, at) == pass[p].at = at

Abandoned(row) == row.status = "processing" /\ row.stale

\* Variant: the pass goes straight to what it may take.
CloseExhausted_Skipped(p) ==
  /\ PassAt(p, "idle")
  /\ pass' = [pass EXCEPT ![p].at = "list"]
  /\ UNCHANGED <<event, eventIds, report, trimmed, logged, gone, eventDeaths>>

\* An event whose last attempt died is closed; one write over the table.
CloseExhausted(p) ==
  /\ PassAt(p, "idle")
  /\ event' = [u \in Uuid |-> IF Stored(u) /\ Abandoned(event[u]) /\ event[u].attempts >= EventAttempts
                              THEN [event[u] EXCEPT !.status = "failed"] ELSE event[u]]
  /\ pass' = [pass EXCEPT ![p].at = "list"]
  /\ UNCHANGED <<eventIds, report, trimmed, logged, gone, eventDeaths>>

TakeableEvent(row) == (row.status \in {"pending", "failed"} \/ Abandoned(row)) /\ row.attempts < EventAttempts

\* The ids of this pass, read once.
ProcessPending(p) ==
  /\ PassAt(p, "list")
  /\ pass' = [pass EXCEPT ![p].at = "claim", ![p].todo = {event[u].id : u \in {v \in Uuid : Stored(v) /\ TakeableEvent(event[v])}}]
  /\ UNCHANGED <<event, eventIds, report, trimmed, logged, gone, eventDeaths>>

\* The pass goes on to the event it took.
HoldsEvent(p, id) == [at |-> "settle", todo |-> pass[p].todo \ {id}, id |-> id]

\* The conditional update that takes an event for one pass.
ClaimEvent(p) ==
  LET id == Min(pass[p].todo)
      taken == {u \in OfId(id) : TakeableEvent(event[u])}
  IN /\ PassAt(p, "claim") /\ pass[p].todo # {}
     /\ event' = [u \in Uuid |-> IF u \in taken
                                 THEN [event[u] EXCEPT !.status = "processing", !.attempts = @ + 1, !.stale = FALSE] ELSE event[u]]
     /\ pass' = [pass EXCEPT ![p] = IF taken # {} THEN HoldsEvent(p, id) ELSE [pass[p] EXCEPT !.todo = pass[p].todo \ {id}]]
     /\ UNCHANGED <<eventIds, report, trimmed, logged, gone, eventDeaths>>

PassEnds(p) ==
  /\ PassAt(p, "claim") /\ pass[p].todo = {}
  /\ pass' = [pass EXCEPT ![p] = IdlePass]
  /\ UNCHANGED <<event, eventIds, report, trimmed, logged, gone, eventDeaths>>

\* The pass is done with the event it held.
Released(p) == [pass[p] EXCEPT !.at = "claim", !.id = 0]

\* The row the pass holds, unless it went since the claim.
SettleReads(p) ==
  /\ PassAt(p, "settle")
  /\ pass' = [pass EXCEPT ![p] = IF OfId(pass[p].id) = {} THEN Released(p) ELSE [pass[p] EXCEPT !.at = "dispatch"]]
  /\ UNCHANGED <<event, eventIds, report, trimmed, logged, gone, eventDeaths>>

\* Variant: the entry of the log is recorded, in a commit of its own, and not staged.
SettleDone_Recorded(p) ==
  /\ PassAt(p, "dispatch")
  /\ logged' = [u \in Uuid |-> IF u \in OfId(pass[p].id) \cap ReadUuid THEN logged[u] + 1 ELSE logged[u]]
  /\ pass' = [pass EXCEPT ![p].at = "settle"]
  /\ UNCHANGED <<event, eventIds, report, trimmed, gone, eventDeaths>>

\* The entry of the log and the status land in one commit.  A row that went in between makes the update meet nothing: the pass
\* rolls back, finds no row, and goes on.
SettleDone(p) ==
  /\ PassAt(p, "dispatch")
  /\ event' = [u \in Uuid |-> IF u \in OfId(pass[p].id)
                              THEN [event[u] EXCEPT !.status = IF u \in ReadUuid THEN "processed" ELSE "ignored"] ELSE event[u]]
  /\ logged' = [u \in Uuid |-> IF u \in OfId(pass[p].id) \cap ReadUuid THEN logged[u] + 1 ELSE logged[u]]
  /\ pass' = [pass EXCEPT ![p] = Released(p)]
  /\ UNCHANGED <<eventIds, report, trimmed, gone, eventDeaths>>

\* Anything the dispatch or its commit raised is rolled back and written on the row, if it is still there.
SettleFails(p) ==
  /\ PassAt(p, "dispatch")
  /\ event' = [u \in Uuid |-> IF u \in OfId(pass[p].id) THEN [event[u] EXCEPT !.status = "failed"] ELSE event[u]]
  /\ pass' = [pass EXCEPT ![p] = Released(p)]
  /\ UNCHANGED <<eventIds, report, trimmed, logged, gone, eventDeaths>>

\* The node of a pass dies, or its job is cut off after 590 seconds.
PassDies(p) ==
  /\ pass[p].at \in {"claim", "settle", "dispatch"} /\ eventDeaths < MaxEventDeaths
  /\ pass' = [pass EXCEPT ![p] = IdlePass]
  /\ eventDeaths' = eventDeaths + 1
  /\ UNCHANGED <<event, eventIds, report, trimmed, logged, gone>>

\* Thirty minutes pass over a row nobody holds: no pass lives that long.
EventAgesOut(u) ==
  /\ Stored(u)
  /\ event[u].status = "processing" /\ ~event[u].stale
  /\ \A p \in EventPass : ~(pass[p].at \in {"settle", "dispatch"} /\ pass[p].id = event[u].id)
  /\ event' = [event EXCEPT ![u].stale = TRUE]
  /\ UNCHANGED <<eventIds, report, pass, trimmed, logged, gone, eventDeaths>>

-----------------------------------------------------------------------------
(* What takes rows away.                                                   *)

\* What the retention may drop: nothing will act on the row again.
Spent(row) == row.status \in {"processed", "ignored"} \/ (row.status = "failed" /\ row.attempts >= EventAttempts)

\* One page of rows past the window, which may be any of them.
TrimReads ==
  /\ trimmed = {}
  /\ \E ids \in SUBSET {event[u].id : u \in {v \in Uuid : Stored(v) /\ Spent(event[v])}} : ids # {} /\ trimmed' = ids
  /\ UNCHANGED <<event, eventIds, report, pass, logged, gone, eventDeaths>>

Without(us) ==
  /\ event' = [u \in Uuid |-> IF u \in us THEN NoEvent ELSE event[u]]
  /\ gone' = [u \in Uuid |-> IF u \in us THEN gone[u] + 1 ELSE gone[u]]

\* The page is deleted by its ids alone.
trim_where ==
  /\ trimmed # {}
  /\ Without(UNION {OfId(id) : id \in trimmed})
  /\ trimmed' = {}
  /\ UNCHANGED <<eventIds, report, pass, logged, eventDeaths>>

\* Erasing an account takes the events it reported, whatever they are at.
forget_behaviour(us) ==
  /\ us # {} /\ \A u \in us : Stored(u)
  /\ \A u \in Uuid : gone[u] < MaxForgets
  /\ Without(us)
  /\ UNCHANGED <<eventIds, report, pass, trimmed, logged, eventDeaths>>

PassStep(p) == CloseExhausted(p) \/ ProcessPending(p) \/ ClaimEvent(p) \/ PassEnds(p) \/ SettleReads(p) \/ SettleDone(p) \/ SettleFails(p)

ReportStep(r) == known_uuids(r) \/ IngestOne(r) \/ ingest_events(r)

EventsNext ==
  \/ \E r \in Report : ReportStep(r)
  \/ \E p \in EventPass : PassStep(p) \/ PassDies(p)
  \/ \E u \in Uuid : EventAgesOut(u)
  \/ TrimReads \/ trim_where
  \/ \E us \in SUBSET Uuid : forget_behaviour(us)

EventsSpec == EventsInit /\ [][EventsNext]_eventVars

-----------------------------------------------------------------------------
(* What must hold.                                                         *)

\* The rows, the requests and the passes have the shape the code gives them.
EventsTypeOK ==
  /\ event \in [Uuid -> AppEventRow \cup {NoEvent}]
  /\ eventIds \in Nat /\ trimmed \subseteq Nat /\ eventDeaths \in 0..MaxEventDeaths
  /\ report \in [Report -> ReportRow] /\ pass \in [EventPass -> PassRow]
  /\ logged \in [Uuid -> Nat] /\ gone \in [Uuid -> Nat]

\* However often a batch is replayed, an event is counted as accepted once for each row it was given.
AcceptedOnce ==
  \A u \in Uuid : Cardinality({r \in Report : report[r].at = "answered" /\ u \in report[r].accepted}) <= gone[u] + (IF Stored(u) THEN 1 ELSE 0)

\* However often a pass dies, fails or overlaps another, an event is written on the log at most once for each row it was given.
LoggedOnce == \A u \in Uuid : logged[u] <= gone[u] + (IF Stored(u) THEN 1 ELSE 0)

\* The page the retention deletes by its ids holds nothing a pass may still act on, though statements of other passes ran since it was read.
TrimsOnlySpent == \A id \in trimmed : \A u \in OfId(id) : Spent(event[u]) /\ ~TakeableEvent(event[u])

\* Two passes never work on one event.
OnePassPerEvent ==
  \A p, q \in EventPass : (p # q /\ {pass[p].at, pass[q].at} \subseteq {"settle", "dispatch"} /\ pass[p].id = pass[q].id) => OfId(pass[p].id) = {}

\* An event that was stored is read, ignored, given up or gone in the end, however its passes die.
EveryEventEnds == \A u \in Uuid : [](Stored(u) => <>(~Stored(u) \/ Spent(event[u])))

\* However batches are replayed and passes overlap and die, an event is counted, read and logged once for each row it was given, and trimmed only when nobody may read it again.
EventsInv == EventsTypeOK /\ AcceptedOnce /\ OnePassPerEvent /\ LoggedOnce /\ TrimsOnlySpent
=============================================================================
