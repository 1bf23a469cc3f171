--------------------------------- MODULE Files ---------------------------------
(***************************************************************************)
(* Stored files and the rows that name them: uploading, naming a file in a *)
(* row, dropping the name, releasing what nothing names any more, and the  *)
(* sweep of what nothing ever named (services/upload_service.py,           *)
(* sweep_service.py, and the write paths of crud_service.py and            *)
(* user_service.py that call them).                                        *)
(*                                                                         *)
(* A step is a statement or a commit.  What a transaction wrote is seen at *)
(* its commit; the rows it wrote are locked up to there, and whoever wants *)
(* to write one of them waits and then reads it again.                     *)
(***************************************************************************)
EXTENDS Integers, FiniteSets

CONSTANTS
  File,      \* uuids, an interval from 1, drawn in order
  Record,    \* rows of the panel that name files
  Account,   \* accounts, whose picture is a file
  Request,   \* requests and jobs at work at the same time
  None,
  OneEditor, \* environment: whether a record of the panel is written by one request at a time
  MaxEdits   \* bound on the edits and deletions of a behaviour

Owner == Record \cup Account

\* claimed_at is 0 while nothing named the file; `old` is past the grace of the sweep.
StoredRow == [claimed : Nat, old : BOOLEAN]

\* A file column, and the files the markup links to.
OwnerRow == [key : File \cup {None}, text : SUBSET File]

ASSUME FilesAssumption ==
  /\ File \subseteq Nat \ {0} /\ IsFiniteSet(File) /\ MaxEdits \in Nat /\ OneEditor \in BOOLEAN
  /\ None \notin File \cup Record \cup Account \cup StoredRow \cup OwnerRow /\ Record \cap Account = {}

VARIABLES
  stored,    \* [File -> its stored_file row, or None]
  bucket,    \* external: the objects the storage holds
  mentions,  \* stored_file_mention: <<file, owner>>
  owners,    \* [Owner -> the row, or None]
  keys,      \* keys an operator was answered
  requests,  \* [Request -> where it is]
  drawn,     \* the last uuid
  stamp,     \* the last claimed_at
  edits,
  crashed    \* history: a process stopped in the middle

vars == <<stored, bucket, mentions, owners, keys, requests, drawn, stamp, edits, crashed>>

Bare == [key |-> None, text |-> {}]

Idle == [at |-> "idle", owner |-> None, old |-> None, new |-> None, add |-> {}, drop |-> {}, files |-> {}, seen |-> {}]

Init ==
  /\ stored = [f \in File |-> None] /\ bucket = {} /\ mentions = {}
  /\ owners = [o \in Owner |-> IF o \in Account THEN Bare ELSE None] /\ keys = {}
  /\ requests = [q \in Request |-> Idle]
  /\ drawn = 0 /\ stamp = 0 /\ edits = 0 /\ crashed = FALSE

At(q, place) == requests[q].at = place
Go(q, new) == requests' = [requests EXCEPT ![q] = new]
Stored == {f \in File : stored[f] # None}
Without(gone) == [f \in File |-> IF f \in gone THEN None ELSE stored[f]]

\* named_in
Names(row) == IF row = None THEN {} ELSE row.text \cup ({row.key} \ {None})

\* What the transactions of the other requests hold up to their commit: an account from the moment it is read, a record from the moment it is flushed.
Holding(o) == IF o \in Account THEN {"mention", "commit", "delete"} ELSE {"commit"}
LockedOwner(q, o) == \E p \in Request \ {q} : requests[p].owner = o /\ requests[p].at \in Holding(o)
LockedFiles(q) == UNION {requests[p].add : p \in {p \in Request \ {q} : At(p, "commit")}}

\* Whether a request may begin to write a record.
MayWrite(o) == edits < MaxEdits /\ (OneEditor => \A p \in Request : requests[p].owner # o)

-----------------------------------------------------------------------------
(* Uploading.                                                              *)

\* keep: the file is written down before it is written.
store(q, o) ==
  /\ At(q, "idle") /\ drawn + 1 \in File
  /\ drawn' = drawn + 1 /\ stored' = [stored EXCEPT ![drawn + 1] = [claimed |-> 0, old |-> FALSE]]
  /\ Go(q, [Idle EXCEPT !.at = "save", !.owner = o, !.files = {drawn + 1}])
  /\ UNCHANGED <<bucket, mentions, owners, keys, stamp, edits, crashed>>

\* The key is answered once the object is there; the picture of an account goes on to its row.
SaveObject(q) ==
  LET r == requests[q]
  IN /\ At(q, "save")
     /\ bucket' = bucket \cup r.files
     /\ IF r.owner = None THEN Go(q, Idle) /\ keys' = keys \cup r.files ELSE Go(q, [r EXCEPT !.at = "hold"]) /\ UNCHANGED keys
     /\ UNCHANGED <<stored, mentions, owners, drawn, stamp, edits, crashed>>

-----------------------------------------------------------------------------
(* Writing a row.                                                          *)

\* create and update: the row is read, without a lock.
edit(q, o, row) ==
  /\ At(q, "idle") /\ MayWrite(o) /\ edits' = edits + 1
  /\ Names(row) \subseteq keys
  /\ Go(q, [Idle EXCEPT !.at = IF owners[o] = None THEN "create" ELSE "mention", !.owner = o, !.old = owners[o], !.new = row])
  /\ UNCHANGED <<stored, bucket, mentions, owners, keys, drawn, stamp, crashed>>

\* The account is locked and read again; an erased one takes the new picture with it.
settle_avatar(q) ==
  LET r == requests[q]
  IN /\ At(q, "hold") /\ ~LockedOwner(q, r.owner)
     /\ IF owners[r.owner] = None
        THEN Go(q, Idle) /\ bucket' = bucket \ r.files
        ELSE /\ Go(q, [r EXCEPT !.at = "mention", !.old = owners[r.owner], !.new = [Bare EXCEPT !.key = CHOOSE f \in r.files : TRUE]])
             /\ UNCHANGED bucket
     /\ UNCHANGED <<stored, mentions, owners, keys, drawn, stamp, edits, crashed>>

discard_avatar(q, o) ==
  /\ At(q, "idle") /\ edits < MaxEdits /\ ~LockedOwner(q, o) /\ edits' = edits + 1
  /\ owners[o] # None /\ owners[o] # Bare
  /\ Go(q, [Idle EXCEPT !.at = "mention", !.owner = o, !.old = owners[o], !.new = Bare])
  /\ UNCHANGED <<stored, bucket, mentions, owners, keys, drawn, stamp, crashed>>

Held(o) == {f \in File : <<f, o>> \in mentions}

\* The stamp moves on every new name.
Claimed(f, at) == [stored[f] EXCEPT !.claimed = at]

\* The flush holds the row, and mention reads what was written down of it: new names are claimed, and a file column whose file went is refused.
mention(q) ==
  LET r == requests[q]
      add == Names(r.new) \ Held(r.owner)
      stands == IF r.at = "create" THEN owners[r.owner] = None ELSE owners[r.owner] # None
      gone == r.new.key \in add /\ r.new.key \notin Stored
  IN /\ r.at \in {"create", "mention"}
     /\ ~LockedOwner(q, r.owner) /\ add \cap LockedFiles(q) = {}
     /\ Go(q, IF ~stands \/ gone THEN Idle ELSE [r EXCEPT !.at = "commit", !.add = add \cap Stored, !.drop = Held(r.owner) \ Names(r.new)])
     /\ UNCHANGED <<stored, bucket, mentions, owners, keys, drawn, stamp, edits, crashed>>

\* Only the columns the edit changed are written.
Merged(now, old, new) ==
  IF now = None THEN new
  ELSE [key |-> IF new.key # old.key THEN new.key ELSE now.key, text |-> IF new.text # old.text THEN new.text ELSE now.text]

\* What the row named when it was read and what was written down of it are both candidates of the release.
Candidates(r) == (Names(r.old) \ Names(r.new)) \cup r.drop

persist(q) ==
  LET r == requests[q]
  IN /\ At(q, "commit")
     /\ owners' = [owners EXCEPT ![r.owner] = Merged(@, r.old, r.new)]
     /\ mentions' = (mentions \cup (r.add \X {r.owner})) \ (r.drop \X {r.owner})
     /\ stored' = [f \in File |-> IF f \in r.add THEN Claimed(f, stamp + 1) ELSE stored[f]]
     /\ stamp' = IF r.add = {} THEN stamp ELSE stamp + 1
     /\ Go(q, [Idle EXCEPT !.at = "release", !.files = Candidates(r)])
     /\ UNCHANGED <<bucket, keys, drawn, edits, crashed>>

\* A commit that is refused leaves nothing, and takes the picture of an account with it.
Refused(q) ==
  /\ At(q, "commit") /\ Go(q, Idle)
  /\ bucket' = bucket \ requests[q].files
  /\ UNCHANGED <<stored, mentions, owners, keys, drawn, stamp, edits, crashed>>

\* delete and erase: the row is read (that of an account under its lock), and forget drops what was written down of it.
forget(q, o) ==
  /\ At(q, "idle") /\ edits < MaxEdits /\ edits' = edits + 1
  /\ IF o \in Record THEN MayWrite(o) ELSE ~LockedOwner(q, o)
  /\ owners[o] # None
  /\ Go(q, [Idle EXCEPT !.at = "delete", !.owner = o, !.old = owners[o], !.drop = Held(o)])
  /\ UNCHANGED <<stored, bucket, mentions, owners, keys, drawn, stamp, crashed>>

\* The row goes at the commit, which waits for whoever is writing it.
delete(q) ==
  LET r == requests[q]
  IN /\ At(q, "delete") /\ ~LockedOwner(q, r.owner)
     /\ IF owners[r.owner] = None THEN UNCHANGED <<owners, mentions>> /\ Go(q, Idle)
        ELSE /\ owners' = [owners EXCEPT ![r.owner] = None]
             /\ mentions' = mentions \ (r.drop \X {r.owner})
             /\ Go(q, [Idle EXCEPT !.at = "release", !.files = Names(r.old) \cup r.drop])
     /\ UNCHANGED <<stored, bucket, keys, drawn, stamp, edits, crashed>>

-----------------------------------------------------------------------------
(* Releasing.                                                              *)

\* The rows of the candidates are read, with their stamps.
release(q) ==
  /\ At(q, "release")
  /\ Go(q, [requests[q] EXCEPT !.at = "check", !.seen = {<<f, stored[f].claimed>> : f \in requests[q].files \cap Stored}])
  /\ UNCHANGED <<stored, bucket, mentions, owners, keys, drawn, stamp, edits, crashed>>

\* Variant: whatever a row dropped goes.
unnamed_Any == File

unnamed == {f \in File : \A o \in Owner : <<f, o>> \notin mentions}

\* The deletion reads which of them nothing names...
CheckUnnamed(q) ==
  /\ At(q, "check")
  /\ Go(q, [requests[q] EXCEPT !.at = "drop", !.seen = {s \in @ : s[1] \in unnamed}])
  /\ UNCHANGED <<stored, bucket, mentions, owners, keys, drawn, stamp, edits, crashed>>

\* ... waits for whoever is naming one, and then reads the stamp of the row again.
DropRows(q) ==
  LET gone == {f \in Stored : <<f, stored[f].claimed>> \in requests[q].seen}
  IN /\ At(q, "drop") /\ {s[1] : s \in requests[q].seen} \cap LockedFiles(q) = {}
     /\ stored' = Without(gone)
     /\ Go(q, [Idle EXCEPT !.at = "discard", !.files = gone])
     /\ UNCHANGED <<bucket, mentions, owners, keys, drawn, stamp, edits, crashed>>

\* One the storage refuses is left over, and never takes the others with it.
discard(q) ==
  /\ At(q, "discard") /\ Go(q, Idle)
  /\ \E refused \in SUBSET requests[q].files : bucket' = bucket \ (requests[q].files \ refused)
  /\ UNCHANGED <<stored, mentions, owners, keys, drawn, stamp, edits, crashed>>

-----------------------------------------------------------------------------
(* The sweep.                                                              *)

waiting == {f \in Stored : stored[f].claimed = 0 /\ stored[f].old}

discard_orphans(q) ==
  /\ At(q, "idle") /\ waiting # {}
  /\ Go(q, [Idle EXCEPT !.at = "sweep", !.files = waiting])
  /\ UNCHANGED <<stored, bucket, mentions, owners, keys, drawn, stamp, edits, crashed>>

\* Variant: what was read is deleted.
StillWaiting_Read(f) == stored[f] # None

\* A row is taken only while nothing has named it yet.
StillWaiting(f) == IF stored[f] = None THEN FALSE ELSE stored[f].claimed = 0

SweepRows(q) ==
  LET gone == {f \in requests[q].files : StillWaiting(f)}
  IN /\ At(q, "sweep") /\ requests[q].files \cap LockedFiles(q) = {}
     /\ stored' = Without(gone)
     /\ Go(q, [Idle EXCEPT !.at = "discard", !.files = gone])
     /\ UNCHANGED <<bucket, mentions, owners, keys, drawn, stamp, edits, crashed>>

\* The grace is asked of files nothing named yet, and of no other.
GracePasses(f) ==
  /\ f \in Stored /\ ~stored[f].old /\ stored[f].claimed = 0
  /\ stored' = [stored EXCEPT ![f].old = TRUE]
  /\ UNCHANGED <<bucket, mentions, owners, keys, requests, drawn, stamp, edits, crashed>>

\* A process that stops leaves what it committed; before its commit, that is nothing at all.
Crash(q) ==
  /\ requests[q].at \in {"save", "hold", "release", "check", "drop", "discard"} /\ ~crashed
  /\ crashed' = TRUE /\ Go(q, Idle)
  /\ UNCHANGED <<stored, bucket, mentions, owners, keys, drawn, stamp, edits>>

Step(q) ==
  \/ SaveObject(q) \/ settle_avatar(q) \/ mention(q) \/ persist(q) \/ Refused(q) \/ delete(q)
  \/ release(q) \/ CheckUnnamed(q) \/ DropRows(q) \/ discard(q) \/ SweepRows(q)

Next ==
  \/ \E q \in Request :
       \/ Step(q) \/ discard_orphans(q) \/ Crash(q)
       \/ \E o \in Account \cup {None} : store(q, o)
       \/ \E o \in Owner : forget(q, o)
       \/ \E o \in Account : discard_avatar(q, o)
       \/ \E o \in Record, key \in keys \cup {None}, text \in SUBSET keys : edit(q, o, [key |-> key, text |-> text])
  \/ \E f \in File : GracePasses(f)

Spec == Init /\ [][Next]_vars

-----------------------------------------------------------------------------
(* What must hold.                                                         *)

\* Rows have the shape of their tables; a mention is of a file that is written down, and a file nothing ever named is never claimed.
FilesTypeOK ==
  /\ stored \in [File -> StoredRow \cup {None}]
  /\ owners \in [Owner -> OwnerRow \cup {None}]
  /\ keys \subseteq File /\ mentions \subseteq (Stored \X Owner)
  /\ \A s \in mentions : stored[s[1]].claimed > 0

\* A row never names, in a column of its own, a file that left the bucket: whatever another row drops, releases or deletes meanwhile, and whenever the sweep runs.
NamedFileStays == \A o \in Owner : owners[o] # None => owners[o].key \in bucket \cup {None}

\* Every name a row holds is written down, so that a release knows of it: of a file that is stored, in a column or in markup.
NamesAreWritten == \A o \in Owner : \A f \in Names(owners[o]) \cap Stored : <<f, o>> \in mentions

\* Once every request is over, and if none was cut in half, a file that was named and no longer is has left its row: two edits of one row that each drop a different file leave neither behind.
DroppedIsReleased ==
  (~crashed /\ \A q \in Request : At(q, "idle")) => \A f \in Stored : stored[f].claimed > 0 => f \notin unnamed

\* A file stays exactly as long as something names it: none that is named leaves, and none that was dropped stays.
FilesInv == FilesTypeOK /\ NamedFileStays /\ NamesAreWritten /\ DroppedIsReleased
=============================================================================
