------------------------------- MODULE Startup -------------------------------
(***************************************************************************)
(* helpers/schema.py and helpers/lifespan.py: copies of the image start    *)
(* together, and each builds the schema before it serves.  The lock of the *)
(* database settles which of them builds, and goes with its session when   *)
(* the copy dies.  A copy that stops lets what its worker runs finish.     *)
(*                                                                         *)
(* MySQL commits each table as it is created.  PostgreSQL creates them in  *)
(* the transaction of the start: nobody else sees them before its commit,  *)
(* and a second creation of one waits for that.                            *)
(***************************************************************************)
EXTENDS Integers, FiniteSets

CONSTANTS
  Copy,            \* copies of the process
  OwnedTables,     \* tables the metadata declares
  Dialect,         \* "mysql" or "postgresql"
  MaxCopyDeaths    \* bound on the copies that die

NoCopy == "no copy"

ASSUME StartupAssumption == Dialect \in {"mysql", "postgresql"} /\ MaxCopyDeaths \in Nat /\ NoCopy \notin Copy

VARIABLES
  built,       \* tables the database holds
  schemaLock,  \* the copy that holds the lock, NoCopy while it is free
  copy,        \* [Copy -> where the process is, the tables it found missing, those it created and did not commit, whether its worker is in the middle of a pass]
  copyDeaths

startupVars == <<built, schemaLock, copy, copyDeaths>>

CopyPlaces == {"starts", "look", "build", "commit", "serves", "stopping", "stopped", "gave up", "collided"}

Starting == [at |-> "starts", missing |-> {}, wrote |-> {}, pass |-> FALSE]

StartupInit ==
  /\ built \in SUBSET OwnedTables
  /\ schemaLock = NoCopy
  /\ copy = [c \in Copy |-> Starting]
  /\ copyDeaths = 0

CopyAt(c, at) == copy[c].at = at
Unlocks(c) == schemaLock' = IF schemaLock = c THEN NoCopy ELSE schemaLock

\* Variant: nobody takes the lock.
TakesLock_None(c) ==
  /\ CopyAt(c, "starts")
  /\ copy' = [copy EXCEPT ![c].at = "look"]
  /\ UNCHANGED <<built, schemaLock, copyDeaths>>

\* GET_LOCK waits for the copy that holds it.
TakesLock(c) ==
  /\ CopyAt(c, "starts") /\ schemaLock = NoCopy
  /\ schemaLock' = c
  /\ copy' = [copy EXCEPT ![c].at = "look"]
  /\ UNCHANGED <<built, copyDeaths>>

\* Ten minutes of waiting end the start of a copy.
GivesUp(c) ==
  /\ CopyAt(c, "starts") /\ schemaLock # NoCopy
  /\ copy' = [copy EXCEPT ![c].at = "gave up"]
  /\ UNCHANGED <<built, schemaLock, copyDeaths>>

\* create_all reads which tables are there.
LooksForTables(c) ==
  /\ CopyAt(c, "look")
  /\ copy' = [copy EXCEPT ![c].at = "build", ![c].missing = OwnedTables \ built]
  /\ UNCHANGED <<built, schemaLock, copyDeaths>>

\* Each table it missed is created, and one that is there by now is refused and ends the start.
CreatesOne(c, t) ==
  /\ CopyAt(c, "build") /\ t \in copy[c].missing
  /\ \A other \in Copy \ {c} : t \notin copy[other].wrote
  /\ IF t \in built THEN copy' = [copy EXCEPT ![c].at = "collided", ![c].wrote = {}] /\ Unlocks(c) /\ UNCHANGED built
     ELSE /\ built' = IF Dialect = "mysql" THEN built \cup {t} ELSE built
          /\ copy' = [copy EXCEPT ![c].missing = @ \ {t}, ![c].wrote = IF Dialect = "mysql" THEN @ ELSE @ \cup {t}]
          /\ UNCHANGED schemaLock
  /\ UNCHANGED copyDeaths

\* The lock is given back as its block ends, which is inside the one of the transaction.
GivesLockBack(c) ==
  /\ CopyAt(c, "build") /\ copy[c].missing = {}
  /\ Unlocks(c)
  /\ copy' = [copy EXCEPT ![c].at = "commit"]
  /\ UNCHANGED <<built, copyDeaths>>

\* The transaction commits, the worker starts and the copy serves.
CommitsSchema(c) ==
  /\ CopyAt(c, "commit")
  /\ built' = built \cup copy[c].wrote
  /\ copy' = [copy EXCEPT ![c].at = "serves", ![c].wrote = {}]
  /\ UNCHANGED <<schemaLock, copyDeaths>>

\* The worker begins and ends a pass of a job.
WorkerTurns(c) ==
  /\ copy[c].at \in {"serves", "stopping"}
  /\ CopyAt(c, "stopping") => copy[c].pass
  /\ copy' = [copy EXCEPT ![c].pass = ~@]
  /\ UNCHANGED <<built, schemaLock, copyDeaths>>

\* The worker is told to stop, and takes nothing more.
CopyStops(c) ==
  /\ CopyAt(c, "serves")
  /\ copy' = [copy EXCEPT ![c].at = "stopping"]
  /\ UNCHANGED <<built, schemaLock, copyDeaths>>

\* What runs is waited for, and then the connections go.
CopyLeaves(c) ==
  /\ CopyAt(c, "stopping") /\ ~copy[c].pass
  /\ copy' = [copy EXCEPT ![c].at = "stopped"]
  /\ UNCHANGED <<built, schemaLock, copyDeaths>>

\* A copy dies while it starts: its session ends and the lock with it, while tables it committed stay.  Another is started in its place.
CopyDies(c) ==
  /\ copy[c].at \in {"starts", "look", "build", "commit"} /\ copyDeaths < MaxCopyDeaths
  /\ copyDeaths' = copyDeaths + 1
  /\ Unlocks(c)
  /\ copy' = [copy EXCEPT ![c] = Starting]
  /\ UNCHANGED built

StartupNext ==
  \E c \in Copy :
    \/ TakesLock(c) \/ GivesUp(c) \/ LooksForTables(c) \/ GivesLockBack(c) \/ CommitsSchema(c) \/ WorkerTurns(c) \/ CopyStops(c) \/ CopyLeaves(c) \/ CopyDies(c)
    \/ \E t \in OwnedTables : CreatesOne(c, t)

StartupSpec == StartupInit /\ [][StartupNext]_startupVars

-----------------------------------------------------------------------------
(* What must hold.                                                         *)

\* The database, the lock and the copies have the shape the code gives them.
StartupTypeOK ==
  /\ built \subseteq OwnedTables /\ schemaLock \in Copy \cup {NoCopy} /\ copyDeaths \in 0..MaxCopyDeaths
  /\ copy \in [Copy -> [at : CopyPlaces, missing : SUBSET OwnedTables, wrote : SUBSET OwnedTables, pass : BOOLEAN]]

\* Copies that start together never die on a table another of them just created, not even where one died half way and its lock went with it.
NobodyCollides == \A c \in Copy : ~CopyAt(c, "collided")

\* A copy serves over a whole schema, and leaves no pass of a job cut in half.
ServesWhole == \A c \in Copy : (CopyAt(c, "serves") => built = OwnedTables) /\ (CopyAt(c, "stopped") => ~copy[c].pass)

\* Copies that start together serve over a whole schema, none of them dies of another, and none leaves its work in half.
StartupInv == StartupTypeOK /\ NobodyCollides /\ ServesWhole
=============================================================================
