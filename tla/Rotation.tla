------------------------------ MODULE Rotation ------------------------------
(***************************************************************************)
(* services/rotation_service.py: replacing the key stored secrets are      *)
(* written with.  The new key is put in front, one transaction reads every *)
(* stored secret with any key and writes it back with the first, and then  *)
(* the old key is taken away.  The panel goes on saving secrets meanwhile. *)
(*                                                                         *)
(* A step is one statement at read committed; a row the rewrite updated is *)
(* locked to its commit, and a save of the panel on it waits.              *)
(***************************************************************************)
EXTENDS Integers, Sequences, FiniteSetsExt

CONSTANTS
  SecretRow,    \* ids, as numbers
  BATCH_SIZE,
  MaxSaves,     \* bound on the secrets the panel saves
  MaxRewrites   \* bound on the rewrites started

ASSUME RotationAssumption ==
  /\ SecretRow \subseteq Nat \ {0} /\ (SecretRow = {} \/ \E last \in SecretRow : \A i \in SecretRow : i <= last)
  /\ BATCH_SIZE \in Nat \ {0} /\ MaxSaves \in Nat /\ MaxRewrites \in Nat

VARIABLES
  secret,     \* [SecretRow -> the committed column, NoSecret where the row has none]
  keys,       \* keys the processes are configured with, the one that writes first
  rewrite,    \* the rewrite: where it is, the last id it passed, the page it read, and what it wrote and did not commit
  rewrites,
  saves,      \* secrets the panel saved, which numbers them
  lastSaved   \* [SecretRow -> number of the secret the panel saved last, 0 for none]

rotationVars == <<secret, keys, rewrite, rewrites, saves, lastSaved>>

NoSecret == [key |-> "none", value |-> 0]
\* A row of the table whose column is written by any of the keys that could have been there at first.
AtFirst == {NoSecret, [key |-> "old", value |-> 0], [key |-> "lost", value |-> 0]}
Resting == [at |-> "idle", last |-> 0, page |-> {}, wrote |-> {}]

RotationInit ==
  /\ secret \in [SecretRow -> AtFirst]
  /\ keys = <<"new", "old">> /\ rewrite = Resting /\ rewrites = 0
  /\ saves = 0 /\ lastSaved = [i \in SecretRow |-> 0]

Readable(s) == \E k \in DOMAIN keys : keys[k] = s.key
encrypt(value) == [key |-> keys[1], value |-> value]

RewriteAt(at) == rewrite.at = at
WrittenBy(i) == {w \in rewrite.wrote : w.id = i}

RewriteStarts ==
  /\ RewriteAt("idle") /\ rewrites < MaxRewrites /\ Len(keys) = 2
  /\ rewrite' = [Resting EXCEPT !.at = "page"]
  /\ rewrites' = rewrites + 1
  /\ UNCHANGED <<secret, keys, saves, lastSaved>>

Beyond == {i \in SecretRow : i > rewrite.last}

\* One page of rows past the last id, with the columns as they are committed now; an empty page is the end.
ReadsPage ==
  /\ RewriteAt("page")
  /\ LET ids == {i \in Beyond : Cardinality({j \in Beyond : j <= i}) <= BATCH_SIZE}
     IN rewrite' = IF ids = {} THEN [rewrite EXCEPT !.at = "commit"]
                   ELSE [rewrite EXCEPT !.at = "row", !.page = {[id |-> i, kept |-> secret[i]] : i \in ids}, !.last = Max(ids)]
  /\ UNCHANGED <<secret, keys, rewrites, saves, lastSaved>>

NextRow == CHOOSE row \in rewrite.page : \A other \in rewrite.page : row.id <= other.id
RowDone(wrote) == [rewrite EXCEPT !.page = @ \ {NextRow}, !.wrote = @ \cup wrote, !.at = IF rewrite.page = {NextRow} THEN "page" ELSE "row"]

\* Variant: the update asks for the id alone.
rewrite_row_Unconditional ==
  LET row == NextRow
  IN /\ RewriteAt("row")
     /\ rewrite' = IF row.kept = NoSecret THEN RowDone({}) ELSE IF ~Readable(row.kept) THEN Resting
                   ELSE RowDone({[id |-> row.id, kept |-> encrypt(row.kept.value)]})
     /\ UNCHANGED <<secret, keys, rewrites, saves, lastSaved>>

\* An empty column is passed over, one no key opens or that changed since the page was read ends the rewrite and rolls it back.
rewrite_row ==
  LET row == NextRow
  IN /\ RewriteAt("row")
     /\ rewrite' = IF row.kept = NoSecret THEN RowDone({})
                   ELSE IF ~Readable(row.kept) \/ secret[row.id] # row.kept THEN Resting
                   ELSE RowDone({[id |-> row.id, kept |-> encrypt(row.kept.value)]})
     /\ UNCHANGED <<secret, keys, rewrites, saves, lastSaved>>

\* Everything the rewrite wrote lands at once.
RewriteCommits ==
  /\ RewriteAt("commit")
  /\ secret' = [i \in SecretRow |-> IF WrittenBy(i) # {} THEN (CHOOSE w \in WrittenBy(i) : TRUE).kept ELSE secret[i]]
  /\ rewrite' = [Resting EXCEPT !.at = "done"]
  /\ UNCHANGED <<keys, rewrites, saves, lastSaved>>

\* The command dies, and the database rolls back what it wrote.
RewriteDies ==
  /\ rewrite.at \in {"page", "row", "commit"}
  /\ rewrite' = Resting
  /\ UNCHANGED <<secret, keys, rewrites, saves, lastSaved>>

\* The panel saves a secret, written with the first key; it waits while the rewrite holds the row.
PanelSaves(i) ==
  /\ saves < MaxSaves /\ WrittenBy(i) = {}
  /\ saves' = saves + 1
  /\ secret' = [secret EXCEPT ![i] = encrypt(saves + 1)]
  /\ lastSaved' = [lastSaved EXCEPT ![i] = saves + 1]
  /\ UNCHANGED <<keys, rewrite, rewrites>>

\* Once a rewrite said it is done, the old key is taken away.
OldKeyLeaves ==
  /\ RewriteAt("done") /\ Len(keys) = 2
  /\ keys' = <<"new">>
  /\ UNCHANGED <<secret, rewrite, rewrites, saves, lastSaved>>

RotationNext ==
  \/ RewriteStarts \/ ReadsPage \/ rewrite_row \/ RewriteCommits \/ RewriteDies \/ OldKeyLeaves
  \/ \E i \in SecretRow : PanelSaves(i)

RotationSpec == RotationInit /\ [][RotationNext]_rotationVars

-----------------------------------------------------------------------------
(* What must hold.                                                         *)

\* The rows, the keys and the rewrite have the shape the code gives them.
RotationTypeOK ==
  /\ \A i \in SecretRow : secret[i].key \in {"none", "old", "new", "lost"} /\ secret[i].value \in 0..MaxSaves
  /\ keys \in {<<"new", "old">>, <<"new">>}
  /\ rewrite.at \in {"idle", "page", "row", "commit", "done"} /\ rewrites \in 0..MaxRewrites /\ saves \in 0..MaxSaves

\* The secret of a row is the last one the panel saved: a rewrite that read it earlier never brings the older one back.
NewestSecretStays == \A i \in SecretRow : secret[i].value = lastSaved[i]

\* Once the old key is gone every stored secret still opens, those saved while the rewrite ran included.
EverySecretOpens == Len(keys) = 1 => \A i \in SecretRow : secret[i] = NoSecret \/ Readable(secret[i])

\* Rotating loses no secret: neither the newest word of the panel nor, once the old key is gone, the way to read it.
RotationInv == RotationTypeOK /\ NewestSecretStays /\ EverySecretOpens
=============================================================================
