------------------------------ MODULE MCRecords ------------------------------
(* What the panel writes: the rows of two brands and what points at what,  *)
(* and the files that rows and accounts name.  The two share no row, so a  *)
(* behaviour is that of one of them while the other rests.                 *)
EXTENDS Catalogue, Files, TLC

CONSTANTS t1, t2, w1, q1, q2, r1, r2, a1

VARIABLE part

Alike == Permutations(Tenant) \cup Permutations(Request) \cup Permutations(Record)

recordsVars == <<part, catalogueVars, vars>>

\* A later start of the files: a record already names the one that was uploaded.
OneIsNamed(r) ==
  /\ stored = [f \in File |-> IF f = 1 THEN [claimed |-> 1, old |-> FALSE] ELSE None] /\ bucket = {1} /\ mentions = {<<1, r>>}
  /\ owners = [o \in Owner |-> IF o = r THEN [key |-> 1, text |-> {}] ELSE IF o \in Account THEN Bare ELSE None] /\ keys = {1}
  /\ requests = [q \in Request |-> Idle]
  /\ drawn = 1 /\ stamp = 1 /\ edits = 0 /\ crashed = FALSE

RecordsInit ==
  /\ CatalogueInit
  /\ \/ part = "catalogue" /\ Init
     \/ part = "files" /\ (Init \/ \E r \in Record : OneIsNamed(r))

RecordsNext ==
  /\ UNCHANGED part
  /\ \/ part = "catalogue" /\ CatalogueNext /\ UNCHANGED vars
     \/ part = "files" /\ Next /\ UNCHANGED catalogueVars

RecordsSpec == RecordsInit /\ [][RecordsNext]_recordsVars
=============================================================================
