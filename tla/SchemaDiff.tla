----------------------------- MODULE SchemaDiff -----------------------------
(***************************************************************************)
(* services/schema_diff.py: what the database in place lacks of the schema *)
(* the code declares, and the ddl proposed for it, which an operator runs  *)
(* as a script.  MySQL stops at the first statement it refuses, so what    *)
(* matters is the order the statements come in and what each finds there.  *)
(*                                                                         *)
(* External, from how MySQL answers each statement: Refuses and Applied.   *)
(* Rows are left out, so a unique over rows that repeat is not met here.   *)
(***************************************************************************)
EXTENDS Integers, Sequences, SequencesExt

CONSTANTS
  SchemaTables,  \* tables of the metadata, in the order sorted_tables gives them
  FreshSchema,   \* what the code declares, as a server built it
  Filling,       \* [<<table, column>> -> "nullable", "filled" or "undecided"] for the columns declared
  InPlace        \* schemas a database may be found with

VARIABLES
  live,      \* what the database holds
  script,    \* statements left to run
  round,     \* comparisons made so far
  stoppedAt  \* the statement MySQL refused, NoStatement while it refused none

schemaVars == <<live, script, round, stoppedAt>>

NoStatement == <<"none">>

\* A column is named by its table and itself, and so are an index and a foreign key (by its column).
NameOf(row) == <<row.table, row.name>>
Names(rows) == {NameOf(row) : row \in rows}
OfTable(rows, t) == {row \in rows : row.table = t}

-----------------------------------------------------------------------------
(* The comparison.                                                         *)

Parts == {"columns", "indexes", "keys"}

difference(fresh, current) ==
  [tables |-> fresh.tables \ current.tables,
   missing |-> [part \in Parts |-> fresh[part] \ current[part]],
   extra |-> [part \in Parts |-> current[part] \ fresh[part]]]

reshaped(shapes, part) == Names(shapes.missing[part]) \cap Names(shapes.extra[part])

\* Variant: the default that filled the rows stays on the column.
adding_KeepsDefault(column) ==
  CASE Filling[NameOf(column)] = "nullable" -> <<<<"add column", column>>>>
    [] Filling[NameOf(column)] = "filled" -> <<<<"add filled", column>>>>
    [] OTHER -> <<>>

\* The statements of a column: one a person has to decide about is only a comment.
adding(column) ==
  CASE Filling[NameOf(column)] = "nullable" -> <<<<"add column", column>>>>
    [] Filling[NameOf(column)] = "filled" -> <<<<"add filled", column>>, <<"drop default", column>>>>
    [] OTHER -> <<>>

\* The columns of the table the script leaves to a person.
Undecided(shapes, t) == {row.name : row \in {c \in OfTable(shapes.missing["columns"], t) : Filling[NameOf(c)] = "undecided"}}

CreatesTable(t) ==
  <<<<"create table", t>>>> \o SetToSeq({<<"create index", row>> : row \in OfTable(FreshSchema.indexes, t)})

AddsColumns(shapes, t) == FlattenSeq([i \in DOMAIN SetToSeq(OfTable(shapes.missing["columns"], t)) |-> adding(SetToSeq(OfTable(shapes.missing["columns"], t))[i])])

\* Variant: an index that changed its shape is created over the one that has its name.
AddsIndexes_Collides(shapes, t) ==
  SetToSeq({<<"create index", row>> : row \in {i \in OfTable(shapes.missing["indexes"], t) : ToSet(i.columns) \cap Undecided(shapes, t) = {}}})

\* Indexes and uniques: those over a column nobody decided about wait, and one that changed its shape goes first.
AddsIndexes(shapes, t) ==
  LET ready == SetToSeq({row \in OfTable(shapes.missing["indexes"], t) : ToSet(row.columns) \cap Undecided(shapes, t) = {}})
      lines(row) == IF NameOf(row) \in reshaped(shapes, "indexes") THEN <<<<"drop index", row>>, <<"create index", row>>>> ELSE <<<<"create index", row>>>>
  IN FlattenSeq([i \in DOMAIN ready |-> lines(ready[i])])

AddsKeys(shapes, t) ==
  LET ready == SetToSeq({row \in OfTable(shapes.missing["keys"], t) : row.name \notin Undecided(shapes, t)})
      lines(row) == IF NameOf(row) \in reshaped(shapes, "keys") THEN <<<<"drop key", row>>, <<"add key", row>>>> ELSE <<<<"add key", row>>>>
  IN FlattenSeq([i \in DOMAIN ready |-> lines(ready[i])])

statements_for(shapes) ==
  LET lines(t) == IF t \in shapes.tables THEN CreatesTable(t)
                  ELSE AddsColumns(shapes, t) \o AddsIndexes(shapes, t) \o AddsKeys(shapes, t)
  IN FlattenSeq([i \in DOMAIN SchemaTables |-> lines(SchemaTables[i])])

-----------------------------------------------------------------------------
(* External: what MySQL makes of a statement.                              *)

\* A foreign key needs an index its column leads, and the last one is not dropped from under it.
Carries(index) ==
  \E key \in live.keys :
    /\ key.table = index.table /\ key.name = Head(index.columns)
    /\ \A other \in OfTable(live.indexes, index.table) \ {index} : Head(other.columns) # key.name

Refuses(s) ==
  LET row == s[2]
  IN CASE s[1] = "create table" -> row \in live.tables \/ \E key \in OfTable(FreshSchema.keys, row) : key.to # row /\ key.to \notin live.tables
       [] s[1] \in {"add column", "add filled"} -> row.table \notin live.tables \/ NameOf(row) \in Names(live.columns)
       [] s[1] = "drop default" -> NameOf(row) \notin Names(live.columns)
       [] s[1] = "create index" -> NameOf(row) \in Names(live.indexes) \/ \E c \in ToSet(row.columns) : <<row.table, c>> \notin Names(live.columns)
       [] s[1] = "drop index" -> \A old \in live.indexes : NameOf(old) # NameOf(row) \/ Carries(old)
       [] s[1] = "drop key" -> NameOf(row) \notin Names(live.keys)
       [] OTHER -> NameOf(row) \notin Names(live.columns) \/ row.to \notin live.tables

\* A second key of one column is let in, and enforces its own rule beside the first.
Applied(s) ==
  LET row == s[2]
  IN CASE s[1] = "create table" -> [live EXCEPT !.tables = @ \cup {row}, !.columns = @ \cup OfTable(FreshSchema.columns, row), !.keys = @ \cup OfTable(FreshSchema.keys, row)]
       [] s[1] = "add column" -> [live EXCEPT !.columns = @ \cup {row}]
       [] s[1] = "add filled" -> [live EXCEPT !.columns = @ \cup {[row EXCEPT !.shape = "default kept"]}]
       [] s[1] = "drop default" -> [live EXCEPT !.columns = {c \in @ : NameOf(c) # NameOf(row)} \cup {row}]
       [] s[1] = "create index" -> [live EXCEPT !.indexes = @ \cup {row}]
       [] s[1] = "drop index" -> [live EXCEPT !.indexes = {i \in @ : NameOf(i) # NameOf(row)}]
       [] s[1] = "drop key" -> [live EXCEPT !.keys = {k \in @ : NameOf(k) # NameOf(row)}]
       [] OTHER -> [live EXCEPT !.keys = @ \cup {row}]

-----------------------------------------------------------------------------

SchemaInit == live \in InPlace /\ script = <<>> /\ round = 0 /\ stoppedAt = NoStatement

\* The schema is built, the one in place read, and the proposal written.
compare ==
  /\ round = 0 /\ script = <<>>
  /\ script' = statements_for(difference(FreshSchema, live))
  /\ round' = 1
  /\ UNCHANGED <<live, stoppedAt>>

RunsStatement ==
  /\ script # <<>> /\ stoppedAt = NoStatement
  /\ IF Refuses(Head(script)) THEN stoppedAt' = Head(script) /\ UNCHANGED <<live, script>>
     ELSE live' = Applied(Head(script)) /\ script' = Tail(script) /\ UNCHANGED stoppedAt
  /\ UNCHANGED round

Finished == round > 0 /\ script = <<>> /\ stoppedAt = NoStatement

\* Somebody says what the rows hold, brings the columns left to them to what is declared, and compares again.
DecidesAndCompares ==
  LET left == {c \in FreshSchema.columns : Filling[NameOf(c)] = "undecided"}
      decided == [live EXCEPT !.columns = {c \in @ : NameOf(c) \notin Names(left)} \cup left]
  IN /\ Finished /\ round = 1
     /\ live' = decided
     /\ script' = statements_for(difference(FreshSchema, decided))
     /\ round' = 2
     /\ UNCHANGED stoppedAt

SchemaNext == compare \/ RunsStatement \/ DecidesAndCompares

-----------------------------------------------------------------------------
(* What must hold.                                                         *)

\* The database, the script and its end have the shape the code gives them.
SchemaTypeOK ==
  /\ live.tables \subseteq ToSet(SchemaTables) /\ \A part \in Parts : \A row \in live[part] : row.table \in live.tables
  /\ round \in 0..2
  /\ \A i \in DOMAIN script : script[i][1] \in {"create table", "add column", "add filled", "drop default", "create index", "drop index", "drop key", "add key"}

\* The script stops in two places only: adding a column that is there under another shape, and dropping an index a foreign key
\* still rests on.  Everything else it proposes finds what it needs, in the order it is written in.
StopsOnlyAtTwo ==
  stoppedAt # NoStatement =>
    \/ stoppedAt[1] \in {"add column", "add filled"} /\ \E c \in live.columns : NameOf(c) = NameOf(stoppedAt[2]) /\ c.shape = "other"
    \/ stoppedAt[1] = "drop index" /\ \E i \in live.indexes : NameOf(i) = NameOf(stoppedAt[2]) /\ Carries(i)

\* A script that ran to its end left out only what somebody has to decide about and what rests on it, and once they decided nothing is missing.
ProposalIsWhole ==
  Finished =>
    LET left == difference(FreshSchema, live)
    IN /\ left.tables = {}
       /\ \A c \in left.missing["columns"] : round = 1 /\ Filling[NameOf(c)] = "undecided"
       /\ \A i \in left.missing["indexes"] : ToSet(i.columns) \cap Undecided(left, i.table) # {}
       /\ \A k \in left.missing["keys"] : k.name \in Undecided(left, k.table)

\* A column is never left with two foreign keys, the old rule still enforced beside the new one.
OneKeyPerColumn == \A j, k \in live.keys : NameOf(j) = NameOf(k) => j = k

\* A proposal runs in the order it is written in, stops at two known places only, and lacks nothing but what it says somebody has to decide.
SchemaInv == SchemaTypeOK /\ StopsOnlyAtTwo /\ ProposalIsWhole /\ OneKeyPerColumn
=============================================================================
