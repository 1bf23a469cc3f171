------------------------------- MODULE Catalogue -------------------------------
(***************************************************************************)
(* The write path every resource of the panel shares, over the catalogue:  *)
(* who may read and write which row, which row may point at which, and     *)
(* what a deletion takes along (services/crud_service.py with the services *)
(* of currencies, products, entitlements, benefits, plans, categories,     *)
(* contents and tenants).                                                  *)
(*                                                                         *)
(* A request has two steps: what it reads and refuses, and the commit.     *)
(* Nothing it read is locked in between.                                   *)
(***************************************************************************)
EXTENDS Integers, FiniteSets, Sequences

CONSTANTS
  Id,       \* primary keys, an interval from 1
  Tenant,   \* brands
  PanelRequest,  \* requests at work at the same time
  NoRow

VARIABLES
  tenants,   \* brands that exist
  rows,      \* [Id -> a row, None before it is inserted and after it is deleted]
  lastId,    \* the last primary key
  panel,     \* [PanelRequest -> what it read, or None]
  touched,   \* history: who wrote last, and the brands of the rows it wrote
  refused    \* history: the deletion of a brand met a row something still points at

catalogueVars == <<tenants, rows, lastId, panel, touched, refused>>

-----------------------------------------------------------------------------
(* What the models declare.                                                *)

Model == {"currency", "product", "entitlement", "benefit", "plan", "plan_entitlement", "category", "content"}

\* The columns that point at another row, by the model they point at.
referenced == [m \in Model |->
  CASE m = "product" -> {"currency"}
    [] m = "benefit" -> {"entitlement", "product", "currency"}
    [] m = "plan_entitlement" -> {"plan", "entitlement"}
    [] m = "content" -> {"category"}
    [] OTHER -> {}]

\* reaches_through: a child carries no tenant, and is confined by the row it belongs to.
reaches_through == [m \in Model |-> CASE m = "benefit" -> "entitlement" [] m = "plan_entitlement" -> "plan" [] OTHER -> NoRow]
Branded(m) == reaches_through[m] = NoRow

\* dependents: what goes before its parent.
dependents == [m \in Model |-> CASE m = "entitlement" -> {"benefit", "plan_entitlement"} [] m = "plan" -> {"plan_entitlement"} [] OTHER -> {}]

\* Keys the database refuses to leave behind; every other one cascades.
Restricted == {<<"product", "currency">>, <<"benefit", "product">>, <<"benefit", "currency">>, <<"content", "category">>}

\* The order a brand is emptied in; its categories go with the row of the brand itself.
TENANT_DEPENDENTS == <<"entitlement", "plan", "product", "currency", "content", "category">>

Required(m) == CASE m = "benefit" -> {"entitlement"} [] m = "plan_entitlement" -> {"plan", "entitlement"} [] OTHER -> {}

Row == UNION {[model : {m}, tenant : Tenant \cup {NoRow}, refs : [referenced[m] -> Id \cup {NoRow}]] : m \in Model}

ASSUME CatalogueAssumption == Id \subseteq Nat \ {0} /\ IsFiniteSet(Id) /\ NoRow \notin Id \cup Tenant /\ NoRow \notin Model /\ NoRow \notin Row

CatalogueInit ==
  /\ tenants = Tenant
  /\ rows = [i \in Id |-> NoRow] /\ lastId = 0
  /\ panel = [q \in PanelRequest |-> NoRow]
  /\ touched = [by |-> NoRow, of |-> {}] /\ refused = FALSE

-----------------------------------------------------------------------------
(* Reach.                                                                  *)

Written == {i \in Id : rows[i] # NoRow}
Of(m) == {i \in Written : rows[i].model = m}
Pointing(m, f, i) == {j \in Of(m) : rows[j].refs[f] = i}

\* The brand a row belongs to, through the row it belongs to when it carries none of its own.
Brand(row) == IF Branded(row.model) THEN row.tenant ELSE rows[row.refs[reaches_through[row.model]]].tenant

\* An operator of a brand may reach the shared rows too; one of no brand reaches everything.
Operator == [tenant : tenants, reaches_shared : BOOLEAN] \cup [tenant : {NoRow}, reaches_shared : {TRUE}]

\* Reaching the shared rows is reading them, never writing one.
confinement(op, i, writing) ==
  op.tenant # NoRow => Brand(rows[i]) = op.tenant \/ (op.reaches_shared /\ ~writing /\ Brand(rows[i]) = NoRow)

\* What an operator of one brand writes belongs to that brand.
stamped(row, op) == IF op.tenant # NoRow /\ Branded(row.model) THEN [row EXCEPT !.tenant = op.tenant] ELSE row

-----------------------------------------------------------------------------
(* What is refused.                                                        *)

ensure_references_are_reachable(row, op, i) ==
  \A f \in referenced[row.model] :
    (row.refs[f] # NoRow /\ (IF i = NoRow THEN TRUE ELSE row.refs[f] # rows[i].refs[f]))
      => row.refs[f] \in Of(f) /\ confinement(op, row.refs[f], f = reaches_through[row.model])

\* Variant: a row moves between brands whatever points at it.
ensure_referrers_still_reach_Never(row, i) == TRUE

\* A row moves into one brand only while nothing points at it.
ensure_referrers_still_reach(row, i) ==
  (Branded(row.model) /\ row.tenant \notin {NoRow, rows[i].tenant}) => \A m \in Model : row.model \in referenced[m] => Pointing(m, row.model, i) = {}

\* A row moves into every brand only while none of its children points into one.
ensure_children_stay_shared(row, i) ==
  (Branded(row.model) /\ rows[i].tenant # NoRow /\ row.tenant = NoRow) =>
    \A m \in Model : reaches_through[m] = row.model =>
      \A j \in Pointing(m, row.model, i), f \in referenced[m] \ {row.model} : rows[j].refs[f] # NoRow => rows[rows[j].refs[f]].tenant = NoRow

\* ensure_reaches, as validate asks it of every key but the parent's: a row points only at what its own brand reaches.
validate(row) ==
  \A f \in referenced[row.model] \ {reaches_through[row.model]} : row.refs[f] # NoRow => rows[row.refs[f]].tenant \in {NoRow, Brand(row)}

\* What a payload can say of a row of model m: rows of the models its keys are of.  A benefit is a product or an amount of a currency (validate_payload).
Named(m) ==
  {refs \in [referenced[m] -> Written \cup {NoRow}] :
     /\ \A f \in referenced[m] : IF refs[f] = NoRow THEN f \notin Required(m) ELSE rows[refs[f]].model = f
     /\ m = "benefit" => NoRow \in {refs["product"], refs["currency"]}}
Payload(m) == [model : {m}, tenant : IF Branded(m) THEN tenants \cup {NoRow} ELSE {NoRow}, refs : Named(m)]

-----------------------------------------------------------------------------
(* Requests.                                                               *)

IdlePanel(q) == panel[q] = NoRow
Read(q, kind, op, i, row) ==
  /\ panel' = [panel EXCEPT ![q] = [kind |-> kind, op |-> op, id |-> i, row |-> row, was |-> IF kind = "update" THEN rows[i] ELSE NoRow]]
  /\ touched' = [by |-> NoRow, of |-> {}]
  /\ UNCHANGED <<tenants, rows, lastId, refused>>

create(q, op) ==
  /\ IdlePanel(q)
  /\ \E m \in Model : \E row \in Payload(m) :
       LET new == stamped(row, op)
       IN ensure_references_are_reachable(new, op, NoRow) /\ validate(new) /\ Read(q, "create", op, NoRow, new)

update(q, op, i) ==
  /\ IdlePanel(q) /\ i \in Written /\ confinement(op, i, TRUE)
  /\ \E row \in Payload(rows[i].model) :
       LET new == stamped(row, op)
       IN /\ ensure_references_are_reachable(new, op, i) /\ ensure_referrers_still_reach(new, i) /\ ensure_children_stay_shared(new, i)
          /\ validate(new) /\ Read(q, "update", op, i, new)

delete_record(q, op, i) == IdlePanel(q) /\ i \in Written /\ confinement(op, i, TRUE) /\ Read(q, "delete", op, i, NoRow)

\* The order an operator dragged into place: every row of it is one it may write, or nothing is.
reorder(q, op, ids) ==
  /\ IdlePanel(q) /\ ids # {} /\ ids \subseteq Of("product") /\ \A i \in ids : confinement(op, i, TRUE)
  /\ Read(q, "reorder", op, ids, NoRow)

\* A catalogue of the system is managed by an operator of no brand.
delete_tenant(q, op, t) == IdlePanel(q) /\ op.tenant = NoRow /\ t \in tenants /\ Read(q, "tenant", op, t, NoRow)

\* What lands, with the brands of the rows it wrote, or the refusal of the database.
Wrote(q, ids) == touched' = [by |-> panel[q].op.tenant, of |-> {Brand(rows[i]) : i \in ids}]
Ends(q) == panel' = [panel EXCEPT ![q] = NoRow]
Refuse(q) == Ends(q) /\ UNCHANGED <<tenants, rows, lastId, touched>>

\* A key naming a row that is gone is refused by the flush.
Stands(row) == \A f \in referenced[row.model] : row.refs[f] # NoRow => row.refs[f] \in Written
Exists(t) == t = NoRow \/ t \in tenants

LandCreate(q) ==
  LET r == panel[q]
  IN /\ ~IdlePanel(q) /\ r.kind = "create" /\ lastId + 1 \in Id /\ UNCHANGED refused
     /\ IF Stands(r.row) /\ Exists(r.row.tenant)
        THEN /\ rows' = [rows EXCEPT ![lastId + 1] = r.row] /\ lastId' = lastId + 1
             /\ touched' = [by |-> r.op.tenant, of |-> {Brand(r.row)}]
             /\ Ends(q) /\ UNCHANGED tenants
        ELSE Refuse(q)

\* Only the columns the edit changed are written.
DeclaredOver(now, was, new) ==
  [model |-> now.model, tenant |-> IF new.tenant # was.tenant THEN new.tenant ELSE now.tenant,
   refs |-> [f \in DOMAIN new.refs |-> IF new.refs[f] # was.refs[f] THEN new.refs[f] ELSE now.refs[f]]]

LandUpdate(q) ==
  LET r == panel[q]
  IN /\ ~IdlePanel(q) /\ r.kind = "update" /\ UNCHANGED refused
     /\ IF r.id \in Written /\ Stands(r.row) /\ Exists(r.row.tenant)
        THEN /\ rows' = [rows EXCEPT ![r.id] = DeclaredOver(rows[r.id], r.was, r.row)]
             /\ Wrote(q, {r.id}) /\ Ends(q) /\ UNCHANGED <<tenants, lastId>>
        ELSE Refuse(q)

\* A row that went meanwhile fails the whole order.
LandReorder(q) ==
  LET r == panel[q]
  IN /\ ~IdlePanel(q) /\ r.kind = "reorder" /\ UNCHANGED refused
     /\ IF r.id \subseteq Written THEN Wrote(q, r.id) /\ Ends(q) /\ UNCHANGED <<tenants, rows, lastId>> ELSE Refuse(q)

\* The children of a row, and everything they take along.
delete_dependents(i) == UNION {Pointing(m, rows[i].model, i) : m \in dependents[rows[i].model]}

LandDelete(q) ==
  LET r == panel[q]
      gone == {r.id} \cup delete_dependents(r.id)
      held == \E j \in Written \ gone : \E f \in DOMAIN rows[j].refs : rows[j].refs[f] \in gone /\ <<rows[j].model, f>> \in Restricted
  IN /\ ~IdlePanel(q) /\ r.kind = "delete" /\ UNCHANGED refused
     /\ IF (IF r.id \in Written THEN ~held ELSE FALSE)
        THEN /\ rows' = [i \in Id |-> IF i \in gone THEN NoRow ELSE rows[i]]
             /\ Wrote(q, gone) /\ Ends(q) /\ UNCHANGED <<tenants, lastId>>
        ELSE Refuse(q)

\* Where in the order a row of the brand goes: a child with the first of its parents to go.
Turn(m) == CHOOSE n \in DOMAIN TENANT_DEPENDENTS : TENANT_DEPENDENTS[n] = m
Turns(j, t) ==
  {n \in DOMAIN TENANT_DEPENDENTS :
     \/ Branded(rows[j].model) /\ rows[j].tenant = t /\ n = Turn(rows[j].model)
     \/ \E f \in referenced[rows[j].model] : rows[j].model \in dependents[f] /\ rows[rows[j].refs[f]].tenant = t /\ n = Turn(f)}

LandTenant(q) ==
  LET r == panel[q]
      gone == {j \in Written : Turns(j, r.id) # {}}
      \* A restricted key fires when the row it names goes while the row holding it stays.
      held == \E i \in gone, j \in Written : \E f \in DOMAIN rows[j].refs :
                /\ rows[j].refs[f] = i /\ <<rows[j].model, f>> \in Restricted
                /\ \A n \in Turns(j, r.id) : \E k \in Turns(i, r.id) : k < n
  IN /\ ~IdlePanel(q) /\ r.kind = "tenant"
     /\ IF r.id \in tenants /\ ~held
        THEN /\ rows' = [i \in Id |-> IF i \in gone THEN NoRow ELSE rows[i]] /\ tenants' = tenants \ {r.id}
             /\ Wrote(q, gone) /\ Ends(q) /\ UNCHANGED <<lastId, refused>>
        ELSE refused' = (refused \/ held) /\ Refuse(q)

CatalogueNext ==
  \E q \in PanelRequest :
    \/ \E op \in Operator :
         \/ create(q, op)
         \/ \E i \in Id : update(q, op, i) \/ delete_record(q, op, i)
         \/ \E ids \in SUBSET Written : reorder(q, op, ids)
         \/ \E t \in Tenant : delete_tenant(q, op, t)
    \/ LandCreate(q) \/ LandUpdate(q) \/ LandReorder(q) \/ LandDelete(q) \/ LandTenant(q)

CatalogueSpec == CatalogueInit /\ [][CatalogueNext]_catalogueVars

-----------------------------------------------------------------------------
(* What must hold.                                                         *)

\* Every key names a row of the model it is declared for, and every row belongs to a brand that exists: a deletion takes along what would be left behind.
CatalogueTypeOK ==
  /\ tenants \subseteq Tenant /\ lastId \in 0 .. Cardinality(Id)
  /\ rows \in [Id -> Row \cup {NoRow}]
  /\ \A i \in Written : Exists(rows[i].tenant) /\ \A f \in DOMAIN rows[i].refs : rows[i].refs[f] # NoRow => rows[i].refs[f] \in Of(f)

\* However rows are created, edited, moved between brands and deleted, a row of a brand points only at rows of that brand and at shared ones, and a shared row only at shared ones: what ensure_referrers_still_reach and ensure_children_stay_shared are for.
PointsInside ==
  \A i \in Written : \A f \in referenced[rows[i].model] : rows[i].refs[f] # NoRow => rows[rows[i].refs[f]].tenant \in {NoRow, Brand(rows[i])}

\* An operator of a brand never writes a row of another one or a shared one, the rows its deletions take along included.
WritesStayInside == touched.by # NoRow => touched.of \subseteq {touched.by}

\* The deletion of a brand is never refused: the order it is emptied in leaves no restricted key behind, and no other brand points into it.
BrandCanGo == ~refused

\* What brands keep apart stays apart: rows point inside, operators write inside, and so a brand can always be emptied.
CatalogueInv == CatalogueTypeOK /\ PointsInside /\ WritesStayInside /\ BrandCanGo
=============================================================================
