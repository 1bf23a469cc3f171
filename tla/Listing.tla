------------------------------- MODULE Listing -------------------------------
(***************************************************************************)
(* A listing read page after page: the panel by offset                     *)
(* (services/crud_service.py, helpers/crud.py) and the account pages by    *)
(* page number (helpers/site.py, helpers/paging.py).  The rows stay as     *)
(* they are while the pages are read; every page is a query of its own,    *)
(* and the database answers rows its ordering ties in any order, another   *)
(* one each time.                                                          *)
(***************************************************************************)
EXTENDS Integers, Sequences, FiniteSets

CONSTANTS
  ListTables,   \* tables to read: functions from ids to rows
  ListQueries,  \* what the reader asks
  LAST_PAGE     \* last page number whose offset a column holds

VARIABLES
  listed,   \* the table
  query,    \* what is asked on every page
  walk      \* the next page, the rows seen so far in order, the total and how it ended

listingVars == <<listed, query, walk>>

\* A row: its position, whether the reader reaches it, the value of the column filtered by, and whether a search finds it.
ListRow == [position : Nat, reached : BOOLEAN, value : Nat, found : BOOLEAN]

\* A filter is absent, a value, left empty, a text its column cannot read, or a name no filter has.
FilterKind == {"absent", "value", "empty", "unreadable", "unknown"}
Query == [surface : {"panel", "lookup", "site"}, filter : FilterKind, search : BOOLEAN, ordering : {"default", "-position", "-id", "other"}, limit : Nat \ {0}]

\* Ids are numbers, and an account page takes no filter.
ASSUME ListingAssumption ==
  /\ LAST_PAGE \in Nat \ {0}
  /\ \A t \in ListTables : IsFiniteSet(DOMAIN t) /\ DOMAIN t \subseteq Nat /\ \A i \in DOMAIN t : t[i] \in ListRow
  /\ ListQueries \subseteq Query /\ \A q \in ListQueries : q.surface = "site" => q.filter = "absent"

-----------------------------------------------------------------------------
(* What the request is read as.                                            *)

\* An empty text is no value, and one the column cannot read is refused.
coerce(kind) == CASE kind = "value" -> {1} [] kind = "empty" -> {} [] kind = "absent" -> {}

\* A filter nobody applies would answer the whole list, so a name or a value nothing reads is refused.
parse_filters(q) == IF q.filter \in {"unknown", "unreadable"} THEN "refused" ELSE IF q.filter = "absent" THEN "none" ELSE "read"

apply_search(ids, q) == IF q.search THEN {i \in ids : listed[i].found} ELSE ids

apply_filters(ids, q) ==
  IF parse_filters(q) = "none" THEN ids ELSE {i \in ids : \A v \in coerce(q.filter) : listed[i].value = v}

confine(ids) == {i \in ids : listed[i].reached}

Matching(q) == confine(apply_filters(apply_search(DOMAIN listed, q), q))

-----------------------------------------------------------------------------
(* The order, and a page of it.                                            *)

\* Variant: rows sharing a position are left to the database.
apply_ordering_Tied(q, i, j) ==
  CASE q.ordering = "-id" -> i >= j
    [] q.ordering = "-position" -> listed[i].position >= listed[j].position
    [] OTHER -> listed[i].position <= listed[j].position

\* The column asked for, or the position, and the key breaks every tie.
apply_ordering(q, i, j) ==
  CASE q.ordering = "-id" -> i >= j
    [] q.ordering = "-position" -> listed[i].position > listed[j].position \/ (listed[i].position = listed[j].position /\ i >= j)
    [] OTHER -> listed[i].position < listed[j].position \/ (listed[i].position = listed[j].position /\ i <= j)

\* A lookup is in the order of its labels, whatever is asked.
label_ordering(q) == [q EXCEPT !.ordering = "default"]

\* External: the orders the database may answer.
Orders(q) ==
  LET ids == Matching(q)
  IN {s \in [1 .. Cardinality(ids) -> ids] : \A m, n \in DOMAIN s : m < n => s[m] # s[n] /\ apply_ordering(q, s[m], s[n])}

PageOf(s, offset, limit) == SubSeq(s, offset + 1, IF offset + limit < Len(s) THEN offset + limit ELSE Len(s))

Refused(q) == parse_filters(q) = "refused" \/ (q.surface = "panel" /\ q.ordering = "other")

\* The panel asks for the next offset until the total is behind it.
paginate ==
  /\ query.surface = "panel" /\ walk.at = "reads"
  /\ IF Refused(query) THEN walk' = [walk EXCEPT !.at = "refused"]
     ELSE \E s \in Orders(query) :
            walk' = [walk EXCEPT !.seen = @ \o PageOf(s, walk.page * query.limit, query.limit), !.page = @ + 1,
                                 !.at = IF (walk.page + 1) * query.limit >= Len(s) THEN "read" ELSE "reads"]
  /\ UNCHANGED <<listed, query>>

\* Options of a form: one page, of the first rows.
lookup ==
  /\ query.surface = "lookup" /\ walk.at = "reads"
  /\ IF Refused(query) THEN walk' = [walk EXCEPT !.at = "refused"]
     ELSE \E s \in Orders(label_ordering(query)) : walk' = [walk EXCEPT !.seen = PageOf(s, 0, query.limit), !.at = "offered"]
  /\ UNCHANGED <<listed, query>>

\* Anything a page number cannot be is the first one.
page_number(asked) == IF asked \in 1 .. LAST_PAGE THEN asked ELSE 1

\* Variant: a page left half full is not counted.
pages_Full(total, limit) == IF total \div limit > 1 THEN total \div limit ELSE 1

\* The last page number a listing draws.
pages(total, limit) == LET whole == (total + limit - 1) \div limit IN IF whole > 1 THEN whole ELSE 1

\* The account page draws a page and the number of the last one, and the reader goes on to the next.
list_for_account ==
  /\ query.surface = "site" /\ walk.at = "reads"
  /\ \E s \in Orders(query) :
       LET page == page_number(walk.page + 1)
       IN walk' = [walk EXCEPT !.seen = @ \o PageOf(s, (page - 1) * query.limit, query.limit), !.page = @ + 1,
                               !.at = IF page >= pages(Len(s), query.limit) THEN "read" ELSE "reads"]
  /\ UNCHANGED <<listed, query>>

ListingInit ==
  /\ listed \in ListTables
  /\ query \in ListQueries
  /\ walk = [at |-> "reads", page |-> 0, seen |-> <<>>]

ListingNext == paginate \/ lookup \/ list_for_account

-----------------------------------------------------------------------------
(* What must hold.                                                         *)

\* The table, the question and the pages have the shape the code gives them.
ListingTypeOK ==
  /\ \A i \in DOMAIN listed : listed[i] \in ListRow
  /\ query \in Query
  /\ walk \in [at : {"reads", "read", "offered", "refused"}, page : Nat, seen : Seq(DOMAIN listed)]

\* Read to its last page, a listing answered every row that matches and no row twice, however many rows share a position and whatever order the database answers ties in.
EveryRowOnce ==
  walk.at = "read" =>
    /\ {walk.seen[n] : n \in DOMAIN walk.seen} = Matching(query)
    /\ Len(walk.seen) = Cardinality(Matching(query))

\* A listing that was answered is narrowed by everything the question named: no row out of the reader's reach, none a named value or a search leaves out, and no name that was not read.
NarrowedAsAsked ==
  walk.at \in {"read", "offered"} =>
    /\ query.filter \notin {"unknown", "unreadable"}
    /\ \A n \in DOMAIN walk.seen :
         LET row == listed[walk.seen[n]]
         IN row.reached /\ (query.filter = "value" => row.value = 1) /\ (query.search => row.found)

\* Pages read one after another hold every row asked for once and none besides.
ListingInv == ListingTypeOK /\ EveryRowOnce /\ NarrowedAsAsked
=============================================================================
