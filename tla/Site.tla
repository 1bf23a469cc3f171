-------------------------------- MODULE Site --------------------------------
(***************************************************************************)
(* What the public pages and the public API answer: the rows of one table  *)
(* a brand reaches, in the language of the reader, through the cache every *)
(* surface shares.  The panel edits the rows while readers are answered.   *)
(*                                                                         *)
(* The table is one of five: contents, galleries, products, plans and      *)
(* banners.  A row says whose it is, its tag (a product's slug, a plan's   *)
(* code), its language, NoLanguage where it names none, and whether it is  *)
(* shown now, which for a banner is its window too.  A search of products  *)
(* is left out.                                                            *)
(***************************************************************************)
EXTENDS Integers, FiniteSetsExt

CONSTANTS
  SiteBrand,        \* tenants
  DefaultBrand,     \* settings.site.default_tenant
  SiteTag,
  SiteLanguage,     \* languages the instance offers
  DefaultLanguage,  \* settings.default_language
  SiteKind,         \* tables to look at
  SiteRow,          \* ids of the rows, as numbers
  SiteReader,       \* requests
  SiteContents,     \* what the rows may be at first, functions on SiteRow
  SiteQuestions,    \* what the readers may ask, functions on SiteReader
  MaxSiteEdits      \* bound on the edits

\* The key of a listing names no tag.
Every == "every"

ASSUME SiteAssumption ==
  /\ DefaultBrand \in SiteBrand /\ DefaultLanguage \in SiteLanguage
  /\ SiteRow \subseteq Nat /\ MaxSiteEdits \in Nat
  /\ SiteKind \subseteq {"content", "gallery", "product", "plan", "banner"} /\ Every \notin SiteTag

VARIABLES
  siteKind,     \* the table
  siteRow,      \* [SiteRow -> row]
  dark,         \* tenants that are not active
  siteWas,      \* every state the rows have been in
  cached,       \* answers kept, by key
  asked,        \* [SiteReader -> what the request asks]
  reader,       \* [SiteReader -> where the request is and its answer]
  siteEdits

siteVars == <<siteKind, siteRow, dark, siteWas, cached, asked, reader, siteEdits>>

Shared == "shared"
NoLanguage == "none"
SharedRow == [brand : SiteBrand \cup {Shared}, tag : SiteTag, lang : SiteLanguage \cup {NoLanguage}, shown : BOOLEAN]
NoAnswer == [rows |-> {}]

-----------------------------------------------------------------------------
(* The rows that answer.                                                   *)

SiteRoutes == {"home", "navigation", "content_page", "galleries", "gallery", "plans", "products", "product"}
ApiRoutes == {"read_content", "list_galleries", "read_gallery", "list_plans", "list_products", "read_product", "list_active"}

\* A host nobody active answers for is the default brand's, and the API names its brand and is refused.
brand_of(q) ==
  IF q.host \notin dark THEN {q.host}
  ELSE IF q.route \in SiteRoutes /\ DefaultBrand \notin dark THEN {DefaultBrand} ELSE {}

Reachable(rows, b) ==
  {i \in SiteRow : rows[i].shown /\ rows[i].brand \in (IF siteKind = "plan" THEN {b} ELSE {b, Shared})}

language_ranking(row, lang) == IF row.lang = lang THEN 0 ELSE IF row.lang = DefaultLanguage THEN 1 ELSE 2

\* The order of by_language: the language first, a brand's own row before a shared one, then the oldest.
BeforeIn(rows, lang, i, j) ==
  LET key(k) == <<language_ranking(rows[k], lang), IF rows[k].brand = Shared THEN 1 ELSE 0, k>>
  IN \E n \in 1..3 : key(i)[n] < key(j)[n] /\ \A m \in 1..(n - 1) : key(i)[m] = key(j)[m]

FirstIn(rows, lang, ids) == {i \in ids : \A j \in ids \ {i} : BeforeIn(rows, lang, i, j)}

\* A product has no language: the brand's own row of a slug comes before a shared one.
OwnFirst(rows, ids) == LET own == {i \in ids : rows[i].brand # Shared} IN IF own # {} THEN {Min(own)} ELSE IF ids # {} THEN {Min(ids)} ELSE {}

OfTag(rows, ids, t) == {i \in ids : rows[i].tag = t}

\* The one row a tag or a slug opens.
find_by_tag(rows, b, lang, t) ==
  LET ids == OfTag(rows, Reachable(rows, b), t)
  IN IF siteKind = "product" THEN OwnFirst(rows, ids) ELSE FirstIn(rows, lang, ids)

\* Variant: of a tag or a code, the row of the asked language, or the oldest.
one_per_key_Oldest(rows, ids, lang) == UNION {{Min(OfTag(rows, ids, t))} : t \in {rows[i].tag : i \in ids}}

\* One row per tag or code, the one it opens.
one_per_key(rows, ids, lang) == UNION {FirstIn(rows, lang, OfTag(rows, ids, t)) : t \in SiteTag}

\* Of a slug, the brand's own rows hide the shared ones.
HidesShared(rows, ids) == {i \in ids : rows[i].brand # Shared \/ \A j \in OfTag(rows, ids, rows[i].tag) : rows[j].brand = Shared}

\* A banner naming no language is the banner of every reader.
list_banners(rows, b, lang) == {i \in Reachable(rows, b) : rows[i].lang \in {lang, NoLanguage}}

\* A plan is only ever a brand's own.
list_offered(rows, b, lang) == one_per_key(rows, {i \in Reachable(rows, b) : rows[i].brand = b}, lang)

\* What a listing draws of the table.
list_reachable(rows, b, lang) ==
  CASE siteKind = "banner" -> list_banners(rows, b, lang)
    [] siteKind = "product" -> HidesShared(rows, Reachable(rows, b))
    [] siteKind = "plan" -> list_offered(rows, b, lang)
    [] OTHER -> one_per_key(rows, Reachable(rows, b), lang)

\* The key an answer is kept under, in the space of its resource: one part left out is one tenant reading the page of another.
named(space, surface, q, b, tag) == [space |-> space, surface |-> surface, tenant |-> b, lang |-> q.lang, tag |-> tag]

Listing(space, surface, rows, q, b) == [key |-> named(space, surface, q, b, Every), rows |-> list_reachable(rows, b, q.lang)]
\* A page that finds nothing is not found, and nothing is kept.
Opening(space, surface, rows, q, b) == [key |-> named(space, surface, q, b, q.tag), rows |-> find_by_tag(rows, b, q.lang, q.tag)]

-----------------------------------------------------------------------------
(* The routes: the key each reads under, and what it assembles there.      *)

\* The home page draws of every table.
home(rows, q, b) == Listing("home", "site", rows, q, b)

\* Every page asks first which contents its navigation may link to.
page_of(rows, q, b) == [key |-> named("content", "navigation", q, b, Every), rows |-> Reachable(rows, b)]
content_page(rows, q, b) == Opening("content", "site", rows, q, b)
galleries(rows, q, b) == Listing("gallery", "site", rows, q, b)
gallery(rows, q, b) == Opening("gallery", "site", rows, q, b)
plans(rows, q, b) == Listing("plans", "site", rows, q, b)
products(rows, q, b) == Listing("products", "site", rows, q, b)
\* Whether the reader owns the product is asked after it is read, for each reader, and never kept.
product(rows, q, b) == Opening("products", "site", rows, q, b)
read_content(rows, q, b) == Opening("content", "api", rows, q, b)
list_galleries(rows, q, b) == Listing("gallery", "api", rows, q, b)
read_gallery(rows, q, b) == Opening("gallery", "api", rows, q, b)
list_plans(rows, q, b) == Listing("plans", "api", rows, q, b)
list_products(rows, q, b) == Listing("products", "api", rows, q, b)
read_product(rows, q, b) == Opening("products", "api", rows, q, b)
list_active(rows, q, b) == Listing("banners", "api", rows, q, b)

Routed(rows, q, b) ==
  CASE q.route = "home" -> home(rows, q, b) [] q.route = "navigation" -> page_of(rows, q, b)
    [] q.route = "content_page" -> content_page(rows, q, b) [] q.route = "read_content" -> read_content(rows, q, b)
    [] q.route = "galleries" -> galleries(rows, q, b) [] q.route = "gallery" -> gallery(rows, q, b)
    [] q.route = "list_galleries" -> list_galleries(rows, q, b) [] q.route = "read_gallery" -> read_gallery(rows, q, b)
    [] q.route = "products" -> products(rows, q, b) [] q.route = "product" -> product(rows, q, b)
    [] q.route = "list_products" -> list_products(rows, q, b) [] q.route = "read_product" -> read_product(rows, q, b)
    [] q.route = "plans" -> plans(rows, q, b) [] q.route = "list_plans" -> list_plans(rows, q, b)
    [] q.route = "list_active" -> list_active(rows, q, b)

RoutesOf(kind) ==
  CASE kind = "content" -> {"navigation", "content_page", "read_content"}
    [] kind = "gallery" -> {"home", "galleries", "gallery", "list_galleries", "read_gallery"}
    [] kind = "product" -> {"home", "products", "product", "list_products", "read_product"}
    [] kind = "plan" -> {"home", "plans", "list_plans"}
    [] kind = "banner" -> {"home", "list_active"}

Opens(q) == q.route \in {"content_page", "read_content", "gallery", "read_gallery", "product", "read_product"}

\* What a route answers: the rows, as its surface shapes them.
build(rows, q, b) == [route |-> q.route, rows |-> Routed(rows, q, b).rows]
KeyOf(q, b) == Routed(siteRow, q, b).key

-----------------------------------------------------------------------------
(* A request.                                                              *)

AskedBy(r) == CHOOSE b \in SiteBrand : b \in brand_of(asked[r])

ReaderAt(r, at) == reader[r].at = at

Kept(key) == {e \in cached : e.key = key}

\* The brand, then the cache.
Asks(r) ==
  /\ ReaderAt(r, "asks")
  /\ IF brand_of(asked[r]) = {} THEN reader' = [reader EXCEPT ![r].at = "refused"]
     ELSE LET kept == Kept(KeyOf(asked[r], AskedBy(r)))
          IN reader' = [reader EXCEPT ![r].brand = AskedBy(r),
                                      ![r].at = IF kept # {} THEN "hit" ELSE "builds",
                                      ![r].answer = IF kept # {} THEN (CHOOSE e \in kept : TRUE).answer ELSE NoAnswer]
  /\ UNCHANGED <<siteKind, siteRow, dark, siteWas, cached, asked, siteEdits>>

\* The rows are read; a page that finds none raises, and nothing is kept.
Builds(r) ==
  LET answer == build(siteRow, asked[r], reader[r].brand)
  IN /\ ReaderAt(r, "builds")
     /\ reader' = [reader EXCEPT ![r].at = IF Opens(asked[r]) /\ answer.rows = {} THEN "not found" ELSE "keeps", ![r].answer = answer]
     /\ UNCHANGED <<siteKind, siteRow, dark, siteWas, cached, asked, siteEdits>>

\* The cache keeps what was built, over what another request kept since.
Keeps(r) ==
  LET key == KeyOf(asked[r], reader[r].brand)
  IN /\ ReaderAt(r, "keeps")
     /\ cached' = (cached \ Kept(key)) \cup {[key |-> key, answer |-> reader[r].answer]}
     /\ reader' = [reader EXCEPT ![r].at = "hit"]
     /\ UNCHANGED <<siteKind, siteRow, dark, siteWas, asked, siteEdits>>

\* The answer is drawn.
Serves(r) ==
  /\ ReaderAt(r, "hit")
  /\ reader' = [reader EXCEPT ![r].at = "served"]
  /\ UNCHANGED <<siteKind, siteRow, dark, siteWas, cached, asked, siteEdits>>

-----------------------------------------------------------------------------
(* Around the requests.                                                    *)

\* External: the cache drops an answer whose time passed.
Expires(e) ==
  /\ e \in cached
  /\ cached' = cached \ {e}
  /\ UNCHANGED <<siteKind, siteRow, dark, siteWas, asked, reader, siteEdits>>

SameScope(rows, i, j) == i # j /\ rows[i].brand = rows[j].brand /\ rows[i].tag = rows[j].tag

\* A slug is taken once in a scope.
SlugIsFree(rows) == ~\E i, j \in SiteRow : SameScope(rows, i, j)

\* A plan is a brand's, and its code is taken once in a scope and language.
CodeIsFree(rows) ==
  /\ \A i \in SiteRow : rows[i].brand # Shared
  /\ ~\E i, j \in SiteRow : SameScope(rows, i, j) /\ rows[i].lang = rows[j].lang

\* A tag is taken once in a scope and language.
TagIsFree(rows) == ~\E i, j \in SiteRow : SameScope(rows, i, j) /\ rows[i].lang = rows[j].lang

\* What the panel keeps of the table.
Keepable(rows) ==
  CASE siteKind = "product" -> SlugIsFree(rows) [] siteKind = "plan" -> CodeIsFree(rows)
    [] siteKind \in {"content", "gallery"} -> TagIsFree(rows) [] OTHER -> TRUE

\* The panel shows, hides or moves a row.
EditsRow(i, row) ==
  /\ siteEdits < MaxSiteEdits
  /\ siteEdits' = siteEdits + 1
  /\ Keepable([siteRow EXCEPT ![i] = row])
  /\ siteRow' = [siteRow EXCEPT ![i] = row]
  /\ siteWas' = siteWas \cup {siteRow'}
  /\ UNCHANGED <<siteKind, dark, cached, asked, reader>>

\* A tenant stops being served.
Darkens(b) ==
  /\ siteEdits < MaxSiteEdits /\ b \notin dark
  /\ siteEdits' = siteEdits + 1
  /\ dark' = dark \cup {b}
  /\ UNCHANGED <<siteKind, siteRow, siteWas, cached, asked, reader>>

Edited(row) == {[row EXCEPT !.shown = ~@]} \cup {[row EXCEPT !.brand = b] : b \in (SiteBrand \cup {Shared}) \ {row.brand}}

SiteInit ==
  /\ siteKind \in SiteKind
  /\ siteRow \in SiteContents /\ Keepable(siteRow)
  /\ dark = {} /\ siteWas = {siteRow} /\ cached = {} /\ siteEdits = 0
  /\ asked \in {qs \in SiteQuestions : \A r \in SiteReader : qs[r].route \in RoutesOf(siteKind)}
  /\ reader = [r \in SiteReader |-> [at |-> "asks", brand |-> DefaultBrand, answer |-> NoAnswer]]

Requested(r) == Asks(r) \/ Builds(r) \/ Keeps(r) \/ Serves(r)

SiteNext ==
  \/ \E r \in SiteReader : Requested(r)
  \/ \E e \in cached : Expires(e)
  \/ \E i \in SiteRow : \E row \in Edited(siteRow[i]) : EditsRow(i, row)
  \/ \E b \in SiteBrand : Darkens(b)

-----------------------------------------------------------------------------
(* What must hold.                                                         *)

\* The rows, the cache and the requests have the shape the code gives them.
SiteTypeOK ==
  /\ siteKind \in SiteKind /\ siteRow \in [SiteRow -> SharedRow] /\ dark \subseteq SiteBrand
  /\ \A e, f \in cached : e.key = f.key => e = f
  /\ \A r \in SiteReader : reader[r].at \in {"asks", "hit", "builds", "keeps", "served", "refused", "not found"} /\ reader[r].answer.rows \subseteq SiteRow

\* Whatever the cache kept and whoever it was kept for, an answer is one that was true for the brand, the language and the page that were asked for.
ServedInside == \A r \in SiteReader : ReaderAt(r, "served") => \E rows \in siteWas : reader[r].answer = build(rows, asked[r], reader[r].brand)

\* A card opens the row it draws: what a listing shows of a tag or a slug is what the address of that tag or slug opens.
CardOpensItself ==
  siteKind \in {"content", "gallery", "product"} =>
    \A b \in SiteBrand, lang \in SiteLanguage : \A i \in list_reachable(siteRow, b, lang) : find_by_tag(siteRow, b, lang, siteRow[i].tag) = {i}

\* The addresses the sitemap names are those of the rows of a listing written in no language.
sitemap(b) == {siteRow[i].tag : i \in list_reachable(siteRow, b, NoLanguage)}

\* Every address the sitemap names, and every tag the navigation links to, opens in whatever language it is opened.
NamedOpens ==
  siteKind \in {"content", "gallery", "product"} =>
    \A b \in SiteBrand, lang \in SiteLanguage :
      \A t \in sitemap(b) \cup {siteRow[i].tag : i \in Routed(siteRow, [route |-> "navigation", lang |-> lang, tag |-> Every], b).rows} :
        find_by_tag(siteRow, b, lang, t) # {}

\* A reader is answered out of their own brand and language, whatever the cache holds, and what a page lists is what opens.
SiteInv == SiteTypeOK /\ ServedInside /\ CardOpensItself /\ NamedOpens
=============================================================================
