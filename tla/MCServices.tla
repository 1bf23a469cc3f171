------------------------------ MODULE MCServices ------------------------------
(* Thirteen parts that answer requests or run beside them, and share no    *)
(* row: a behaviour is that of one of them while the others rest in one    *)
(* of their initial states.                                                *)
EXTENDS Idempotency, Ledger, SchemaDiff, Site, Visitors, Rationed, Rotation, Startup, Browser, Listing, Calendar, Api, TLC

CONSTANTS c1, c2, c3, c4, buying, paying, m1, m2, m3, k1, k2

VARIABLE running

-----------------------------------------------------------------------------
(* Idempotency: three calls by one route and one by another.               *)
TwoRoutes == [c \in Call |-> IF c = c4 THEN paying ELSE buying]

(* Ledger: two calls repeat one key, and a third carries its own.          *)
KeyOfMover == [m \in Mover |-> IF m = m3 THEN k2 ELSE k1]
Amounts == {-1, 1}

-----------------------------------------------------------------------------
(* SchemaDiff: two tables declared, and every older database they may meet.*)
Col(t, n, s) == [table |-> t, name |-> n, shape |-> s]
Idx(t, n, c) == [table |-> t, name |-> n, columns |-> c]
Ref(t, n, to, r) == [table |-> t, name |-> n, to |-> to, rule |-> r]

Declared ==
  [tables |-> {"brand", "account"},
   columns |-> {Col("brand", "code", "declared"), Col("account", "brand_id", "declared"), Col("account", "status", "declared"), Col("account", "email", "declared")},
   indexes |-> {Idx("brand", "brand_code", <<"code">>), Idx("account", "account_brand", <<"brand_id", "status">>), Idx("account", "account_email", <<"email">>)},
   keys |-> {Ref("account", "brand_id", "brand", "cascade")}]
Fill == (<<"brand", "code">> :> "undecided") @@ (<<"account", "brand_id">> :> "nullable") @@ (<<"account", "status">> :> "filled") @@ (<<"account", "email">> :> "undecided")
Sorted == <<"brand", "account">>

OlderColumns(t) == {s \in SUBSET UNION {{c, [c EXCEPT !.shape = "other"]} : c \in OfTable(Declared.columns, t)} : \A c, d \in s : NameOf(c) = NameOf(d) => c = d}
OlderIndexes == Declared.indexes \cup {Idx("account", "account_brand", <<"brand_id">>), Idx("account", "account_email", <<"status">>)}
OlderKeys == Declared.keys \cup {Ref("account", "brand_id", "brand", "restrict")}

Consistent(s) ==
  /\ \A p \in Parts : \A e \in s[p] : e.table \in s.tables
  /\ \A i \in s.indexes : \A c \in ToSet(i.columns) : <<i.table, c>> \in Names(s.columns)
  /\ \A k \in s.keys : NameOf(k) \in Names(s.columns) /\ k.to \in s.tables
  /\ \A p \in Parts : \A a, b \in s[p] : NameOf(a) = NameOf(b) => a = b

AnyOlder ==
  {s \in {[tables |-> t, columns |-> b \cup a, indexes |-> i, keys |-> k] :
            t \in SUBSET Declared.tables, b \in OlderColumns("brand"), a \in OlderColumns("account"), i \in SUBSET OlderIndexes, k \in SUBSET OlderKeys} : Consistent(s)}

-----------------------------------------------------------------------------
(* Site: two rows of a table, and two readers of whom one asks anything.   *)
Contents ==
  {<<a, b>> : a \in {e \in SharedRow : e.shown /\ e.brand # "b2" /\ e.tag = "t1" /\ e.lang = "en"},
              b \in {e \in SharedRow : e.shown /\ (e.tag = "t1" => e.lang = "pt" \/ (e.lang = "none" /\ e.brand = Shared)) /\ (e.tag = "t2" => e.lang = "en" /\ e.brand = "b1")}}
FirstAsks == [route : {"content_page", "galleries", "product", "plans", "list_active"}, host : {"b1"}, lang : {"en"}, tag : {"t1"}]
SecondAsks == {q \in [route : SiteRoutes \cup ApiRoutes, host : SiteBrand, lang : SiteLanguage, tag : {"t1"}] : q.host = "b1" \/ q.lang = "en"}
Questions == {[r1 |-> a, r2 |-> b] : a \in FirstAsks, b \in SecondAsks}

-----------------------------------------------------------------------------
(* Listing: four rows, tied or not, one out of reach or none.              *)
Tables ==
  {[i \in 1 .. 4 |-> [position |-> p[i], reached |-> i # hidden, value |-> (IF i = 4 THEN 0 ELSE 1), found |-> i # 3]] : p \in [1 .. 4 -> 0 .. 1], hidden \in {0, 2}}
Queries ==
  {q \in [surface : {"panel", "lookup", "site"}, filter : FilterKind, search : BOOLEAN, ordering : {"default", "-position", "-id", "other"}, limit : 1 .. 3] :
     q.surface = "site" => q.filter = "absent" /\ ~q.search /\ q.ordering = "-id"}

(* Calendar: a schedule begins on the first or one of the last days of a month, of a year before a leap one or of one that ends a century. *)
AnchorDays == {Day(y, m, d) : y \in {2023, 2096}, m \in {1, 3, 8, 12}, d \in {1, 29, 30, 31}}

-----------------------------------------------------------------------------
(* Api: an account of each brand, what they hold, and three calls at once. *)
BrandsOfAccounts == [a \in ApiAccount |-> IF a = "u1" THEN "b1" ELSE "b2"]
Rec(id, kind, a, of) == [id |-> id, kind |-> kind, a |-> a, of |-> of]
HeldRecords ==
  {Rec(1, "purchase", "u1", 0), Rec(2, "purchase", "u2", 0), Rec(3, "subscription", "u1", 0), Rec(4, "subscription", "u2", 0), Rec(5, "payment", "u1", 3),
   Rec(6, "payment", "u2", 4), Rec(7, "credit", "u1", 0), Rec(8, "balance", "u2", 0), Rec(9, "product", "u1", 0), Rec(10, "entitlement", "u2", 0)}
Wants(route, a, id) == [route |-> route, a |-> a, epoch |-> 0, brand |-> "b1", id |-> id, purpose |-> "main"]
AddressRoutes == {"save_address", "remove_address", "erase_me", "list_addresses"}
Singles == {Wants(r, a, id) : r \in ApiRoute \ AddressRoutes, a \in ApiAccount, id \in {1, 4}}
Writes == {Wants(r, "u1", 0) : r \in AddressRoutes}
ThreeCalls ==
  {[c \in ApiCall |-> IF c = "k1" THEN w1 ELSE IF c = "k2" THEN w2 ELSE w3] : w1, w2, w3 \in Writes}
  \cup {[c \in ApiCall |-> IF c = "k1" THEN w ELSE Wants("erase_me", "u1", 0)] : w \in Singles}

-----------------------------------------------------------------------------
(* The sum.                                                                *)

Services == {"idempotency", "ledger", "schema", "site", "visitors", "newsletter", "rates", "rotation", "startup", "browser", "listing", "calendar", "api"}

servicesVars == <<running, vars, ledgerVars, schemaVars, siteVars, visitorVars, newsletterVars, rateVars, rotationVars, startupVars, browserVars, listingVars, calendarVars, apiVars>>

\* The initial state a part rests in.
Rests ==
  /\ IF running = "ledger" THEN TRUE ELSE movement = (CHOOSE m \in [LedgerKey -> Movement] : TRUE) /\ foreign = FALSE /\ entries = <<>>
  /\ IF running = "schema" THEN TRUE ELSE live = Declared
  /\ IF running = "site" THEN TRUE ELSE siteKind = "banner" /\ siteRow = (CHOOSE pair \in Contents : TRUE) /\ asked = (CHOOSE qs \in Questions : qs.r1.route = "list_active" /\ qs.r2.route = "list_active")
  /\ IF running = "rotation" THEN TRUE ELSE secret = [i \in SecretRow |-> NoSecret]
  /\ IF running = "startup" THEN TRUE ELSE built = {}
  /\ IF running = "browser" THEN TRUE ELSE asksProof = FALSE /\ me = [status |-> "none", epoch |-> 1, confirmation |-> 0, recovery |-> 0, held |-> {}, drawn |-> 0]
  /\ IF running = "listing" THEN TRUE ELSE listed = (CHOOSE table \in Tables : TRUE) /\ query = (CHOOSE q \in Queries : TRUE)
  /\ IF running = "calendar" THEN TRUE ELSE anchor = Day(2023, 1, 1) /\ interval = [unit |-> "DAY", value |-> 1]
  /\ IF running = "api" THEN TRUE ELSE calls = [c \in ApiCall |-> [wish |-> Wants("list_addresses", "u1", 0), at |-> "called", found |-> {}, shows |-> {}]]

ServicesInit ==
  /\ running \in Services
  /\ Rests
  /\ SchemaInit /\ ListingInit /\ ApiInit /\ CalendarInit /\ SiteInit
  /\ Init /\ LedgerInit /\ VisitorsInit /\ NewsletterInit /\ RateInit /\ RotationInit /\ StartupInit /\ BrowserInit

Acts ==
  \/ running = "idempotency" /\ Next /\ UNCHANGED <<ledgerVars, schemaVars, siteVars, visitorVars, newsletterVars, rateVars, rotationVars, startupVars, browserVars, listingVars, calendarVars, apiVars>>
  \/ running = "ledger" /\ LedgerNext /\ UNCHANGED <<vars, schemaVars, siteVars, visitorVars, newsletterVars, rateVars, rotationVars, startupVars, browserVars, listingVars, calendarVars, apiVars>>
  \/ running = "schema" /\ SchemaNext /\ UNCHANGED <<vars, ledgerVars, siteVars, visitorVars, newsletterVars, rateVars, rotationVars, startupVars, browserVars, listingVars, calendarVars, apiVars>>
  \/ running = "site" /\ SiteNext /\ UNCHANGED <<vars, ledgerVars, schemaVars, visitorVars, newsletterVars, rateVars, rotationVars, startupVars, browserVars, listingVars, calendarVars, apiVars>>
  \/ running = "visitors" /\ VisitorsNext /\ UNCHANGED <<vars, ledgerVars, schemaVars, siteVars, newsletterVars, rateVars, rotationVars, startupVars, browserVars, listingVars, calendarVars, apiVars>>
  \/ running = "newsletter" /\ NewsletterNext /\ UNCHANGED <<vars, ledgerVars, schemaVars, siteVars, visitorVars, rateVars, rotationVars, startupVars, browserVars, listingVars, calendarVars, apiVars>>
  \/ running = "rates" /\ RateNext /\ UNCHANGED <<vars, ledgerVars, schemaVars, siteVars, visitorVars, newsletterVars, rotationVars, startupVars, browserVars, listingVars, calendarVars, apiVars>>
  \/ running = "rotation" /\ RotationNext /\ UNCHANGED <<vars, ledgerVars, schemaVars, siteVars, visitorVars, newsletterVars, rateVars, startupVars, browserVars, listingVars, calendarVars, apiVars>>
  \/ running = "startup" /\ StartupNext /\ UNCHANGED <<vars, ledgerVars, schemaVars, siteVars, visitorVars, newsletterVars, rateVars, rotationVars, browserVars, listingVars, calendarVars, apiVars>>
  \/ running = "browser" /\ BrowserNext /\ UNCHANGED <<vars, ledgerVars, schemaVars, siteVars, visitorVars, newsletterVars, rateVars, rotationVars, startupVars, listingVars, calendarVars, apiVars>>
  \/ running = "listing" /\ ListingNext /\ UNCHANGED <<vars, ledgerVars, schemaVars, siteVars, visitorVars, newsletterVars, rateVars, rotationVars, startupVars, browserVars, calendarVars, apiVars>>
  \/ running = "calendar" /\ CalendarNext /\ UNCHANGED <<vars, ledgerVars, schemaVars, siteVars, visitorVars, newsletterVars, rateVars, rotationVars, startupVars, browserVars, listingVars, apiVars>>
  \/ running = "api" /\ ApiNext /\ UNCHANGED <<vars, ledgerVars, schemaVars, siteVars, visitorVars, newsletterVars, rateVars, rotationVars, startupVars, browserVars, listingVars, calendarVars>>

ServicesNext == Acts /\ UNCHANGED running

ServicesSpec == ServicesInit /\ [][ServicesNext]_servicesVars
=============================================================================
