---------------------------------- MODULE Api ----------------------------------
(***************************************************************************)
(* The calls an application makes for a signed in account                  *)
(* (routes/account.py, commerce.py, subscription.py behind helpers/auth.py): *)
(* what each answers with, the purchases it opens, and the addresses it    *)
(* writes, one per purpose, while other calls of the same account run and  *)
(* the account is erased.                                                  *)
(*                                                                         *)
(* Passwords, letters and sign in are in Accounts, the checkout behind a   *)
(* purchase in Commerce, a repeated call in Idempotency.                   *)
(***************************************************************************)
EXTENDS Integers, FiniteSets

CONSTANTS
  ApiAccount,   \* accounts, each of a brand
  ApiBrand,
  BrandOf,      \* [ApiAccount -> ApiBrand]
  Purpose,      \* types of an address
  ApiCall,      \* calls
  ApiWishes,    \* what the calls may ask, functions on ApiCall
  Held          \* records that were there before: [id, kind, a]

ASSUME ApiAssumption == BrandOf \in [ApiAccount -> ApiBrand]

VARIABLES
  member,      \* [ApiAccount -> status and session epoch]
  addresses,   \* rows: whose, of which purpose, and the call that created it
  sales,       \* purchases the calls opened
  calls,       \* [ApiCall -> what it asks, where it is, the row it found, what it answered]
  heldBy       \* [ApiAccount -> calls whose transaction holds the row of the account]

apiVars == <<member, addresses, sales, calls, heldBy>>

ApiRoute == {"list_entitlements", "list_balances", "list_credits", "list_me", "list_owned", "list_purchases", "list_transactions", "read_purchase",
             "list_addresses", "save_address", "remove_address", "erase_me", "buy", "subscribe"}
\* A call names a route, the account and the epoch of its token, and the brand, the record or the purpose its route reads.
Wish == [route : ApiRoute, a : ApiAccount, epoch : Nat, brand : ApiBrand, id : {r.id : r \in Held} \cup {0}, purpose : Purpose]

CallAt(c, at) == calls[c].at = at
Goes(c, at) == calls' = [calls EXCEPT ![c].at = at]
Answered(c, shows) == calls' = [calls EXCEPT ![c].at = "answered", ![c].shows = shows]

-----------------------------------------------------------------------------
(* Who is calling.                                                         *)

\* The token opens an account that is active and whose sessions have not ended since.
load_user(w) == member[w.a].status = "ACTIVE" /\ w.epoch = member[w.a].epoch

\* A call that names another brand than the account's is refused.
get_brand_account(w) == load_user(w) /\ BrandOf[w.a] = w.brand

NamesBrand(w) == w.route \in {"buy", "subscribe"}

\* The account is read once, before the route.
Authenticates(c) ==
  /\ CallAt(c, "called")
  /\ Goes(c, IF (IF NamesBrand(calls[c].wish) THEN get_brand_account(calls[c].wish) ELSE load_user(calls[c].wish)) THEN "routed" ELSE "refused")
  /\ UNCHANGED <<member, addresses, sales, heldBy>>

-----------------------------------------------------------------------------
(* The routes that read.                                                   *)

OfKind(kind, a) == {r.id : r \in {h \in Held : h.kind = kind /\ h.a = a}}

list_entitlements(w) == OfKind("entitlement", w.a)
list_balances(w) == OfKind("balance", w.a)
list_credits(w) == OfKind("credit", w.a)
list_me(w) == OfKind("subscription", w.a)
list_owned(w) == OfKind("product", w.a)
list_purchases(w) == OfKind("purchase", w.a)

\* The payments of a subscription, asked for by its number: somebody else's is not found.
list_transactions(w) ==
  IF w.id \in OfKind("subscription", w.a) THEN {r.id : r \in {h \in Held : h.kind = "payment" /\ h.of = w.id}} ELSE {}

read_purchase(w) == OfKind("purchase", w.a) \cap {w.id}

ReadBy(w) ==
  CASE w.route = "list_entitlements" -> list_entitlements(w) [] w.route = "list_balances" -> list_balances(w)
    [] w.route = "list_credits" -> list_credits(w) [] w.route = "list_me" -> list_me(w) [] w.route = "list_owned" -> list_owned(w)
    [] w.route = "list_purchases" -> list_purchases(w) [] w.route = "list_transactions" -> list_transactions(w)
    [] w.route = "read_purchase" -> read_purchase(w) [] OTHER -> {}

Reads(c) ==
  /\ CallAt(c, "routed") /\ calls[c].wish.route \notin {"list_addresses", "save_address", "remove_address", "erase_me", "buy", "subscribe"}
  /\ Answered(c, ReadBy(calls[c].wish))
  /\ UNCHANGED <<member, addresses, sales, heldBy>>

-----------------------------------------------------------------------------
(* The routes that sell: the purchase is of the brand the call names.      *)

buy_product_call(c) ==
  /\ CallAt(c, "routed") /\ calls[c].wish.route = "buy"
  /\ sales' = sales \cup {[a |-> calls[c].wish.a, brand |-> calls[c].wish.brand, what |-> "product"]}
  /\ Answered(c, {})
  /\ UNCHANGED <<member, addresses, heldBy>>

subscribe_to_plan(c) ==
  /\ CallAt(c, "routed") /\ calls[c].wish.route = "subscribe"
  /\ sales' = sales \cup {[a |-> calls[c].wish.a, brand |-> calls[c].wish.brand, what |-> "plan"]}
  /\ Answered(c, {})
  /\ UNCHANGED <<member, addresses, heldBy>>

-----------------------------------------------------------------------------
(* The addresses.                                                          *)

Kept_address(w) == {r \in addresses : r.a = w.a /\ r.purpose = w.purpose}
WishOf(c) == calls[c].wish

list_addresses(c) ==
  /\ CallAt(c, "routed") /\ WishOf(c).route = "list_addresses"
  /\ Answered(c, {<<r.a, r.purpose>> : r \in {k \in addresses : k.a = WishOf(c).a}})
  /\ UNCHANGED <<member, addresses, sales, heldBy>>

\* The row of the purpose is looked for: the one found is written again, and a new one is created.
save_address_call(c) ==
  /\ CallAt(c, "routed") /\ WishOf(c).route = "save_address"
  /\ calls' = [calls EXCEPT ![c].at = IF Kept_address(WishOf(c)) # {} THEN "updates" ELSE "creates", ![c].found = Kept_address(WishOf(c))]
  /\ UNCHANGED <<member, addresses, sales, heldBy>>

\* Variant: the account is held whatever it has become.
hold_Erased(c) ==
  /\ calls[c].at \in {"updates", "creates"} /\ heldBy[WishOf(c).a] = {}
  /\ IF CallAt(c, "creates") /\ Kept_address(WishOf(c)) # {} THEN Goes(c, "refused") /\ UNCHANGED heldBy
     ELSE Goes(c, IF CallAt(c, "updates") THEN "rewrites" ELSE "inserts") /\ heldBy' = [heldBy EXCEPT ![WishOf(c).a] = {c}]
  /\ UNCHANGED <<member, addresses, sales>>

\* The row of the account is held to the end of the transaction, and one that was erased refuses; under it the purpose is looked for again.
hold(c) ==
  /\ calls[c].at \in {"updates", "creates"} /\ heldBy[WishOf(c).a] = {}
  /\ IF member[WishOf(c).a].status = "ERASED" \/ (CallAt(c, "creates") /\ Kept_address(WishOf(c)) # {}) THEN Goes(c, "refused") /\ UNCHANGED heldBy
     ELSE Goes(c, IF CallAt(c, "updates") THEN "rewrites" ELSE "inserts") /\ heldBy' = [heldBy EXCEPT ![WishOf(c).a] = {c}]
  /\ UNCHANGED <<member, addresses, sales>>

\* The row is written and the transaction ends.  The index refuses a second row of one purpose, and a row that went away in between is not there to write.
WritesAddress(c) ==
  /\ calls[c].at \in {"rewrites", "inserts"}
  /\ addresses' = IF CallAt(c, "inserts") THEN addresses \cup {[a |-> WishOf(c).a, purpose |-> WishOf(c).purpose, by |-> c]} ELSE addresses
  /\ IF CallAt(c, "inserts") /\ Kept_address(WishOf(c)) # {} THEN Goes(c, "collided")
     ELSE IF CallAt(c, "rewrites") /\ ~(calls[c].found \subseteq addresses) THEN Goes(c, "broke")
     ELSE Answered(c, {<<WishOf(c).a, WishOf(c).purpose>>})
  /\ heldBy' = [heldBy EXCEPT ![WishOf(c).a] = @ \ {c}]
  /\ UNCHANGED <<member, sales>>

\* The row found is deleted; it holds no account.
remove_address(c) ==
  /\ CallAt(c, "routed") /\ WishOf(c).route = "remove_address"
  /\ addresses' = addresses \ Kept_address(WishOf(c))
  /\ Answered(c, {})
  /\ UNCHANGED <<member, sales, heldBy>>

\* The account is held, and erased with its addresses; one already erased refuses.
erase_me(c) ==
  /\ CallAt(c, "routed") /\ WishOf(c).route = "erase_me" /\ heldBy[WishOf(c).a] = {}
  /\ IF member[WishOf(c).a].status = "ERASED" THEN Goes(c, "refused") /\ UNCHANGED <<member, addresses>>
     ELSE /\ member' = [member EXCEPT ![WishOf(c).a].status = "ERASED"]
          /\ addresses' = {r \in addresses : r.a # WishOf(c).a}
          /\ Answered(c, {})
  /\ UNCHANGED <<sales, heldBy>>

\* The password changes on another device.
SessionsEnd(a) ==
  /\ member[a].status = "ACTIVE" /\ member[a].epoch = 0 /\ heldBy[a] = {}
  /\ member' = [member EXCEPT ![a].epoch = 1]
  /\ UNCHANGED <<addresses, sales, calls, heldBy>>

ApiInit ==
  /\ member = [a \in ApiAccount |-> [status |-> "ACTIVE", epoch |-> 0]]
  /\ addresses = {} /\ sales = {} /\ heldBy = [a \in ApiAccount |-> {}]
  /\ calls \in {[c \in ApiCall |-> [wish |-> ws[c], at |-> "called", found |-> {}, shows |-> {}]] : ws \in ApiWishes}

ApiNext ==
  \/ \E c \in ApiCall :
       \/ Authenticates(c) \/ Reads(c) \/ buy_product_call(c) \/ subscribe_to_plan(c)
       \/ list_addresses(c) \/ save_address_call(c) \/ hold(c) \/ WritesAddress(c) \/ remove_address(c) \/ erase_me(c)
  \/ \E a \in ApiAccount : SessionsEnd(a)

-----------------------------------------------------------------------------
(* What must hold.                                                         *)

\* The accounts, the rows and the calls have the shape the code gives them.
ApiTypeOK ==
  /\ member \in [ApiAccount -> [status : {"ACTIVE", "ERASED"}, epoch : 0 .. 1]]
  /\ addresses \subseteq [a : ApiAccount, purpose : Purpose, by : ApiCall] /\ heldBy \in [ApiAccount -> SUBSET ApiCall]
  /\ \A c \in ApiCall :
       /\ calls[c].wish \in Wish
       /\ calls[c].at \in {"called", "refused", "routed", "updates", "creates", "rewrites", "inserts", "answered", "collided", "broke"}

\* However the calls that write one address arrive together, the second never runs into the index: it is told of the first.
NoAddressCollides == \A c \in ApiCall : ~CallAt(c, "collided")

\* Nothing personal lands on an account that was erased, even by a call that was let in before.
ErasedHasNoAddress == \A r \in addresses : member[r.a].status # "ERASED"

\* What a call opens is of the brand of its account.
SoldInsideItsBrand == \A s \in sales : s.brand = BrandOf[s.a]

\* An answer shows records of the account of its token, whatever number the call names.
AnsweredAreOwn ==
  \A c \in ApiCall :
    CallAt(c, "answered") /\ WishOf(c).route \notin {"list_addresses", "save_address"} => \A id \in calls[c].shows : \E h \in Held : h.id = id /\ h.a = WishOf(c).a

\* Calls of one account at once never collide on an address, write one back to an erased account, or reach what another account or brand holds.
ApiInv == ApiTypeOK /\ NoAddressCollides /\ ErasedHasNoAddress /\ SoldInsideItsBrand /\ AnsweredAreOwn
=============================================================================
