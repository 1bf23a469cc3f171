------------------------------ MODULE MCDelivery ------------------------------
(* Instances of Delivery: one recurring credit, and one once-per-user credit promised by two subscriptions. *)
EXTENDS Delivery, TLC

CONSTANTS s1, s2, b1, b2, n1, n2, u1, u2, p1, p2

OneSub == [b \in Benefit |-> s1]
TwoSubs == b1 :> s1 @@ b2 :> s2
AllPromised == [p \in Plan |-> Benefit]
Credits == [b \in Benefit |-> "CREDIT"]
Recurring == [b \in Benefit |-> "RECURRING"]
OncePer == [b \in Benefit |-> "ONCE_PER_USER"]
Activating == [b \in Benefit |-> TRUE]
TwoPlans == p1 :> {b1, b2} @@ p2 :> {b2}
ProductAndAccess == b1 :> "PRODUCT" @@ b2 :> "ACCESS"
RecurringAndOnce == b1 :> "RECURRING" @@ b2 :> "ON_ACTIVATION"
SkipAll == [b \in Benefit |-> "SKIP"]
LatestOnly == [b \in Benefit |-> "LATEST_ONLY"]
NotActivating == [b \in Benefit |-> FALSE]
CatchUp == [b \in Benefit |-> "CATCH_UP"]
Symmetry == Permutations(Node)
=============================================================================
