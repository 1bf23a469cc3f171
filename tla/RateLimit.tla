------------------------------ MODULE RateLimit ------------------------------
(***************************************************************************)
(* helpers/bounded_windows.py under helpers/rate_limiter.py: the counters  *)
(* of every client and the one of the whole process, in one mapping that   *)
(* holds the keys used most recently and no more than it was given.        *)
(*                                                                         *)
(* External, from how the limiter uses the mapping: a hit reads the window *)
(* of its key and counts in place, and sets a fresh one where there is     *)
(* none or it expired.  Requests for files and probes are never counted.   *)
(***************************************************************************)
EXTENDS Integers, Sequences, FiniteSets

CONSTANTS
  LimitedClient,  \* addresses
  Capacity,       \* settings.rate_limit.tracked_clients
  IpLimit, TotalLimit,
  MaxWindows,     \* bound on the windows that pass
  MaxRequests     \* bound on the requests of one window

TotalKey == "total"
LimitedKey == LimitedClient \cup {TotalKey}

ASSUME RateLimitAssumption ==
  /\ Capacity \in Nat \ {0} /\ IpLimit \in Nat /\ TotalLimit \in Nat /\ MaxWindows \in Nat /\ MaxRequests \in Nat
  /\ TotalKey \notin LimitedClient

VARIABLES
  windows,   \* the mapping, least recently used first: [key, since, hits]
  window,    \* the window that is counting now
  requests,  \* requests that came in it
  servedTo,  \* [LimitedKey -> requests served in it, those of everybody under the key of the process]
  between,   \* history: [LimitedKey -> the other keys counted since it was]
  crowdedOut \* history: keys that came back in this window after as many others as the mapping holds

rateVars == <<windows, window, requests, servedTo, between, crowdedOut>>

RateInit ==
  /\ windows = <<>> /\ window = 0 /\ requests = 0 /\ servedTo = [k \in LimitedKey |-> 0]
  /\ between = [k \in LimitedKey |-> {}] /\ crowdedOut = {}

HoldsKey(ws, key) == \E i \in DOMAIN ws : ws[i].key = key
PlaceOf(ws, key) == CHOOSE i \in DOMAIN ws : ws[i].key = key
WindowOf(ws, key) == ws[PlaceOf(ws, key)]
Others(ws, key) == IF HoldsKey(ws, key) THEN SubSeq(ws, 1, PlaceOf(ws, key) - 1) \o SubSeq(ws, PlaceOf(ws, key) + 1, Len(ws)) ELSE ws

\* __getitem__: the window that was read is the one used last; what it counts is written in place.
getitem(ws, key, hits) == Append(Others(ws, key), [WindowOf(ws, key) EXCEPT !.hits = hits])

\* Variant: what leaves is what came last.
setitem_DropsLast(ws, w) ==
  LET added == Append(Others(ws, w.key), w)
  IN IF Len(added) > Capacity THEN SubSeq(ws, 1, Capacity) ELSE added

\* __setitem__: the window is the one used last, and what was used least leaves while there are too many.
setitem(ws, w) ==
  LET added == Append(Others(ws, w.key), w)
  IN SubSeq(added, Len(added) - (IF Len(added) > Capacity THEN Capacity ELSE Len(added)) + 1, Len(added))

HitsOf(ws, key) == IF HoldsKey(ws, key) /\ WindowOf(ws, key).since = window THEN WindowOf(ws, key).hits ELSE 0

Hit(ws, key) ==
  IF HoldsKey(ws, key) /\ WindowOf(ws, key).since = window
  THEN getitem(ws, key, HitsOf(ws, key) + 1)
  ELSE setitem(ws, [key |-> key, since |-> window, hits |-> 1])

SinceHits(counted) == [k \in LimitedKey |-> IF k \in counted THEN counted \ {k} ELSE between[k] \cup counted]
CrowdedBy(counted) == {k \in counted : Cardinality(between[k] \cup (counted \ {k})) >= Capacity}

\* A request of one address: its own limit first, as the middleware added last, and the limit of the process behind it.
LimitedRequest(c) ==
  LET first == Hit(windows, c)
      refused == HitsOf(windows, c) >= IpLimit
      served == ~refused /\ HitsOf(first, TotalKey) < TotalLimit
      counted == IF refused THEN {c} ELSE {c, TotalKey}
  IN /\ requests < MaxRequests /\ requests' = requests + 1
     /\ windows' = IF refused THEN first ELSE Hit(first, TotalKey)
     /\ servedTo' = IF served THEN [k \in LimitedKey |-> servedTo[k] + (IF k \in counted THEN 1 ELSE 0)] ELSE servedTo
     /\ between' = SinceHits(counted) /\ crowdedOut' = crowdedOut \cup CrowdedBy(counted)
     /\ UNCHANGED window

WindowPasses ==
  /\ window < MaxWindows
  /\ window' = window + 1 /\ requests' = 0
  /\ servedTo' = [k \in LimitedKey |-> 0] /\ crowdedOut' = {}
  /\ between' = [k \in LimitedKey |-> {}]
  /\ UNCHANGED windows

RateNext == WindowPasses \/ \E c \in LimitedClient : LimitedRequest(c)

-----------------------------------------------------------------------------
(* What must hold.                                                         *)

\* The mapping has the shape the limiter gives it, one window for a key and no more of them than it may hold.
RateTypeOK ==
  /\ Len(windows) <= Capacity
  /\ \A i, j \in DOMAIN windows : windows[i].key = windows[j].key => i = j
  /\ window \in 0..MaxWindows /\ requests \in 0..MaxRequests

\* Within a window an address, and the process, is served past its limit only if as many other keys as the mapping holds were counted between two of its calls:
\* a counter that is in use is not the one that makes room.
LimitOf(k) == IF k = TotalKey THEN TotalLimit ELSE IpLimit
LimitsHold == \A k \in LimitedKey : servedTo[k] > LimitOf(k) => k \in crowdedOut
=============================================================================
