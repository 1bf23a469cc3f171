------------------------------ MODULE NewestWord ------------------------------
(***************************************************************************)
(* What models/subscription.py promises of `stated_at`: whichever order    *)
(* the words of a gateway are heard in, an older one never moves what a    *)
(* newer one said.  A row says the same until a word as new as its own     *)
(* comes, but for three things no gateway dates: its receipt passes to     *)
(* another account, another row of the account takes its receipt, and the  *)
(* period it carries runs out.                                             *)
(***************************************************************************)
EXTENDS Integers

CONSTANTS Row, None, Eligible

VARIABLE said   \* [Row -> None, or who a row is for, what it says and when that was said]

Older(a, b) == a # None /\ b # None /\ a < b

\* What the rows said before is anything.
Init == DOMAIN said = Row

Unmoved(rest) == \A r \in rest : said'[r] = said[r]

First(r) == said[r] = None /\ said'[r] # None /\ Unmoved(Row \ {r})

\* The row says what a word says that is not older than the last one.
Newer(r) ==
  /\ said[r] # None /\ said'[r] # None
  /\ said'[r].user = said[r].user
  /\ said'[r].at = None => said[r].at = None
  /\ ~Older(said'[r].at, said[r].at)

Word(r) == Newer(r) /\ said'[r].at # None /\ Unmoved(Row \ {r})

\* The receipt moves inside the account, and who carried it so far ends.
Adopted(r, o) ==
  /\ Newer(r)
  /\ said[o] # None /\ said[o].user = said[r].user /\ said[o].receipt = said'[r].receipt
  /\ said'[o] = [said[o] EXCEPT !.receipt = None, !.status = said'[o].status]
  /\ said'[o].status \notin Eligible
  /\ Unmoved(Row \ {r, o})

\* Another account holds the receipt.
PassedOn(r) ==
  /\ said[r] # None /\ said'[r] # None
  /\ said'[r].user # said[r].user
  /\ said'[r].receipt = said[r].receipt /\ said'[r].at = said[r].at
  /\ Unmoved(Row \ {r})

RanOut(r) ==
  /\ said[r] # None /\ said[r].status \in Eligible
  /\ said'[r] = [said[r] EXCEPT !.status = said'[r].status]
  /\ said'[r].status \notin Eligible
  /\ Unmoved(Row \ {r})

Next ==
  /\ DOMAIN said' = Row
  /\ \E r \in Row : First(r) \/ Word(r) \/ PassedOn(r) \/ RanOut(r) \/ \E o \in Row \ {r} : Adopted(r, o)

Spec == Init /\ [][Next]_said
=============================================================================
