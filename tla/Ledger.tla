------------------------------- MODULE Ledger -------------------------------
(***************************************************************************)
(* CreditTransactionService.move and UserBalanceService.held: the balance  *)
(* one account holds of one currency, and the ledger that explains it.     *)
(* Deliveries and manual entries of the panel move it at once, and a       *)
(* delivery that is retried carries the key of the one before it.          *)
(*                                                                         *)
(* The session runs at read committed.  A step is one statement; the row   *)
(* of the balance is locked from its insert or its FOR UPDATE to the       *)
(* commit or the rollback, and a statement that needs it waits.            *)
(***************************************************************************)
EXTENDS Integers, Sequences, SequencesExt

CONSTANTS
  Mover,           \* the calls of move
  LedgerKey,       \* idempotency keys
  LedgerKeyOf,     \* [Mover -> LedgerKey]
  LedgerAmounts,   \* what a movement may carry
  BIG_INTEGER_MAX, \* what the column holds
  MaxLedgerDeaths  \* bound on the calls that die

Nobody == "nobody"

ASSUME LedgerAssumption ==
  /\ LedgerKeyOf \in [Mover -> LedgerKey]
  /\ LedgerAmounts \subseteq Int
  /\ BIG_INTEGER_MAX \in Nat \ {0} /\ MaxLedgerDeaths \in Nat
  /\ Nobody \notin Mover

VARIABLES
  movement,  \* [LedgerKey -> the type and the amount every call with the key asks for]
  foreign,   \* the currency is of another brand than the account
  entries,   \* credit_transaction, oldest first
  balance,   \* user_balance.amount, NoBalance while there is no row
  holder,    \* the call whose transaction holds the row of the balance, Nobody while it is free
  mover,     \* [Mover -> where the call is and the amount it read under its lock]
  ledgerDeaths

ledgerVars == <<movement, foreign, entries, balance, holder, mover, ledgerDeaths>>

NoBalance == -1

CreditTransactionType == {"credit", "debit", "reversal", "adjustment"}
Movement == [type : CreditTransactionType, amount : LedgerAmounts]
MoverPlaces == {"read", "look", "insert", "lock", "settle", "answered", "refused", "dead"}
\* The key of a movement made before any of these.
Earlier == "earlier"
LedgerEntry == [key : LedgerKey \cup {Earlier}, type : CreditTransactionType, amount : Int, balance_after : Int]

LedgerInit ==
  /\ movement \in [LedgerKey -> Movement]
  /\ foreign \in BOOLEAN
  /\ \/ entries = <<>> /\ balance = NoBalance
     \/ entries = <<[key |-> Earlier, type |-> "credit", amount |-> 1, balance_after |-> 1]>> /\ balance = 1
  /\ holder = Nobody
  /\ mover = [m \in Mover |-> [at |-> "read", held |-> 0]]
  /\ ledgerDeaths = 0

MoverAt(m, at) == mover[m].at = at
MoverGoes(m, at) == mover' = [mover EXCEPT ![m].at = at]

DIRECTIONS == [credit |-> 1, debit |-> -1, reversal |-> -1]

\* A directed movement carries a magnitude, and one below zero is refused.
Unsigned(v) == v.type # "adjustment" /\ v.amount < 0

signed_amount(v) == IF v.type = "adjustment" THEN v.amount ELSE DIRECTIONS[v.type] * v.amount

settled_by_key(key) == \E i \in DOMAIN entries : entries[i].key = key

\* The end of a transaction gives the row back; what an insert put there without a commit goes with a rollback.
Ends(m) == holder' = IF holder = m THEN Nobody ELSE holder

\* A key that is already in the ledger is answered, and a currency of another brand refused.
MoveReads(m) ==
  /\ MoverAt(m, "read")
  /\ MoverGoes(m, IF settled_by_key(LedgerKeyOf[m]) THEN "answered" ELSE IF foreign THEN "refused" ELSE "look")
  /\ UNCHANGED <<movement, foreign, entries, balance, holder, ledgerDeaths>>

\* insert_or_read looks first, and the session keeps the row it met.
HeldLooks(m) ==
  /\ MoverAt(m, "look")
  /\ mover' = [mover EXCEPT ![m] = IF balance # NoBalance THEN [at |-> "lock", held |-> balance] ELSE [@ EXCEPT !.at = "insert"]]
  /\ UNCHANGED <<movement, foreign, entries, balance, holder, ledgerDeaths>>

\* The unique key makes a second insert wait for the first one's transaction, and fail over what it wrote.
HeldInserts(m) ==
  /\ MoverAt(m, "insert") /\ holder = Nobody
  /\ IF balance = NoBalance
     THEN holder' = m /\ MoverGoes(m, "lock")
     ELSE mover' = [mover EXCEPT ![m] = [at |-> "lock", held |-> balance]] /\ UNCHANGED holder
  /\ UNCHANGED <<movement, foreign, entries, balance, ledgerDeaths>>

\* Variant: FOR UPDATE without populate_existing answers what the session already held.
HeldLocks_NoReread(m) ==
  /\ MoverAt(m, "lock") /\ holder \in {Nobody, m}
  /\ holder' = m
  /\ MoverGoes(m, "settle")
  /\ UNCHANGED <<movement, foreign, entries, balance, ledgerDeaths>>

\* FOR UPDATE waits for the row and reads it again.
HeldLocks(m) ==
  /\ MoverAt(m, "lock") /\ holder \in {Nobody, m}
  /\ holder' = m
  /\ mover' = [mover EXCEPT ![m] = [at |-> "settle", held |-> IF balance = NoBalance THEN 0 ELSE balance]]
  /\ UNCHANGED <<movement, foreign, entries, balance, ledgerDeaths>>

\* Under the lock: the key once more, the range of the column, and the entry with the balance in one commit; a refusal rolls back.
MoveSettles(m) ==
  LET v == movement[LedgerKeyOf[m]]
      after == mover[m].held + signed_amount(v)
      refuses == Unsigned(v) \/ after < 0 \/ after > BIG_INTEGER_MAX
  IN /\ MoverAt(m, "settle")
     /\ IF settled_by_key(LedgerKeyOf[m]) THEN MoverGoes(m, "answered") /\ UNCHANGED <<entries, balance>>
        ELSE IF refuses THEN MoverGoes(m, "refused") /\ UNCHANGED <<entries, balance>>
        ELSE /\ entries' = Append(entries, [key |-> LedgerKeyOf[m], type |-> v.type, amount |-> signed_amount(v), balance_after |-> after])
             /\ balance' = after
             /\ MoverGoes(m, "answered")
     /\ Ends(m)
     /\ UNCHANGED <<movement, foreign, ledgerDeaths>>

\* The process of a call dies, and the database rolls its transaction back.
MoverDies(m) ==
  /\ mover[m].at \in {"insert", "lock", "settle"} /\ ledgerDeaths < MaxLedgerDeaths
  /\ ledgerDeaths' = ledgerDeaths + 1
  /\ MoverGoes(m, "dead")
  /\ Ends(m)
  /\ UNCHANGED <<movement, foreign, entries, balance>>

Move(m) == MoveReads(m) \/ HeldLooks(m) \/ HeldInserts(m) \/ HeldLocks(m) \/ MoveSettles(m) \/ MoverDies(m)

LedgerNext == \E m \in Mover : Move(m)

LedgerSpec == LedgerInit /\ [][LedgerNext]_ledgerVars

-----------------------------------------------------------------------------
(* What must hold.                                                         *)

\* The rows and the calls have the shape the code gives them.
LedgerTypeOK ==
  /\ movement \in [LedgerKey -> Movement] /\ foreign \in BOOLEAN
  /\ \A i \in DOMAIN entries : entries[i] \in LedgerEntry
  /\ balance \in Int /\ ledgerDeaths \in 0..MaxLedgerDeaths
  /\ holder \in Mover \cup {Nobody}
  /\ \A m \in Mover : mover[m] \in [at : MoverPlaces, held : Int]

BalanceBefore(i) == IF i = 1 THEN 0 ELSE entries[i - 1].balance_after

\* Every entry says the balance it left, each follows from the one before it within the range of the column, and the balance is what the last one said.
LedgerAddsUp ==
  /\ \A i \in DOMAIN entries :
       /\ entries[i].balance_after = BalanceBefore(i) + entries[i].amount
       /\ entries[i].balance_after \in 0..BIG_INTEGER_MAX
  /\ IF entries = <<>> THEN balance \in {NoBalance, 0} ELSE balance = Last(entries).balance_after

\* A call whose key is in the ledger is never refused: a repeat that waited for the lock is answered the entry the first one wrote.
RepeatIsAnswered ==
  [][\A m \in Mover : (~MoverAt(m, "refused") /\ mover'[m].at = "refused") => ~settled_by_key(LedgerKeyOf[m])]_ledgerVars

\* The ledger explains the balance through movements that wait for each other, and answers one that is repeated.
LedgerKeeps == [](LedgerTypeOK /\ LedgerAddsUp) /\ RepeatIsAnswered
=============================================================================
