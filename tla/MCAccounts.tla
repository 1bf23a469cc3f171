------------------------------ MODULE MCAccounts ------------------------------
(* Two requests at a time over a handful of accounts and two mailboxes. *)
EXTENDS Accounts, TLC

CONSTANTS q1, q2, m1, m2, p1, p2, x1

Alike == Permutations(Request) \cup Permutations(Mailbox) \cup Permutations(Password)
=============================================================================
