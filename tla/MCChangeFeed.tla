------------------------------ MODULE MCChangeFeed ------------------------------
(***************************************************************************)
(* Small instances of ChangeFeed.  Transactions and pages are              *)
(* interchangeable, and so are the two records.                            *)
(***************************************************************************)
EXTENDS ChangeFeed, TLC

CONSTANTS t1, t2, t3, p1, p2, a, b

Alike == Permutations(Transaction) \cup Permutations(Page) \cup Permutations(Entity)

===============================================================================
