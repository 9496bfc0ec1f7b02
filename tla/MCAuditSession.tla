----------------------------- MODULE MCAuditSession -----------------------------
(***************************************************************************)
(* Small instances of AuditSession.  Imports, bills, lines and the user's  *)
(* transactions are interchangeable.                                       *)
(***************************************************************************)
EXTENDS AuditSession, TLC

CONSTANTS i1, i2, b1, b2, l1, l2, t1, t2

Alike ==
    Permutations(Import) \cup Permutations(Bill) \cup Permutations(Line) \cup Permutations(Txn)

\* One import of two bills (a group of cards), or two imports of one bill.  To
\* complete a session does not touch the ledger: with two imports, the user edits it
\* or completes sessions.
TwoImportsOrTwoBills ==
    \/ Cardinality({i \in Import : flow[i] # "new"}) <= 1
    \/ /\ Cardinality({s[2] : s \in UNION {todo[i] : i \in Import}
                                \cup {s \in Session : statement[s] # "none"}}) <= 1
       /\ \/ edited = 0
          \/ counted = {} /\ \A s \in Session : session[s] # "completed"

===============================================================================
