------------------------------ MODULE MCSyncSystem ------------------------------
(***************************************************************************)
(* Small instances of SyncSystem: one or two pages of one device, records  *)
(* a and b.  The pages are interchangeable.                                *)
(***************************************************************************)
EXTENDS SyncSystem, TLC

CONSTANTS p1, p2, a, b

Pages == Permutations(Page)

\* With one page open, two mutations and two failures of any kind; or four mutations
\* and none, where time stands still and nothing is in conflict.  With two pages, one
\* record, one lost request and no closed page; no user decisions, time stands still,
\* and after the loss no run is chained behind another.
Smaller ==
    \/ /\ Cardinality(open) = 1
       /\ \/ losses + reloads <= 2 /\ issued <= 2
          \/ /\ losses + reloads = 0 /\ clock = 1
             /\ \A i \in MutationId : fate[i] # "rejected_conflict"
             /\ \A p \in open : uiTask[p].kind \in {"none", "mutate"}
    \/ /\ Cardinality(open) = 2 /\ issued <= 2
       /\ losses <= 1 /\ reloads = 0 /\ clock = 1
       /\ \A p \in Page :
             /\ losses = 1 => ~wanted[p]
             /\ uiTask[p] # NoTask =>
                   uiTask[p].kind = "mutate" /\ uiTask[p].item.entity = a

===============================================================================
