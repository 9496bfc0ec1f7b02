---------------------------- MODULE MutationPromise ----------------------------
(***************************************************************************)
(* What the write path promises to a client that may repeat a mutation     *)
(* (SYNC_DESIGN 3.2): the fate of a mutation is decided once, in one step  *)
(* with its effect, and from then on that fate is all its owner is told.   *)
(***************************************************************************)
CONSTANTS MutationId

VARIABLES
    fate,     \* what became of each mutation
    effects,  \* the mutations whose writes are in the ledger
    told      \* the fates that have been answered

Fate == {"open", "applied", "rejected_conflict", "rejected_invalid"}

Init ==
    /\ fate = [i \in MutationId |-> "open"]
    /\ effects = {}
    /\ told = {}

\* The mutation is decided; it takes effect if and only if it is applied.  The
\* answer leaves with the decision.
Decide(i, f) ==
    /\ fate[i] = "open"
    /\ fate' = [fate EXCEPT ![i] = f]
    /\ effects' = IF f = "applied" THEN effects \cup {i} ELSE effects
    /\ told' = told \cup {<<i, f>>}

\* The mutation is sent again, and the fate it has is repeated.
Repeat(i) ==
    /\ fate[i] # "open"
    /\ told' = told \cup {<<i, fate[i]>>}
    /\ UNCHANGED <<fate, effects>>

Next ==
    \E i \in MutationId :
        \/ \E f \in Fate \ {"open"} : Decide(i, f)
        \/ Repeat(i)

Spec == Init /\ [][Next]_<<fate, effects, told>>

===============================================================================
