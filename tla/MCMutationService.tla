--------------------------- MODULE MCMutationService ---------------------------
(***************************************************************************)
(* Small instances of MutationService.  The envelopes are chosen so that   *)
(* one row is created, then edited and deleted by two writers that saw the *)
(* same version; every envelope may be sent any number of times, by        *)
(* several workers at once.                                                *)
(***************************************************************************)
EXTENDS MutationService

CONSTANTS m1, m2, m3, u1, u2, e1, w1, w2

Send(i, u, o, b) ==
    [id |-> i, user |-> u, entity |-> e1, op |-> o, base |-> b, wellFormed |-> TRUE]

\* A second user draws the same key for the same row; the last envelope fails
\* its schema.
LifeOfARow ==
    {Send(m1, u1, "create", NoBase), Send(m1, u2, "create", NoBase),
     Send(m2, u1, "update", 1), Send(m3, u1, "delete", 1),
     [Send(m3, u2, "delete", NoBase) EXCEPT !.wellFormed = FALSE]}

\* Two edits of the version that both writers saw.
TwoWriters ==
    {Send(m1, u1, "create", NoBase), Send(m2, u1, "update", 1), Send(m3, u1, "update", 1)}

===============================================================================
