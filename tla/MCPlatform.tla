-------------------------------- MODULE MCPlatform --------------------------------
(***************************************************************************)
(* A small instance of Platform: three transactions and two records in the *)
(* feed; two users with two sessions and challenges and one of every other *)
(* thing that is used once; a bill that falls due and something overdue;   *)
(* two imports.  Two workers are its requests, scans and purges.           *)
(***************************************************************************)
EXTENDS Platform, TLC

CONSTANTS
    t1, t2, t3, p1, a, b, w1, w2, u1, u2, i1, c1, c2, r1, s1, s2, d1, k1, f1, f2, bill, late1

\* Days of three hours.  The bill is due on the second day, the other thing is overdue on
\* three; quiet are two hours over midnight, or the first hour of the day.
Windows == bill :> <<1, 1>> @@ late1 :> <<0, 2>>
TwoPreferences ==
    {[discord |-> TRUE, push |-> TRUE, muted |-> {}, quietFrom |-> 2, quietTo |-> 1],
     [discord |-> FALSE, push |-> TRUE, muted |-> {bill}, quietFrom |-> 0, quietTo |-> 1]}

\* Challenges, devices and idle sessions, Discord or invitations: one of these at a time.  Where the
\* first user has a second factor, nobody else registers.
OneMatter ==
    /\ totp # {} /\ asked = 0 => mode = "closed"
    /\ Cardinality({n \in 1..4 :
         CASE n = 1 -> \E c \in Challenge : challenge[c] # None
           [] n = 2 -> \/ \E d \in Device : device[d] # None
                       \/ \E s \in Session : session[s] # None /\ session[s].state = "idle"
                       \/ \E w \in Worker : job[w].op = "touch"
           [] n = 3 -> \/ \E k \in Discord : token[k] # "none"
                       \/ \E w \in Worker : job[w].op = "link"
           [] n = 4 -> \E i \in Invite : invite[i] # "none"}) <= 1

OneInterference == Cardinality(settled) + (IF changed THEN 1 ELSE 0) <= 1

Within ==
    /\ part = "access" => OneMatter
    /\ part = "reminders" => OneInterference

Alike ==
    UNION {Permutations(S) : S \in {{t1, t2}, Entity, Worker, Challenge, Session}}

===============================================================================
