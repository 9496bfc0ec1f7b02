------------------------------- MODULE ChangeFeed -------------------------------
(***************************************************************************)
(* The way down: the change_log that the server's transactions append to   *)
(* (packages/database/src/sync.ts), the feed a device pulls from it with a *)
(* cursor (apps/api/src/sync-routes.ts), and the mirror the device keeps   *)
(* in IndexedDB (apps/web/src/offline.ts, packages/sync/src/feed.ts).      *)
(*                                                                         *)
(* A sequence number is drawn when a transaction inserts its change and    *)
(* the change is seen when it commits; a transaction keeps the rows it     *)
(* wrote locked in between, and others may commit meanwhile.               *)
(*                                                                         *)
(* The mirror is read and written in two IndexedDB transactions.  Every    *)
(* open page pulls for itself, and what the user does writes to the mirror *)
(* as well: an optimistic entry for a mutation, the server's row for a     *)
(* conflict that is given up.                                              *)
(*                                                                         *)
(* A version here is the rank of a change among those of its record.  The  *)
(* version column counts the same, as long as no writer was overtaken (see *)
(* VersionsCountChanges in MutationService).                               *)
(***************************************************************************)
EXTENDS Naturals, FiniteSets

CONSTANTS
    Entity,
    Transaction,  \* write transactions of the server, each runs once
    Page,
    Limit,        \* the most changes that one response carries
    MaxPuts       \* bound: what the user's actions write to the mirror

ASSUME FeedAssumption == Limit \in Nat \ {0} /\ MaxPuts \in Nat

Change == [seq : Nat, entity : Entity, version : Nat]

\* An entry of the mirror; version 0 is no entry.
Entry == [version : Nat, from : {"feed", "user"}]
NoEntry == [version |-> 0, from |-> "feed"]

VARIABLES
    log,      \* committed rows of change_log
    nextSeq,  \* the bigserial behind change_log.seq
    phase,    \* of each transaction: new, open, over
    written,  \* the changes each transaction has inserted
    cursor,   \* the device's cursor, in the meta store
    mirror,
    step,     \* where each page is in its pull: idle, asked, merge, write
    since,    \* the cursor it asked with
    feed,     \* the changes it received
    copy,     \* the mirror it read
    puts,     \* bounded by MaxPuts
    late      \* history: changes that committed after a later one

serverVars == <<log, nextSeq, phase, written, late>>
pullVars == <<step, since, feed, copy>>
vars == <<serverVars, cursor, mirror, pullVars, puts>>

Init ==
    /\ log = {} /\ nextSeq = 1 /\ late = {}
    /\ phase = [t \in Transaction |-> "new"]
    /\ written = [t \in Transaction |-> {}]
    /\ cursor = 0
    /\ mirror = [e \in Entity |-> NoEntry]
    /\ step = [p \in Page |-> "idle"]
    /\ since = [p \in Page |-> 0]
    /\ feed = [p \in Page |-> {}]
    /\ copy = [p \in Page |-> mirror]
    /\ puts = 0

-------------------------------------------------------------------------------
(***************************************************************************)
(* The server                                                              *)
(***************************************************************************)

ChangesOf(e) == {c \in log : c.entity = e}
VersionOf(e) == Cardinality(ChangesOf(e))
Latest(S) == CHOOSE c \in S : \A d \in S : d.seq <= c.seq

\* Mutant: a written row is not locked.
Unlocked(e) == FALSE

Locked(e) == \E t \in Transaction : phase[t] = "open" /\ \E c \in written[t] : c.entity = e

\* recordChange: the row has been written, and its change takes the next number.
RecordChange(t, e) ==
    /\ phase[t] \in {"new", "open"}
    /\ ~Locked(e)
    /\ phase' = [phase EXCEPT ![t] = "open"]
    /\ written' = [written EXCEPT ![t] = @ \cup
            {[seq |-> nextSeq, entity |-> e, version |-> VersionOf(e) + 1]}]
    /\ nextSeq' = nextSeq + 1
    /\ UNCHANGED <<log, late, cursor, mirror, pullVars, puts>>

CommitAll(t) ==
    /\ phase[t] = "open"
    /\ phase' = [phase EXCEPT ![t] = "over"]
    /\ log' = log \cup written[t]
    /\ late' = late \cup {c \in written[t] : \E d \in log : d.seq > c.seq}
    /\ UNCHANGED <<nextSeq, written, cursor, mirror, pullVars, puts>>

\* A rolled back transaction leaves a hole in the sequence.
Abort(t) ==
    /\ phase[t] = "open"
    /\ phase' = [phase EXCEPT ![t] = "over"]
    /\ UNCHANGED <<log, nextSeq, late, written, cursor, mirror, pullVars, puts>>

\* Mutant: what is not committed is listed as well.
ListedDirty(s) ==
    LET after == {c \in log \cup UNION {written[t] : t \in Transaction} : c.seq > s}
    IN  {c \in after : Cardinality({d \in after : d.seq < c.seq}) < Limit}

\* listChanges: the first changes after the cursor.
Listed(s) ==
    LET after == {c \in log : c.seq > s}
    IN  {c \in after : Cardinality({d \in after : d.seq < c.seq}) < Limit}

-------------------------------------------------------------------------------
(***************************************************************************)
(* The device                                                              *)
(***************************************************************************)

Goto(p, s) == step' = [step EXCEPT ![p] = s]

\* syncCursor, and the request leaves.
Ask(p) ==
    /\ step[p] = "idle"
    /\ Goto(p, "asked")
    /\ since' = [since EXCEPT ![p] = cursor]
    /\ UNCHANGED <<serverVars, cursor, mirror, feed, copy, puts>>

\* The server answers with what is committed now.
Receive(p) ==
    /\ step[p] = "asked"
    /\ Goto(p, "merge")
    /\ feed' = [feed EXCEPT ![p] = Listed(since[p])]
    /\ UNCHANGED <<serverVars, cursor, mirror, since, copy, puts>>

\* The pull fails, or the page is closed.
GiveUp(p) ==
    /\ step[p] # "idle"
    /\ Goto(p, "idle")
    /\ since' = [since EXCEPT ![p] = 0]
    /\ feed' = [feed EXCEPT ![p] = {}]
    /\ copy' = [copy EXCEPT ![p] = [e \in Entity |-> NoEntry]]
    /\ UNCHANGED <<serverVars, cursor, mirror, puts>>

\* applyServerFeed reads the whole mirror.
ReadMirror(p) ==
    /\ step[p] = "merge"
    /\ Goto(p, "write")
    /\ copy' = [copy EXCEPT ![p] = mirror]
    /\ UNCHANGED <<serverVars, cursor, mirror, since, feed, puts>>

\* Mutant: the last number the server has.
LastOfLog(p) == IF log = {} THEN since[p] ELSE Latest(log).seq

\* nextSince: the number of the last change received.
NextSince(p) == IF feed[p] = {} THEN since[p] ELSE Latest(feed[p]).seq

\* applyChangeFeed over the copy.  Every entry of the result is stored, those
\* that were only copied too.
Merged(p, e) ==
    LET fresh == {c \in feed[p] : c.entity = e} IN
    IF fresh # {} THEN [version |-> Latest(fresh).version, from |-> "feed"]
    ELSE IF copy[p][e] # NoEntry THEN copy[p][e]
    ELSE mirror[e]

WriteMirror(p) ==
    /\ step[p] = "write"
    /\ mirror' = [e \in Entity |-> Merged(p, e)]
    /\ cursor' = NextSince(p)
    /\ Goto(p, "idle")
    /\ since' = [since EXCEPT ![p] = 0]
    /\ feed' = [feed EXCEPT ![p] = {}]
    /\ copy' = [copy EXCEPT ![p] = [e \in Entity |-> NoEntry]]
    /\ UNCHANGED <<serverVars, puts>>

\* applyOptimisticCache and putMirror: the entry is what the user sees now, a
\* version that the device made up or one that the server had some time ago.
UserPut(e, v) ==
    /\ puts < MaxPuts
    /\ puts' = puts + 1
    /\ v \in 1 .. VersionOf(e) + 1
    /\ mirror' = [mirror EXCEPT ![e] = [version |-> v, from |-> "user"]]
    /\ UNCHANGED <<serverVars, cursor, pullVars>>

Next ==
    \/ \E t \in Transaction :
        \/ \E e \in Entity : RecordChange(t, e)
        \/ CommitAll(t)
        \/ Abort(t)
    \/ \E p \in Page : Ask(p) \/ Receive(p) \/ GiveUp(p) \/ ReadMirror(p) \/ WriteMirror(p)
    \/ \E e \in Entity, v \in 1 .. nextSeq : UserPut(e, v)

Spec == Init /\ [][Next]_vars

-------------------------------------------------------------------------------
(***************************************************************************)
(* Properties                                                              *)
(***************************************************************************)

TypeOK ==
    /\ log \subseteq Change /\ late \subseteq log
    /\ nextSeq \in Nat \ {0}
    /\ phase \in [Transaction -> {"new", "open", "over"}]
    /\ written \in [Transaction -> SUBSET Change]
    /\ cursor \in Nat
    /\ mirror \in [Entity -> Entry]
    /\ step \in [Page -> {"idle", "asked", "merge", "write"}]
    /\ since \in [Page -> Nat]
    /\ feed \in [Page -> SUBSET log] /\ copy \in [Page -> [Entity -> Entry]]
    /\ puts \in 0 .. MaxPuts

\* What the cursor has passed is in the mirror: an entry that came from the
\* feed is as new as every change the cursor covers, but for the changes that
\* committed after a later one.  Responses of limited length, pulls given up half
\* way and merges from an old copy of the mirror never break this.  It is stated
\* for a device with one open page: of two, the one with the older response
\* takes cursor and mirror back, and a longer feed of the other, asked for
\* before, then lifts the cursor over changes the mirror has lost.
CursorIsCovered ==
    \A e \in Entity : mirror[e].from = "feed" =>
        \A c \in ChangesOf(e) \ late : c.seq <= cursor => mirror[e].version >= c.version

\* A row's changes commit in the order of their numbers, so the last one of a
\* feed is the newest and a later page never takes an entry back.
FeedIsInOrder ==
    \A c, d \in log : c.entity = d.entity => (c.seq < d.seq <=> c.version < d.version)

\* SYNC_DESIGN 3.4: where the mirror differs from the server, the feed is right
\* and overwrites it.  A device that has pulled all there is agrees with the
\* server.
MirrorConverges ==
    (\A t \in Transaction : phase[t] # "open") /\ (\A c \in log : c.seq <= cursor)
      /\ (\A p \in Page : step[p] = "idle")
    => \A e \in Entity : mirror[e].version = VersionOf(e)

===============================================================================
