------------------------------- MODULE SyncSystem -------------------------------
(***************************************************************************)
(* A device with its offline queue, a network that loses requests and      *)
(* responses, and the server behind it.  The server is taken at its        *)
(* promise (MutationPromise, which MutationService implements): it decides *)
(* the fate of a mutation once and repeats it, and every decision it could *)
(* come to is tried.                                                       *)
(***************************************************************************)
EXTENDS OfflineClient

CONSTANTS
    MaxLosses,   \* bound: requests that get no usable response
    MaxReloads   \* bound: times a page is closed and opened again

ASSUME LossAssumption == MaxLosses \in Nat /\ MaxReloads \in Nat
ASSUME PageAssumption == IsFiniteSet(Page)

VARIABLES
    fate, effects, told,  \* the server, see MutationPromise
    open,       \* the pages that are open, over one IndexedDB
    orphans,    \* requests that a page gave up on and the server may yet serve
    losses,     \* bounded by MaxLosses
    reloads,    \* bounded by MaxReloads
    entrusted,  \* history: mutations that were stored and not dismissed by the user
    behind      \* history: <<i, j>> if j was queued behind i for the same record

serverVars == <<fate, effects, told>>
netVars == <<open, orphans, losses, reloads>>
history == <<entrusted, behind>>
vars == <<clientVars, serverVars, netVars, history>>

Server == INSTANCE MutationPromise

SysInit ==
    /\ Init
    /\ Server!Init
    /\ open \in SUBSET Page \ {{}}
    /\ orphans = {}
    /\ losses = 0
    /\ reloads = 0
    /\ entrusted = {}
    /\ behind = {}

\* The server handles a request for mutation i: it decides, or repeats.
Serve(i) == (\E f \in Server!Fate \ {"open"} : Server!Decide(i, f)) \/ Server!Repeat(i)

\* What it answers.  A repeated success is called a duplicate, and the row a
\* conflict is answered with is not there when the answer is repeated.
Reply(i) ==
    [id |-> i,
     result |-> IF fate[i] = "applied" THEN "duplicate" ELSE fate'[i],
     snapshot |-> fate[i] = "open" /\ fate'[i] = "rejected_conflict"]

\* A request is served and its response received.
Exchange(p) ==
    /\ syncStep[p] = "sent"
    /\ Serve(syncId[p])
    /\ Answered(p, Reply(syncId[p]))
    /\ UNCHANGED <<netVars, history>>

\* A page loses the connection, or is told of a server error.  The request may
\* have been lost, or be on its way still.
Lose(p) ==
    /\ losses < MaxLosses
    /\ losses' = losses + 1
    /\ GiveUp(p)
    /\ orphans' \in {orphans} \cup
            (IF syncStep[p] = "sent" THEN {orphans \cup {syncId[p]}} ELSE {})
    /\ UNCHANGED <<serverVars, open, reloads, history>>

\* The server gets to a request whose page no longer waits for it.
ServeOrphan(i) ==
    /\ i \in orphans
    /\ orphans' = orphans \ {i}
    /\ Serve(i)
    /\ UNCHANGED <<clientVars, open, losses, reloads, history>>

CloseAndOpen(p) ==
    /\ reloads < MaxReloads
    /\ reloads' = reloads + 1
    /\ Reload(p)
    /\ orphans' = IF syncStep[p] = "sent" THEN orphans \cup {syncId[p]} ELSE orphans
    /\ UNCHANGED <<serverVars, open, losses, history>>

\* The user flow's write, with what it means to the user.
Store(p, now) ==
    LET t == uiTask[p]
        added == IF t.kind = "mutate" THEN {t.item}
                 ELSE IF t.kind = "keep_local" THEN Resend(uiCopy[p], t, now) ELSE {}
    IN
    /\ UiWrite(p, now)
    /\ entrusted' = (IF t.kind = "mutate" THEN entrusted ELSE entrusted \ {t.id})
                       \cup {i.id : i \in added}
    /\ behind' = behind \cup
            {<<i.id, j.id>> : i \in {k \in uiCopy[p].outbox : \E a \in added : a.entity = k.entity},
                              j \in added}
    /\ UNCHANGED <<serverVars, netVars>>

UserStarts(p) ==
    /\ \/ \E e \in Entity, t \in 1 .. MaxClock : Mutate(p, e, t)
       \/ \E c \in queue.conflicts : KeepServer(p, c) \/ KeepLocal(p, c)
       \/ \E d \in queue.drafts : Discard(p, d)
    /\ UNCHANGED <<serverVars, netVars, history>>

UserFlow(p) == (UiRead(p) \/ UiKick(p)) /\ UNCHANGED <<serverVars, netVars, history>>

SyncLoop(p) ==
    /\ StartRun(p) \/ ReadHead(p) \/ SyncRead(p) \/ SyncWrite(p) \/ FeedDone(p)
    /\ UNCHANGED <<serverVars, netVars, history>>

RetryTimer(p) == TimerFires(p) /\ UNCHANGED <<serverVars, netVars, history>>

Foreground(p) == Wake(p) /\ UNCHANGED <<serverVars, netVars, history>>

SysNext ==
    \/ \E p \in open :
        \/ UserStarts(p)
        \/ UserFlow(p)
        \/ \E now \in 1 .. MaxClock : Store(p, now)
        \/ SyncLoop(p)
        \/ RetryTimer(p)
        \/ Foreground(p)
        \/ Exchange(p)
        \/ Lose(p)
        \/ CloseAndOpen(p)
    \/ \E i \in MutationId : ServeOrphan(i)

SysSpec == SysInit /\ [][SysNext]_vars

\* The browser runs every continuation and every timer of an open page, and
\* once the losses are used up a request is answered.  The user, the network's
\* failures and the wake-up events are owed nothing.
SysFairness ==
    \A p \in Page :
        /\ WF_vars(p \in open /\ UserFlow(p))
        /\ WF_vars(p \in open /\ \E now \in 1 .. MaxClock : Store(p, now))
        /\ WF_vars(p \in open /\ SyncLoop(p))
        /\ WF_vars(p \in open /\ RetryTimer(p))
        /\ WF_vars(p \in open /\ Exchange(p))

SysFairSpec == SysSpec /\ SysFairness

-------------------------------------------------------------------------------
(***************************************************************************)
(* Properties                                                              *)
(***************************************************************************)

\* Every variable keeps its shape: a page holds a task, a copy of the queue or
\* a response only in the steps that use it.
TypeOK ==
    /\ queue \in Queue
    /\ issued \in 0 .. MaxMutations
    /\ clock \in 1 .. MaxClock
    /\ uiStep \in [Page -> {"idle", "read", "write", "kick"}]
    /\ uiTask \in [Page -> TaskRecord] /\ uiCopy \in [Page -> Queue]
    /\ syncStep \in [Page -> {"idle", "head", "sent", "read", "write", "feed"}]
    /\ syncId \in [Page -> MutationId \cup {None}] /\ response \in [Page -> Response \cup {None}]
    /\ syncCopy \in [Page -> Queue]
    /\ wanted \in [Page -> BOOLEAN] /\ timer \in [Page -> BOOLEAN]
    /\ \A p \in Page :
        /\ uiTask[p] # NoTask <=> uiStep[p] \in {"read", "write"}
        /\ syncId[p] \in IF syncStep[p] \in {"sent", "read", "write"} THEN MutationId ELSE {None}
        /\ response[p] \in IF syncStep[p] \in {"read", "write"} THEN Response ELSE {None}
    /\ open \subseteq Page
    /\ fate \in [MutationId -> Server!Fate]
    /\ orphans \subseteq MutationId
    /\ losses \in 0 .. MaxLosses /\ reloads \in 0 .. MaxReloads

\* A step that replaces the queue by what was computed from an older one.
StaleWrite ==
    \E p \in Page :
        \/ uiStep[p] = "write" /\ uiStep'[p] # "write" /\ uiCopy[p] # queue
        \/ syncStep[p] = "write" /\ syncStep'[p] # "write" /\ syncCopy[p] # queue

\* The user disposes of mutation i in this step: its conflict or its draft.
DismissedNow(i) ==
    \E p \in Page :
        /\ uiStep[p] = "write" /\ uiStep'[p] # "write"
        /\ uiTask[p].kind # "mutate" /\ uiTask[p].id = i

\* A queued mutation leaves the device only when the server has applied it or
\* the user has disposed of it; lost responses, repeated requests, refusals and
\* restarts never cost one.  The one exception is a write from a stale copy.
OnlyStaleWritesLose ==
    [][\A i \in Held(queue) \ Held(queue') :
         fate[i] = "applied" \/ DismissedNow(i) \/ StaleWrite]_vars

\* A mutation is in one place: waiting, in conflict, or a draft.  A refused
\* mutation is not sent again behind the user's back.
OnePlaceEach ==
    LET out == {i.id : i \in queue.outbox}
        con == {c.item.id : c \in queue.conflicts}
        dra == {d.item.id : d \in queue.drafts}
    IN  out \cap con = {} /\ out \cap dra = {} /\ con \cap dra = {}

\* The server has decided mutation i, or has refused one that i was queued
\* behind for the same record.
Settled(i) ==
    fate[i] # "open" \/ \E b \in behind : b[2] = i /\ fate[b[1]] = "rejected_invalid"

\* SYNC_DESIGN 3.2, FIFO: of two queued mutations the server decides the one
\* that was made first, first, across lost responses and repeated requests, as long
\* as one page is open: two pages write back stale queues.  Of one page, a stale
\* queue can bring back the dependents of a refused mutation, but nothing else,
\* when what came after them is decided already.
FirstInFirstDecided ==
    Cardinality(open) = 1 => \A i, j \in queue.outbox :
        i.id < j.id /\ fate[j.id] # "open" => Settled(i.id)

\* SYNC_DESIGN 3.4, rejected_invalid: what was queued behind a refused mutation
\* of the same record is never sent to the server, as long as one page is open.
DependentsNeverOvertake ==
    Cardinality(open) = 1 => \A b \in behind : fate[b[1]] = "rejected_invalid" => fate[b[2]] = "open"

\* A mutation that is waiting is sent sooner or later and leaves the outbox:
\* no failure, no closed page and no chain of runs strands it.
OutboxDrains ==
    \A i \in MutationId :
        (\E k \in queue.outbox : k.id = i) ~> (\A k \in queue.outbox : k.id # i)

\* SYNC_DESIGN 3.4, "removed only when it succeeded": what the user entrusted
\* to the queue is held by it until the server has applied it.
NothingLost == \A i \in entrusted : i \in Held(queue) \/ fate[i] = "applied"

\* packages/sync types.ts: a conflict carries the server's row, from which the
\* user chooses and whose version a resent mutation is based on.
ConflictsCarryServerCopy == \A c \in queue.conflicts : c.snapshot

===============================================================================
