---------------------------- MODULE SyncSystemProofs ----------------------------
(***************************************************************************)
(* Proofs about SyncSystem, for any number of pages, records and mutations *)
(* and any number of losses.  What is true of the stored queue has to be   *)
(* true of every copy of it that a flow still holds, for each of them may  *)
(* be written back.                                                        *)
(***************************************************************************)
EXTENDS SyncSystem, FiniteSetTheorems, TLAPS

\* Every queue there is: the stored one and the copies.
Queues == {queue} \cup {uiCopy[p] : p \in Page} \cup {syncCopy[p] : p \in Page}

\* The id that a user flow has drawn and not yet stored.
Drawn(t) == IF t.kind = "mutate" THEN {t.item.id}
            ELSE IF t.kind = "keep_local" THEN {t.newId} ELSE {}

\* An id is of one mutation, in one of the stores.
OneOfEach(q) ==
    /\ \A i, j \in q.outbox : i.id = j.id => i = j
    /\ \A c, d \in q.conflicts : c.item.id = d.item.id => c = d
    /\ \A i \in q.outbox : /\ \A c \in q.conflicts : i.id # c.item.id
                           /\ \A d \in q.drafts : i.id # d.item.id
    /\ \A c \in q.conflicts, d \in q.drafts : c.item.id # d.item.id

QueuesAreSound ==
    \A q \in Queues :
        /\ OneOfEach(q)
        /\ \A i \in Held(q) : i <= issued /\ \A p \in Page : i \notin Drawn(uiTask[p])

DrawnOnce ==
    \A p \in Page : \A i \in Drawn(uiTask[p]) :
        i <= issued /\ \A r \in Page \ {p} : i \notin Drawn(uiTask[r])

\* A response that a page holds says what became of the mutation.
ResponsesAreTrue ==
    \A p \in Page : syncStep[p] \in {"read", "write"} =>
        LET r == response[p] IN
        /\ r.result \in {"applied", "duplicate"} => fate[r.id] = "applied"
        /\ r.result \in {"rejected_conflict", "rejected_invalid"} => fate[r.id] = r.result

Inv == TypeOK /\ QueuesAreSound /\ DrawnOnce /\ ResponsesAreTrue

-------------------------------------------------------------------------------
(* With one page open.                                                     *)

Outboxes(p) == {queue.outbox, uiCopy[p].outbox, syncCopy[p].outbox}

\* Mutations that the server has seen or may yet see.
Sent(p) ==
    {i \in MutationId : fate[i] # "open"} \cup orphans
      \cup (IF syncStep[p] = "sent" THEN {syncId[p]} ELSE {})

\* Ids are drawn in the order in which they are used, and sent after they are stored.
IdsInOrder(p) ==
    /\ \A i \in Drawn(uiTask[p]) : i = issued /\ i \notin Sent(p)
    /\ \A j \in Sent(p) : j <= issued

\* Where the clock does not go back, the order of the outbox is that of the ids.
TimesInOrder(p) ==
    /\ \A X \in Outboxes(p) : \A i \in X :
         i.at <= clock /\ \A j \in X : i.id < j.id => i.at <= j.at
    /\ uiTask[p].kind = "mutate" => uiTask[p].item.at = clock

\* Who is behind whom is known of all that are in one outbox, ...
BehindIsKnown(p) ==
    /\ \A b \in behind : /\ b \in MutationId \X MutationId
                         /\ b[1] < b[2] /\ b[2] <= issued /\ b[2] \notin Drawn(uiTask[p])
    /\ \A X \in Outboxes(p) : \A i, j \in X :
         i.id < j.id => (i.entity = j.entity <=> <<i.id, j.id>> \in behind)

\* ... who is behind has the other before it, unless that one was applied or is in
\* conflict, ...
DependentsFollow(p) ==
    \A X \in Outboxes(p) : \A b \in behind : \A j \in X :
        j.id = b[2] /\ fate[b[1]] \in {"open", "rejected_invalid"} => \E i \in X : i.id = b[1]

\* ... and is not sent before.
DependentsWait(p) ==
    \A b \in behind : b[2] \in Sent(p) => fate[b[1]] \in {"applied", "rejected_conflict"}

\* What was made before a mutation that was sent is settled, in every copy.
SentInOrder(p) ==
    \A X \in Outboxes(p) : \A j \in Sent(p) : \A i \in X : i.id < j => Settled(i.id)

\* What a copy has and a later one lacks is settled, or newer than all the later one
\* has; what a later one has and the user flow's copy lacks is settled.
Ahead(X, Y) == \A i \in X \ Y, j \in Y : i.id < j.id => Settled(i.id)

CopiesAgree(p) ==
    LET Q == queue.outbox
        U == uiCopy[p].outbox
        S == syncCopy[p].outbox
    IN  /\ Ahead(U, Q) /\ Ahead(U, S) /\ Ahead(Q, S)
        /\ \A i \in S \ Q : Settled(i.id)
        /\ uiStep[p] = "write" => \A i \in (Q \cup S) \ U : Settled(i.id)
        /\ syncStep[p] # "write" => S = {}

PageInv(p) ==
    /\ IdsInOrder(p)
    /\ TimesInOrder(p)
    /\ BehindIsKnown(p)
    /\ DependentsFollow(p)
    /\ DependentsWait(p)
    /\ SentInOrder(p)
    /\ CopiesAgree(p)

OrderInv == \A p \in Page : open = {p} => PageInv(p)

-------------------------------------------------------------------------------
(* The transitions of the queue                                            *)

LEMMA TaskFields ==
    ASSUME NEW t \in TaskRecord
    PROVE  /\ t.kind \in {"none", "mutate", "keep_local", "keep_server", "discard"}
           /\ t = NoTask <=> t.kind = "none"
           /\ t.kind = "mutate" => t.item \in Item
           /\ t.kind \in {"keep_local", "keep_server", "discard"} => t.id \in MutationId
           /\ t.kind = "keep_local" => t.newId \in MutationId
BY DEF TaskRecord, NoTask

LEMMA EmptyIsQueue == EmptyQueue \in Queue /\ OneOfEach(EmptyQueue) /\ Held(EmptyQueue) = {}
BY DEF EmptyQueue, Queue, OneOfEach, Held

\* applyMutationResponse makes a queue of a queue.
LEMMA ApplyType ==
    ASSUME NEW q \in Queue, NEW r \in Response
    PROVE  ApplyResponse(q, r) \in Queue
<1>1. CASE \A i \in q.outbox : i.id # r.id
  BY <1>1 DEF ApplyResponse
<1>2. CASE \E i \in q.outbox : i.id = r.id
  <2> DEFINE head == CHOOSE i \in q.outbox : i.id = r.id
  <2>1. head \in q.outbox /\ head \in Item
    BY <1>2 DEF Queue
  <2>2. q.outbox \subseteq Item /\ q.conflicts \subseteq Conflict /\ q.drafts \subseteq Draft
          /\ q = [outbox |-> q.outbox, conflicts |-> q.conflicts, drafts |-> q.drafts]
    BY DEF Queue
  <2>3. [item |-> head, snapshot |-> r.snapshot] \in Conflict
    BY <2>1 DEF Conflict, Response
  <2>4. [item |-> head, blockedBy |-> None] \in Draft
    BY <2>1 DEF Draft
  <2>5. \A j \in Dependents(q, head) : [item |-> j, blockedBy |-> head.id] \in Draft
    BY <2>1, <2>2 DEF Draft, Dependents, Item
  <2> HIDE DEF head
  <2>6. CASE r.result \in {"applied", "duplicate"}
    BY <1>2, <2>6 DEF ApplyResponse, Queue
  <2>7. CASE r.result = "rejected_conflict"
    <3>1. ApplyResponse(q, r) = [q EXCEPT !.outbox = q.outbox \ {head},
                                         !.conflicts = @ \cup {[item |-> head, snapshot |-> r.snapshot]}]
      BY <1>2, <2>7 DEF ApplyResponse, head
    <3> QED
      BY <2>3, <3>1 DEF Queue
  <2>8. CASE r.result = "rejected_invalid"
    <3> DEFINE more == {[item |-> head, blockedBy |-> None]}
                         \cup {[item |-> j, blockedBy |-> head.id] : j \in Dependents(q, head)}
    <3>1. more \subseteq Draft
      BY <2>4, <2>5
    <3>2. ApplyResponse(q, r) = [q EXCEPT !.outbox = (q.outbox \ {head}) \ Dependents(q, head),
                                         !.drafts = q.drafts \cup more]
      BY <1>2, <2>2, <2>8 DEF ApplyResponse, head
    <3> HIDE DEF more
    <3> QED
      BY <3>1, <3>2 DEF Queue
  <2> QED
    BY <2>6, <2>7, <2>8 DEF Response, Result
<1> QED
  BY <1>1, <1>2

\* So does a user flow.
LEMMA UiResultType ==
    ASSUME NEW q \in Queue, NEW t \in TaskRecord, t # NoTask, NEW now \in 1 .. MaxClock
    PROVE  UiResult(q, t, now) \in Queue
<1>1. \A c \in q.conflicts : c.item \in Item
  BY DEF Queue, Conflict
<1>2. CASE t.kind = "mutate"
  BY <1>2, TaskFields DEF UiResult, Queue
<1>3. CASE t.kind = "keep_server"
  BY <1>3 DEF UiResult, Resolved, Queue
<1>4. CASE t.kind = "keep_local"
  <2>1. Resend(q, t, now) \subseteq Item
    BY <1>1, <1>4, TaskFields, ZenonT(60) DEF Resend, Chosen, Item
  <2> QED
    BY <1>4, <2>1 DEF UiResult, Resolved, Queue
<1>5. CASE t.kind = "discard"
  BY <1>5 DEF UiResult, Queue
<1> QED
  BY <1>2, <1>3, <1>4, <1>5, TaskFields

\* What a response makes of a queue that holds its mutation h.
Handled(q, r, h) ==
    IF r.result \in {"applied", "duplicate"}
    THEN [outbox |-> q.outbox \ {h}, conflicts |-> q.conflicts, drafts |-> q.drafts]
    ELSE IF r.result = "rejected_conflict"
    THEN [outbox |-> q.outbox \ {h},
          conflicts |-> q.conflicts \cup {[item |-> h, snapshot |-> r.snapshot]},
          drafts |-> q.drafts]
    ELSE [outbox |-> q.outbox \ ({h} \cup Dependents(q, h)),
          conflicts |-> q.conflicts,
          drafts |-> q.drafts \cup {[item |-> h, blockedBy |-> None]}
                       \cup {[item |-> j, blockedBy |-> h.id] : j \in Dependents(q, h)}]

LEMMA ApplyShape ==
    ASSUME NEW q \in Queue, NEW r \in Response
    PROVE  \/ (\A i \in q.outbox : i.id # r.id) /\ ApplyResponse(q, r) = q
           \/ \E h \in q.outbox : h.id = r.id /\ ApplyResponse(q, r) = Handled(q, r, h)
<1>1. CASE \A i \in q.outbox : i.id # r.id
  BY <1>1, ZenonT(60) DEF ApplyResponse
<1>2. CASE \E i \in q.outbox : i.id = r.id
  <2> DEFINE h == CHOOSE i \in q.outbox : i.id = r.id
  <2>1. h \in q.outbox /\ h.id = r.id
    BY <1>2
  <2>2. q = [outbox |-> q.outbox, conflicts |-> q.conflicts, drafts |-> q.drafts]
    BY DEF Queue
  <2>3. ApplyResponse(q, r) = Handled(q, r, h)
    <3>1. CASE r.result \in {"applied", "duplicate"}
      <4>1. ApplyResponse(q, r) = [q EXCEPT !.outbox = q.outbox \ {h}]
        BY <1>2, <3>1 DEF ApplyResponse
      <4> HIDE DEF h
      <4> QED
        BY <2>2, <3>1, <4>1 DEF Handled
    <3>2. CASE r.result = "rejected_conflict"
      <4> DEFINE c == [item |-> h, snapshot |-> r.snapshot]
      <4>1. ApplyResponse(q, r) = [q EXCEPT !.outbox = q.outbox \ {h}, !.conflicts = @ \cup {c}]
        BY <1>2, <3>2 DEF ApplyResponse
      <4>2. Handled(q, r, h) = [outbox |-> q.outbox \ {h}, conflicts |-> q.conflicts \cup {c},
                                drafts |-> q.drafts]
        BY <3>2 DEF Handled
      <4> HIDE DEF h, c
      <4> QED
        BY <2>2, <4>1, <4>2
    <3>3. CASE r.result = "rejected_invalid"
      <4> DEFINE D == Dependents(q, h)
                 more == {[item |-> j, blockedBy |-> h.id] : j \in D}
      <4>1. (q.outbox \ {h}) \ D = q.outbox \ ({h} \cup D)
        OBVIOUS
      <4>2. ApplyResponse(q, r) = [q EXCEPT !.outbox = (q.outbox \ {h}) \ D,
                                           !.drafts = @ \cup {[item |-> h, blockedBy |-> None]} \cup more]
        BY <1>2, <3>3 DEF ApplyResponse
      <4>3. Handled(q, r, h) = [outbox |-> q.outbox \ ({h} \cup D),
                                conflicts |-> q.conflicts,
                                drafts |-> q.drafts \cup {[item |-> h, blockedBy |-> None]} \cup more]
        BY <3>3 DEF Handled
      <4> HIDE DEF D, more, h
      <4> QED
        BY <2>2, <4>1, <4>2, <4>3
    <3> QED
      BY <3>1, <3>2, <3>3 DEF Response, Result
  <2> QED
    BY <2>1, <2>3
<1> QED
  BY <1>1, <1>2

\* A response neither doubles nor invents a mutation, and loses none but the one that
\* was applied.
LEMMA ApplySound ==
    ASSUME NEW q \in Queue, NEW r \in Response, OneOfEach(q)
    PROVE  /\ OneOfEach(ApplyResponse(q, r))
           /\ Held(ApplyResponse(q, r)) \subseteq Held(q)
           /\ \A i \in Held(q) \ Held(ApplyResponse(q, r)) :
                 i = r.id /\ r.result \in {"applied", "duplicate"}
<1>1. CASE ApplyResponse(q, r) = q
  BY <1>1
<1>2. ASSUME NEW h \in q.outbox, h.id = r.id, ApplyResponse(q, r) = Handled(q, r, h)
      PROVE  /\ OneOfEach(ApplyResponse(q, r))
             /\ Held(ApplyResponse(q, r)) \subseteq Held(q)
             /\ \A i \in Held(q) \ Held(ApplyResponse(q, r)) :
                   i = r.id /\ r.result \in {"applied", "duplicate"}
  <2> DEFINE n == Handled(q, r, h)
  <2>1. CASE r.result \in {"applied", "duplicate"}
    <3>1. n.outbox = q.outbox \ {h} /\ n.conflicts = q.conflicts /\ n.drafts = q.drafts
      BY <2>1 DEF Handled
    <3> HIDE DEF n
    <3> QED
      BY <1>2, <2>1, <3>1 DEF OneOfEach, Held, n
  <2>2. CASE r.result = "rejected_conflict"
    <3> DEFINE c == [item |-> h, snapshot |-> r.snapshot]
    <3>1. n.outbox = q.outbox \ {h} /\ n.conflicts = q.conflicts \cup {c} /\ n.drafts = q.drafts
      BY <2>2 DEF Handled
    <3>2. c.item = h
      OBVIOUS
    <3> HIDE DEF n, c
    <3>3. OneOfEach(n)
      BY <3>1, <3>2 DEF OneOfEach
    <3>4. Held(n) = Held(q)
      BY <3>1, <3>2 DEF Held
    <3> QED
      BY <1>2, <3>3, <3>4 DEF n
  <2>3. CASE r.result = "rejected_invalid"
    <3> DEFINE D == Dependents(q, h)
               d == [item |-> h, blockedBy |-> None]
               more == {[item |-> j, blockedBy |-> h.id] : j \in D}
    <3>1. n.outbox = q.outbox \ ({h} \cup D) /\ n.conflicts = q.conflicts
            /\ n.drafts = q.drafts \cup {d} \cup more
      BY <2>3 DEF Handled
    <3>2. d.item = h /\ D \subseteq q.outbox /\ (\A m \in more : m.item \in D)
            /\ \A j \in D : \E m \in more : m.item = j
      <4>1. D \subseteq q.outbox
        BY DEF Dependents
      <4>2. ASSUME NEW j \in D PROVE \E m \in more : m.item = j
        <5>1. [item |-> j, blockedBy |-> h.id] \in more /\ [item |-> j, blockedBy |-> h.id].item = j
          OBVIOUS
        <5> QED
          BY <5>1
      <4>3. \A m \in more : m.item \in D
        OBVIOUS
      <4>4. d.item = h
        OBVIOUS
      <4> HIDE DEF D, more, d
      <4> QED
        BY <4>1, <4>2, <4>3, <4>4
    <3>3. q.conflicts \subseteq Conflict /\ q.drafts \subseteq Draft
      BY DEF Queue
    <3> HIDE DEF n, d, D, more
    <3>4. OneOfEach(n)
      <4>1. /\ \A i, j \in n.outbox : i.id = j.id => i = j
            /\ \A e, f \in n.conflicts : e.item.id = f.item.id => e = f
            /\ \A i \in n.outbox : \A e \in n.conflicts : i.id # e.item.id
        BY <3>1 DEF OneOfEach
      <4>2. \A e \in n.drafts : e \in q.drafts \/ (e.item \in q.outbox /\ e.item \notin n.outbox)
        BY <3>1, <3>2
      <4>3. \A i \in n.outbox : \A e \in n.drafts : i.id # e.item.id
        BY <3>1, <4>2 DEF OneOfEach
      <4>4. \A c \in n.conflicts, e \in n.drafts : c.item.id # e.item.id
        BY <3>1, <4>2 DEF OneOfEach
      <4> QED
        BY <4>1, <4>3, <4>4 DEF OneOfEach
    <3>5. Held(n) \subseteq Held(q)
      BY <3>1, <3>2 DEF Held
    <3>6. Held(q) \subseteq Held(n)
      <4>1. \A i \in q.outbox : i \in n.outbox \/ \E m \in n.drafts : m.item = i
        BY <3>1, <3>2
      <4> QED
        BY <3>1, <4>1 DEF Held
    <3> QED
      BY <1>2, <3>4, <3>5, <3>6 DEF n
  <2> QED
    BY <2>1, <2>2, <2>3 DEF Response, Result
<1> QED
  BY <1>1, <1>2, ApplyShape

\* What is missing from the outbox afterwards is the mutation itself, or goes with it.
LEMMA ApplyOutbox ==
    ASSUME NEW q \in Queue, NEW r \in Response, OneOfEach(q)
    PROVE  /\ ApplyResponse(q, r).outbox \subseteq q.outbox
           /\ \A i \in q.outbox \ ApplyResponse(q, r).outbox :
                \/ i.id = r.id
                \/ /\ r.result = "rejected_invalid"
                   /\ \E h \in q.outbox : h.id = r.id /\ i # h /\ i.entity = h.entity
           /\ \A h \in q.outbox : h.id = r.id /\ r.result = "rejected_invalid" =>
                \A i \in ApplyResponse(q, r).outbox : i.entity # h.entity
<1>1. CASE (\A i \in q.outbox : i.id # r.id) /\ ApplyResponse(q, r) = q
  BY <1>1
<1>2. ASSUME NEW h \in q.outbox, h.id = r.id, ApplyResponse(q, r) = Handled(q, r, h)
      PROVE  /\ ApplyResponse(q, r).outbox \subseteq q.outbox
             /\ \A i \in q.outbox \ ApplyResponse(q, r).outbox :
                  \/ i.id = r.id
                  \/ /\ r.result = "rejected_invalid"
                     /\ \E g \in q.outbox : g.id = r.id /\ i # g /\ i.entity = g.entity
             /\ \A g \in q.outbox : g.id = r.id /\ r.result = "rejected_invalid" =>
                  \A i \in ApplyResponse(q, r).outbox : i.entity # g.entity
  <2>1. ApplyResponse(q, r).outbox = IF r.result = "rejected_invalid"
                                     THEN q.outbox \ ({h} \cup Dependents(q, h)) ELSE q.outbox \ {h}
    BY <1>2 DEF Handled, Response, Result
  <2>2. \A g \in q.outbox : g.id = r.id => g = h
    BY <1>2 DEF OneOfEach
  <2> QED
    BY <1>2, <2>1, <2>2 DEF Dependents
<1> QED
  BY <1>1, <1>2, ApplyShape

\* What a user flow adds to the outbox.
Added(q, t, now) ==
    IF t.kind = "mutate" THEN {t.item}
    ELSE IF t.kind = "keep_local" THEN Resend(q, t, now) ELSE {}

LEMMA UiShape ==
    ASSUME NEW q \in Queue, NEW t \in TaskRecord, t # NoTask, NEW now
    PROVE  /\ UiResult(q, t, now).outbox = q.outbox \cup Added(q, t, now)
           /\ UiResult(q, t, now).conflicts =
                IF t.kind \in {"keep_local", "keep_server"} THEN q.conflicts \ Chosen(q, t) ELSE q.conflicts
           /\ UiResult(q, t, now).drafts =
                IF t.kind = "discard" THEN {d \in q.drafts : d.item.id # t.id} ELSE q.drafts
<1>1. q = [outbox |-> q.outbox, conflicts |-> q.conflicts, drafts |-> q.drafts]
  BY DEF Queue
<1>2. CASE t.kind = "mutate"
  BY <1>1, <1>2 DEF UiResult, Added
<1>3. CASE t.kind = "keep_server"
  BY <1>1, <1>3 DEF UiResult, Added, Resolved
<1>4. CASE t.kind = "keep_local"
  BY <1>1, <1>4 DEF UiResult, Added, Resolved
<1>5. CASE t.kind = "discard"
  BY <1>1, <1>5 DEF UiResult, Added
<1> QED
  BY <1>2, <1>3, <1>4, <1>5, TaskFields

\* It adds one mutation at most, of the id that it has drawn.
LEMMA AddedOne ==
    ASSUME NEW q \in Queue, NEW t \in TaskRecord, OneOfEach(q), NEW now
    PROVE  /\ \A i \in Added(q, t, now) : i.id \in Drawn(t)
           /\ \A i, j \in Added(q, t, now) : i = j
           /\ t.kind = "keep_local" => \A i \in Added(q, t, now) : i.at = now
<1>1. CASE t.kind = "mutate"
  BY <1>1 DEF Added, Drawn
<1>2. CASE t.kind = "keep_local"
  <2>1. \A c, d \in Chosen(q, t) : c = d
    BY DEF Chosen, OneOfEach
  <2>2. \A c \in Chosen(q, t) : c.item \in [id : MutationId, entity : Entity, at : 1 .. MaxClock]
    BY DEF Chosen, Queue, Conflict, Item
  <2>3. \A c \in Chosen(q, t) : /\ [c.item EXCEPT !.id = t.newId, !.at = now].id = t.newId
                                /\ [c.item EXCEPT !.id = t.newId, !.at = now].at = now
    BY <2>2
  <2>4. Added(q, t, now) = {[c.item EXCEPT !.id = t.newId, !.at = now] : c \in Chosen(q, t)}
    BY <1>2 DEF Added, Resend
  <2>5. Drawn(t) = {t.newId}
    BY <1>2 DEF Drawn
  <2> QED
    BY <1>2, <2>1, <2>3, <2>4, <2>5
<1>3. CASE t.kind \notin {"mutate", "keep_local"}
  BY <1>3 DEF Added
<1> QED
  BY <1>1, <1>2, <1>3

\* A user flow loses nothing but what the user disposes of.
LEMMA UiSound ==
    ASSUME NEW q \in Queue, NEW t \in TaskRecord, t # NoTask, OneOfEach(q), NEW now,
           \A i \in Drawn(t) : i \notin Held(q)
    PROVE  /\ OneOfEach(UiResult(q, t, now))
           /\ Held(UiResult(q, t, now)) \subseteq Held(q) \cup Drawn(t)
           /\ \A i \in Held(q) \ Held(UiResult(q, t, now)) : t.kind # "mutate" /\ t.id = i
<1> DEFINE n == UiResult(q, t, now)
           A == Added(q, t, now)
<1>1. n.outbox = q.outbox \cup A /\ n.conflicts \subseteq q.conflicts /\ n.drafts \subseteq q.drafts
  BY UiShape, ZenonT(60)
<1>2. \A i, j \in A : i = j
  BY AddedOne
<1>3. \A i \in A : i.id \in Drawn(t)
  BY AddedOne
<1>4. \A c \in q.conflicts \ n.conflicts : t.kind # "mutate" /\ c.item.id = t.id
  <2>1. n.conflicts = IF t.kind \in {"keep_local", "keep_server"}
                     THEN q.conflicts \ Chosen(q, t) ELSE q.conflicts
    BY UiShape
  <2> HIDE DEF n
  <2> QED
    BY <2>1 DEF Chosen
<1>5. \A d \in q.drafts \ n.drafts : t.kind # "mutate" /\ d.item.id = t.id
  BY UiShape, ZenonT(60)
<1> HIDE DEF n, A
<1>6. \A i \in A : i.id \notin Held(q)
  BY <1>3
<1>7. OneOfEach(n)
  BY <1>1, <1>2, <1>6 DEF OneOfEach, Held
<1>8. Held(n) \subseteq Held(q) \cup Drawn(t)
  BY <1>1, <1>3 DEF Held
<1>9. \A i \in Held(q) \ Held(n) : t.kind # "mutate" /\ t.id = i
  BY <1>1, <1>4, <1>5 DEF Held
<1> QED
  BY <1>7, <1>8, <1>9 DEF n

-------------------------------------------------------------------------------
(* The server                                                              *)

\* A mutation's fate is decided by a request for it, and then stays.
LEMMA FateStays ==
    ASSUME TypeOK, NEW i \in MutationId, Serve(i)
    PROVE  /\ fate' \in [MutationId -> Server!Fate]
           /\ \A j \in MutationId : fate[j] # "open" => fate'[j] = fate[j]
           /\ \A j \in MutationId \ {i} : fate'[j] = fate[j]
           /\ fate'[i] # "open"
BY DEF TypeOK, Serve, Server!Decide, Server!Repeat, Server!Fate

LEMMA ReplyTells ==
    ASSUME TypeOK, NEW i \in MutationId, Serve(i)
    PROVE  /\ Reply(i) \in Response /\ Reply(i).id = i
           /\ Reply(i).result \in {"applied", "duplicate"} => fate'[i] = "applied"
           /\ Reply(i).result \in {"rejected_conflict", "rejected_invalid"} => fate'[i] = Reply(i).result
<1>1. fate'[i] \in {"applied", "rejected_conflict", "rejected_invalid"} /\ fate[i] \in Server!Fate
        /\ (fate[i] = "applied" => fate'[i] = "applied")
  BY FateStays DEF Server!Fate, TypeOK
<1>2. (IF fate[i] = "applied" THEN "duplicate" ELSE fate'[i]) \in Result
  BY <1>1 DEF Result
<1> QED
  BY <1>1, <1>2 DEF Reply, Response

-------------------------------------------------------------------------------
(* Typing                                                                  *)

LEMMA InitTypeOK == SysInit => TypeOK
<1> SUFFICES ASSUME SysInit PROVE TypeOK
  OBVIOUS
<1>1. queue \in Queue /\ issued \in 0 .. MaxMutations /\ clock \in 1 .. MaxClock
  BY EmptyIsQueue, BoundAssumption DEF SysInit, Init
<1>2. /\ uiStep = [p \in Page |-> "idle"] /\ uiTask = [p \in Page |-> NoTask]
      /\ uiCopy = [p \in Page |-> EmptyQueue] /\ syncStep = [p \in Page |-> "idle"]
      /\ syncId = [p \in Page |-> None] /\ response = [p \in Page |-> None]
      /\ syncCopy = [p \in Page |-> EmptyQueue] /\ wanted = [p \in Page |-> FALSE]
      /\ timer = [p \in Page |-> FALSE] /\ NoTask \in TaskRecord
  BY DEF SysInit, Init, TaskRecord
<1>3. /\ fate \in [MutationId -> Server!Fate] /\ orphans \subseteq MutationId
      /\ losses \in 0 .. MaxLosses /\ reloads \in 0 .. MaxReloads /\ open \subseteq Page
  BY LossAssumption DEF SysInit, Server!Init, Server!Fate
<1> QED
  BY <1>1, <1>2, <1>3, EmptyIsQueue DEF TypeOK

\* What leaves the sync loop as it is, the user flow as it is, and the server as it is.
LEMMA StepTypeOK ==
    TypeOK /\ [SysNext]_vars => TypeOK'
<1> SUFFICES ASSUME TypeOK, [SysNext]_vars PROVE TypeOK'
  OBVIOUS
<1> USE DEF vars, clientVars, serverVars, netVars, history, uiVars, syncVars
<1>1. ASSUME NEW p \in open, UserStarts(p) PROVE TypeOK'
  <2>0. p \in Page
    BY DEF TypeOK
  <2>1. ASSUME NEW t \in TaskRecord, t # NoTask, issued' \in 0 .. MaxMutations,
               clock' \in 1 .. MaxClock, Begin(p, t)
        PROVE  TypeOK'
    BY <1>1, <2>0, <2>1 DEF UserStarts, Begin, TypeOK
  <2>2. ASSUME NEW e \in Entity, NEW t \in 1 .. MaxClock, Mutate(p, e, t) PROVE TypeOK'
    <3> DEFINE k == [kind |-> "mutate", item |-> [id |-> issued + 1, entity |-> e, at |-> t]]
    <3>1. issued' \in 0 .. MaxMutations /\ clock' \in 1 .. MaxClock /\ Begin(p, k)
      BY <2>2, BoundAssumption DEF Mutate, ReadClock, TypeOK
    <3>2. issued + 1 \in MutationId
      BY <2>2, BoundAssumption DEF Mutate, TypeOK, MutationId
    <3>3. k \in TaskRecord /\ k # NoTask
      BY <3>2 DEF TaskRecord, NoTask, Item
    <3> QED
      BY <2>1, <3>1, <3>3
  <2>3. \A c \in queue.conflicts : c.item.id \in MutationId
    BY DEF TypeOK, Queue, Conflict, Item
  <2>4. \A d \in queue.drafts : d.item.id \in MutationId
    BY DEF TypeOK, Queue, Draft, Item
  <2>5. ASSUME NEW c \in queue.conflicts, KeepServer(p, c) PROVE TypeOK'
    <3> DEFINE k == [kind |-> "keep_server", id |-> c.item.id]
    <3>1. k \in TaskRecord /\ k # NoTask
      BY <2>3 DEF TaskRecord, NoTask
    <3> QED
      BY <2>1, <2>5, <3>1 DEF KeepServer, TypeOK
  <2>6. ASSUME NEW c \in queue.conflicts, KeepLocal(p, c) PROVE TypeOK'
    <3> DEFINE k == [kind |-> "keep_local", id |-> c.item.id, newId |-> issued + 1]
    <3>1. issued' \in 0 .. MaxMutations /\ issued + 1 \in MutationId
      BY <2>6, BoundAssumption DEF KeepLocal, TypeOK, MutationId
    <3>2. k \in TaskRecord /\ k # NoTask
      BY <2>3, <3>1 DEF TaskRecord, NoTask
    <3> QED
      BY <2>1, <2>6, <3>1, <3>2 DEF KeepLocal, TypeOK
  <2>7. ASSUME NEW d \in queue.drafts, Discard(p, d) PROVE TypeOK'
    <3> DEFINE k == [kind |-> "discard", id |-> d.item.id]
    <3>1. k \in TaskRecord /\ k # NoTask
      BY <2>4 DEF TaskRecord, NoTask
    <3> QED
      BY <2>1, <2>7, <3>1 DEF Discard, TypeOK
  <2> QED
    BY <1>1, <2>2, <2>5, <2>6, <2>7 DEF UserStarts
<1>2. ASSUME NEW p \in open, UserFlow(p) PROVE TypeOK'
  <2>1. NoTask \in TaskRecord /\ p \in Page
    BY DEF TaskRecord, TypeOK
  <2>2. CASE UiRead(p)
    BY <1>2, <2>1, <2>2, EmptyIsQueue DEF UserFlow, UiRead, UiLeave, TypeOK
  <2>3. CASE UiKick(p)
    BY <1>2, <2>1, <2>3 DEF UserFlow, UiKick, TypeOK
  <2> QED
    BY <1>2, <2>2, <2>3 DEF UserFlow
<1>3. ASSUME NEW p \in open, NEW now \in 1 .. MaxClock, Store(p, now) PROVE TypeOK'
  <2>1. NoTask \in TaskRecord /\ p \in Page /\ uiTask[p] \in TaskRecord /\ uiTask[p] # NoTask
          /\ uiCopy[p] \in Queue
    BY <1>3 DEF TaskRecord, TypeOK, Store, UiWrite
  <2>2. UiResult(uiCopy[p], uiTask[p], now) \in Queue
    BY <2>1, UiResultType
  <2>3. clock' \in 1 .. MaxClock
    BY <1>3 DEF Store, UiWrite, ReadClock, TypeOK
  <2> QED
    BY <1>3, <2>1, <2>2, <2>3, EmptyIsQueue DEF Store, UiWrite, UiLeave, TypeOK
<1>4. ASSUME NEW p \in open, SyncLoop(p) PROVE TypeOK'
  <2>1. p \in Page
    BY DEF TypeOK
  <2>2. CASE StartRun(p)
    BY <1>4, <2>1, <2>2 DEF SyncLoop, StartRun, SyncGoto, TypeOK
  <2>3. CASE ReadHead(p)
    <3>1. \A i \in queue.outbox : i.id \in MutationId
      BY DEF TypeOK, Queue, Item
    <3> QED
      BY <1>4, <2>1, <2>3, <3>1 DEF SyncLoop, ReadHead, SyncGoto, TypeOK
  <2>4. CASE SyncRead(p)
    BY <1>4, <2>1, <2>4 DEF SyncLoop, SyncRead, SyncGoto, TypeOK
  <2>5. CASE SyncWrite(p)
    <3>1. ApplyResponse(syncCopy[p], response[p]) \in Queue
      BY <2>1, <2>5, ApplyType DEF SyncWrite, TypeOK
    <3>2. queue' \in Queue /\ timer' \in [Page -> BOOLEAN]
            /\ \E step \in {"idle", "head"} : SyncLeave(p, step)
      BY <2>1, <2>5, <3>1 DEF SyncWrite, RunFails, TypeOK
    <3>3. UNCHANGED <<issued, clock, uiVars, wanted, fate, open, orphans, losses, reloads>>
      BY <1>4, <2>5 DEF SyncLoop, SyncWrite, RunFails
    <3> QED
      BY <2>1, <3>2, <3>3, EmptyIsQueue DEF SyncLeave, SyncGoto, TypeOK
  <2>6. CASE FeedDone(p)
    BY <1>4, <2>1, <2>6 DEF SyncLoop, FeedDone, SyncGoto, TypeOK
  <2> QED
    BY <1>4, <2>2, <2>3, <2>4, <2>5, <2>6 DEF SyncLoop
<1>5. ASSUME NEW p \in open, RetryTimer(p) \/ Foreground(p) PROVE TypeOK'
  BY <1>5 DEF RetryTimer, TimerFires, Foreground, Wake, TypeOK
<1>6. ASSUME NEW p \in open, Exchange(p) PROVE TypeOK'
  <2>1. p \in Page /\ syncId[p] \in MutationId
    BY <1>6 DEF TypeOK, Exchange
  <2>2. Reply(syncId[p]) \in Response /\ fate' \in [MutationId -> Server!Fate]
    BY <1>6, <2>1, ReplyTells, FateStays DEF Exchange
  <2> QED
    BY <1>6, <2>1, <2>2 DEF Exchange, Answered, SyncGoto, TypeOK
<1>7. ASSUME NEW p \in open, Lose(p) PROVE TypeOK'
  <2>1. p \in Page /\ orphans' \subseteq MutationId
    BY <1>7 DEF TypeOK, Lose, GiveUp
  <2> QED
    BY <1>7, <2>1, EmptyIsQueue, LossAssumption DEF Lose, GiveUp, RunFails, SyncLeave, SyncGoto, TypeOK
<1>8. ASSUME NEW p \in open, CloseAndOpen(p) PROVE TypeOK'
  <2>1. p \in Page /\ orphans' \subseteq MutationId /\ NoTask \in TaskRecord
    BY <1>8 DEF TypeOK, CloseAndOpen, TaskRecord
  <2> QED
    BY <1>8, <2>1, EmptyIsQueue, LossAssumption
       DEF CloseAndOpen, Reload, UiLeave, SyncLeave, SyncGoto, TypeOK
<1>9. ASSUME NEW i \in MutationId, ServeOrphan(i) PROVE TypeOK'
  <2>1. fate' \in [MutationId -> Server!Fate]
    BY <1>9, FateStays DEF ServeOrphan
  <2> QED
    BY <1>9, <2>1 DEF ServeOrphan, TypeOK
<1>10. CASE UNCHANGED vars
  BY <1>10 DEF TypeOK
<1> QED
  BY <1>1, <1>2, <1>3, <1>4, <1>5, <1>6, <1>7, <1>8, <1>9, <1>10 DEF SysNext

-------------------------------------------------------------------------------
(* The queue and its copies                                                *)

LEMMA DrawnFields ==
    /\ Drawn(NoTask) = {}
    /\ \A t \in TaskRecord : Drawn(t) \subseteq MutationId
<1>1. Drawn(NoTask) = {}
  BY DEF Drawn, NoTask
<1>2. ASSUME NEW t \in TaskRecord PROVE Drawn(t) \subseteq MutationId
  BY TaskFields DEF Drawn, Item
<1> QED
  BY <1>1, <1>2

LEMMA HeldType ==
    ASSUME NEW q \in Queue
    PROVE  Held(q) \subseteq MutationId
BY DEF Queue, Held, Item, Conflict, Draft

LEMMA InitInv == SysInit => Inv
<1> SUFFICES ASSUME SysInit PROVE Inv
  OBVIOUS
<1>1. \A q \in Queues : q = EmptyQueue
  BY DEF SysInit, Init, Queues
<1>2. \A p \in Page : Drawn(uiTask[p]) = {} /\ syncStep[p] = "idle"
  BY DrawnFields DEF SysInit, Init
<1>3. QueuesAreSound
  BY <1>1, EmptyIsQueue DEF QueuesAreSound
<1> QED
  BY <1>2, <1>3, InitTypeOK DEF Inv, DrawnOnce, ResponsesAreTrue

\* A step that draws no id, and leaves no queue but sound ones.
LEMMA SoundStep ==
    ASSUME TypeOK, QueuesAreSound, DrawnOnce, issued' = issued,
           \A r \in Page : uiTask'[r] = uiTask[r] \/ uiTask'[r] = NoTask,
           \A q \in Queues' :
              \/ q \in Queues \cup {EmptyQueue}
              \/ /\ OneOfEach(q)
                 /\ \A i \in Held(q) : i <= issued /\ \A r \in Page : i \notin Drawn(uiTask'[r])
    PROVE  QueuesAreSound' /\ DrawnOnce'
<1>1. \A r \in Page : Drawn(uiTask'[r]) \subseteq Drawn(uiTask[r])
  BY DrawnFields
<1>2. DrawnOnce'
  BY <1>1 DEF DrawnOnce
<1>3. ASSUME NEW q \in Queues'
      PROVE  OneOfEach(q) /\ \A i \in Held(q) : i <= issued' /\ \A r \in Page : i \notin Drawn(uiTask'[r])
  <2>1. CASE q \in Queues
    BY <1>1, <2>1 DEF QueuesAreSound
  <2>2. CASE q = EmptyQueue
    BY <2>2, EmptyIsQueue
  <2> QED
    BY <1>3, <2>1, <2>2
<1>4. QueuesAreSound'
  BY <1>3 DEF QueuesAreSound
<1> QED
  BY <1>2, <1>4

\* The queues after a step that writes or copies the queue for one page.
LEMMA QueuesAfter ==
    ASSUME TypeOK, NEW p \in Page, NEW q \in Queue,
           queue' \in {queue, q},
           \/ uiCopy' = uiCopy
           \/ \E c \in {queue, EmptyQueue} : uiCopy' = [uiCopy EXCEPT ![p] = c],
           \/ syncCopy' = syncCopy
           \/ \E c \in {queue, EmptyQueue} : syncCopy' = [syncCopy EXCEPT ![p] = c]
    PROVE  \A k \in Queues' : k \in Queues \cup {EmptyQueue, q}
<1>1. \A r \in Page : uiCopy'[r] \in {uiCopy[r], queue, EmptyQueue}
  BY DEF TypeOK
<1>2. \A r \in Page : syncCopy'[r] \in {syncCopy[r], queue, EmptyQueue}
  BY DEF TypeOK
<1> QED
  BY <1>1, <1>2 DEF Queues

\* A user flow starts with a task; what it creates has the next id, and the time.
Starts(p, t) ==
    /\ Begin(p, t)
    /\ \/ issued' = issued /\ Drawn(t) = {} /\ t.kind # "mutate" /\ clock' = clock
       \/ issued' = issued + 1 /\ Drawn(t) = {issued + 1} /\ t.kind # "mutate" /\ clock' = clock
       \/ /\ issued' = issued + 1 /\ Drawn(t) = {issued + 1}
          /\ t.item.at = clock' /\ ReadClock(clock')

LEMMA UserStartsOne ==
    ASSUME NEW p, UserStarts(p)
    PROVE  \E t : Starts(p, t)
<1>1. ASSUME NEW e, NEW now, Mutate(p, e, now) PROVE \E t : Starts(p, t)
  <2> DEFINE t == [kind |-> "mutate", item |-> [id |-> issued + 1, entity |-> e, at |-> now]]
  <2>1. Drawn(t) = {issued + 1} /\ t.item.at = now
    BY DEF Drawn
  <2>2. Begin(p, t) /\ issued' = issued + 1 /\ ReadClock(now) /\ clock' = now
    BY <1>1 DEF Mutate, ReadClock
  <2> HIDE DEF t
  <2> QED
    BY <2>1, <2>2 DEF Starts
<1>2. ASSUME NEW c, KeepServer(p, c) PROVE \E t : Starts(p, t)
  <2> DEFINE t == [kind |-> "keep_server", id |-> c.item.id]
  <2>1. Drawn(t) = {} /\ t.kind # "mutate"
    BY DEF Drawn
  <2>2. Begin(p, t) /\ issued' = issued /\ clock' = clock
    BY <1>2 DEF KeepServer
  <2> HIDE DEF t
  <2> QED
    BY <2>1, <2>2 DEF Starts
<1>3. ASSUME NEW c, KeepLocal(p, c) PROVE \E t : Starts(p, t)
  <2> DEFINE t == [kind |-> "keep_local", id |-> c.item.id, newId |-> issued + 1]
  <2>1. Drawn(t) = {issued + 1} /\ t.kind # "mutate"
    BY DEF Drawn
  <2>2. Begin(p, t) /\ issued' = issued + 1 /\ clock' = clock
    BY <1>3 DEF KeepLocal
  <2> HIDE DEF t
  <2> QED
    BY <2>1, <2>2 DEF Starts
<1>4. ASSUME NEW d, Discard(p, d) PROVE \E t : Starts(p, t)
  <2> DEFINE t == [kind |-> "discard", id |-> d.item.id]
  <2>1. Drawn(t) = {} /\ t.kind # "mutate"
    BY DEF Drawn
  <2>2. Begin(p, t) /\ issued' = issued /\ clock' = clock
    BY <1>4 DEF Discard
  <2> HIDE DEF t
  <2> QED
    BY <2>1, <2>2 DEF Starts
<1> QED
  BY <1>1, <1>2, <1>3, <1>4 DEF UserStarts

LEMMA StepQueues ==
    TypeOK /\ QueuesAreSound /\ DrawnOnce /\ [SysNext]_vars => QueuesAreSound' /\ DrawnOnce'
<1> SUFFICES ASSUME TypeOK, QueuesAreSound, DrawnOnce, [SysNext]_vars
             PROVE  QueuesAreSound' /\ DrawnOnce'
  OBVIOUS
<1>0. queue \in Queue /\ queue \in Queues /\ \A p \in Page : uiCopy[p] \in Queues /\ syncCopy[p] \in Queues
  BY DEF TypeOK, Queues
<1>1. ASSUME NEW p \in open, UserStarts(p) PROVE QueuesAreSound' /\ DrawnOnce'
  <2>1. p \in Page /\ UNCHANGED <<queue, uiCopy, syncCopy>> /\ Queues' = Queues
    BY <1>1 DEF TypeOK, UserStarts, Mutate, KeepServer, KeepLocal, Discard, Begin, syncVars, Queues
  <2>2. PICK t : Starts(p, t)
    BY <1>1, UserStartsOne
  <2>3. \A r \in Page : uiTask'[r] = IF r = p THEN t ELSE uiTask[r]
    BY <2>1, <2>2 DEF Starts, Begin, TypeOK
  <2>4. \A r \in Page : Drawn(uiTask[r]) \subseteq Nat
    BY DrawnFields DEF TypeOK, MutationId
  <2>5. \A q \in Queues : Held(q) \subseteq Nat
    BY HeldType DEF Queues, TypeOK, MutationId
  <2>6. issued \in Nat
    BY DEF TypeOK
  <2>7. CASE issued' = issued /\ Drawn(t) = {}
    BY <2>1, <2>3, <2>7 DEF QueuesAreSound, DrawnOnce
  <2>8. CASE issued' = issued + 1 /\ Drawn(t) = {issued + 1}
    <3>1. DrawnOnce'
      <4> SUFFICES ASSUME NEW r \in Page, NEW i \in Drawn(uiTask'[r])
                   PROVE  i <= issued' /\ \A s \in Page \ {r} : i \notin Drawn(uiTask'[s])
        BY DEF DrawnOnce
      <4>1. \A s \in Page : \A j \in Drawn(uiTask[s]) : j \in Nat /\ j <= issued
        BY <2>4 DEF DrawnOnce
      <4>2. CASE r = p
        BY <2>3, <2>6, <2>8, <4>1, <4>2
      <4>3. CASE r # p
        BY <2>3, <2>6, <2>8, <4>1, <4>3 DEF DrawnOnce
      <4> QED
        BY <4>2, <4>3
    <3>2. QueuesAreSound'
      BY <2>1, <2>3, <2>5, <2>6, <2>8 DEF QueuesAreSound
    <3> QED
      BY <3>1, <3>2
  <2> QED
    BY <2>2, <2>7, <2>8 DEF Starts
<1>2. ASSUME NEW p \in open, NEW now \in 1 .. MaxClock, Store(p, now)
      PROVE  QueuesAreSound' /\ DrawnOnce'
  <2> DEFINE t == uiTask[p]
             n == UiResult(uiCopy[p], t, now)
  <2>1. p \in Page /\ t \in TaskRecord /\ t # NoTask /\ uiCopy[p] \in Queue
    BY <1>2 DEF TypeOK, Store, UiWrite
  <2>2. OneOfEach(uiCopy[p]) /\ \A i \in Held(uiCopy[p]) :
                                   i <= issued /\ \A r \in Page : i \notin Drawn(uiTask[r])
    BY <1>0, <2>1 DEF QueuesAreSound
  <2>3. OneOfEach(n) /\ Held(n) \subseteq Held(uiCopy[p]) \cup Drawn(t) /\ n \in Queue
    BY <2>1, <2>2, UiSound, UiResultType
  <2>4. /\ queue' = n /\ uiCopy' = [uiCopy EXCEPT ![p] = EmptyQueue]
        /\ UNCHANGED <<issued, syncCopy>> /\ uiTask' = [uiTask EXCEPT ![p] = NoTask]
    BY <1>2 DEF Store, UiWrite, UiLeave, syncVars
  <2>5. \A r \in Page : uiTask'[r] = IF r = p THEN NoTask ELSE uiTask[r]
    BY <2>4 DEF TypeOK
  <2> HIDE DEF n
  <2>6. \A q \in Queues' : q \in Queues \cup {EmptyQueue, n}
    BY <2>1, <2>3, <2>4, QueuesAfter
  <2>7. \A i \in Held(n) : i <= issued /\ \A r \in Page : i \notin Drawn(uiTask'[r])
    BY <2>1, <2>2, <2>3, <2>5, DrawnFields DEF DrawnOnce
  <2> QED
    BY <2>3, <2>4, <2>5, <2>6, <2>7, SoundStep
<1>3. ASSUME NEW p \in open, SyncWrite(p) PROVE QueuesAreSound' /\ DrawnOnce'
  <2> DEFINE n == ApplyResponse(syncCopy[p], response[p])
  <2>1. p \in Page /\ syncCopy[p] \in Queue /\ response[p] \in Response
    BY <1>3 DEF TypeOK, SyncWrite
  <2>2. OneOfEach(syncCopy[p]) /\ \A i \in Held(syncCopy[p]) :
                                     i <= issued /\ \A r \in Page : i \notin Drawn(uiTask[r])
    BY <1>0, <2>1 DEF QueuesAreSound
  <2>3. OneOfEach(n) /\ Held(n) \subseteq Held(syncCopy[p]) /\ n \in Queue
    BY <2>1, <2>2, ApplySound, ApplyType
  <2>4. /\ queue' \in {queue, n} /\ syncCopy' = [syncCopy EXCEPT ![p] = EmptyQueue]
        /\ UNCHANGED <<issued, uiCopy, uiTask>>
    BY <1>3 DEF SyncWrite, RunFails, SyncLeave, uiVars
  <2> HIDE DEF n
  <2>5. \A q \in Queues' : q \in Queues \cup {EmptyQueue, n}
    BY <2>1, <2>3, <2>4, QueuesAfter
  <2> QED
    BY <2>2, <2>3, <2>4, <2>5, SoundStep
<1>4. ASSUME NEW p \in Page, UNCHANGED <<queue, issued>>,
             uiTask' = uiTask \/ uiTask' = [uiTask EXCEPT ![p] = NoTask],
             \/ uiCopy' = uiCopy
             \/ \E c \in {queue, EmptyQueue} : uiCopy' = [uiCopy EXCEPT ![p] = c],
             \/ syncCopy' = syncCopy
             \/ \E c \in {queue, EmptyQueue} : syncCopy' = [syncCopy EXCEPT ![p] = c]
      PROVE  QueuesAreSound' /\ DrawnOnce'
  <2>1. \A q \in Queues' : q \in Queues \cup {EmptyQueue}
    BY <1>0, <1>4, QueuesAfter
  <2>2. \A r \in Page : uiTask'[r] = uiTask[r] \/ uiTask'[r] = NoTask
    BY <1>4 DEF TypeOK
  <2> QED
    BY <1>4, <2>1, <2>2, SoundStep
<1>5. open \subseteq Page
  BY DEF TypeOK
<1>6. ASSUME NEW p \in open, UserFlow(p) PROVE QueuesAreSound' /\ DrawnOnce'
  BY <1>4, <1>5, <1>6 DEF UserFlow, UiRead, UiKick, UiLeave, syncVars
<1>7. ASSUME NEW p \in open, StartRun(p) \/ ReadHead(p) \/ SyncRead(p) \/ FeedDone(p)
      PROVE  QueuesAreSound' /\ DrawnOnce'
  BY <1>4, <1>5, <1>7 DEF StartRun, ReadHead, SyncRead, FeedDone, uiVars
<1>8. ASSUME NEW p \in open,
             RetryTimer(p) \/ Foreground(p) \/ Exchange(p) \/ Lose(p) \/ CloseAndOpen(p)
      PROVE  QueuesAreSound' /\ DrawnOnce'
  BY <1>4, <1>5, <1>8 DEF RetryTimer, TimerFires, Foreground, Wake, Exchange, Answered, Lose, GiveUp,
       RunFails, CloseAndOpen, Reload, UiLeave, SyncLeave, uiVars, syncVars
<1>9. CASE UNCHANGED clientVars
  BY <1>9 DEF clientVars, uiVars, syncVars, QueuesAreSound, DrawnOnce, Queues
<1> QED
  BY <1>1, <1>2, <1>3, <1>6, <1>7, <1>8, <1>9 DEF SysNext, SyncLoop, ServeOrphan, vars

LEMMA StepResponses ==
    TypeOK /\ ResponsesAreTrue /\ [SysNext]_vars => ResponsesAreTrue'
<1> SUFFICES ASSUME TypeOK, ResponsesAreTrue, [SysNext]_vars PROVE ResponsesAreTrue'
  OBVIOUS
<1>1. \A p \in Page : syncStep[p] \in {"read", "write"} => response[p].id \in MutationId
  BY DEF TypeOK, Response
<1>2. ASSUME \A i \in MutationId : fate[i] # "open" => fate'[i] = fate[i],
             \A p \in Page : syncStep'[p] \in {"read", "write"} =>
                               syncStep[p] \in {"read", "write"} /\ response'[p] = response[p]
      PROVE  ResponsesAreTrue'
  BY <1>1, <1>2 DEF ResponsesAreTrue
<1>3. ASSUME NEW p \in open, UNCHANGED fate,
             \/ UNCHANGED <<syncStep, response>>
             \/ UNCHANGED response /\ \E s \in {"head", "sent", "feed", "idle"} : SyncGoto(p, s)
             \/ UNCHANGED response /\ SyncGoto(p, "write") /\ syncStep[p] = "read"
             \/ \E s \in {"head", "idle"} : SyncLeave(p, s)
      PROVE  ResponsesAreTrue'
  <2>1. \A r \in Page : syncStep'[r] \in {"read", "write"} =>
                          syncStep[r] \in {"read", "write"} /\ response'[r] = response[r]
    BY <1>3 DEF SyncGoto, SyncLeave, TypeOK
  <2> QED
    BY <1>2, <1>3, <2>1
<1>4. ASSUME NEW p \in open, UserStarts(p) \/ UserFlow(p) \/ RetryTimer(p) \/ Foreground(p)
      PROVE  ResponsesAreTrue'
  BY <1>3, <1>4 DEF UserStarts, Mutate, KeepServer, KeepLocal, Discard, Begin, UserFlow, UiRead, UiKick,
       RetryTimer, TimerFires, Foreground, Wake, syncVars, serverVars
<1>5. ASSUME NEW p \in open, NEW now \in 1 .. MaxClock, Store(p, now) PROVE ResponsesAreTrue'
  BY <1>3, <1>5 DEF Store, UiWrite, syncVars, serverVars
<1>6. ASSUME NEW p \in open, SyncLoop(p) PROVE ResponsesAreTrue'
  BY <1>3, <1>6 DEF SyncLoop, StartRun, ReadHead, SyncRead, SyncWrite, RunFails, FeedDone, serverVars
<1>7. ASSUME NEW p \in open, Lose(p) \/ CloseAndOpen(p) PROVE ResponsesAreTrue'
  BY <1>3, <1>7 DEF Lose, GiveUp, RunFails, CloseAndOpen, Reload, serverVars
<1>8. ASSUME NEW p \in open, Exchange(p) PROVE ResponsesAreTrue'
  <2>1. p \in Page /\ syncId[p] \in MutationId
    BY <1>8 DEF TypeOK, Exchange
  <2>2. \A r \in Page : /\ response'[r] = IF r = p THEN Reply(syncId[p]) ELSE response[r]
                        /\ syncStep'[r] = IF r = p THEN "read" ELSE syncStep[r]
    BY <1>8 DEF Exchange, Answered, SyncGoto, TypeOK
  <2>3. \A i \in MutationId : fate[i] # "open" => fate'[i] = fate[i]
    BY <1>8, <2>1, FateStays DEF Exchange
  <2>4. LET r == Reply(syncId[p]) IN
        /\ r.result \in {"applied", "duplicate"} => fate'[r.id] = "applied"
        /\ r.result \in {"rejected_conflict", "rejected_invalid"} => fate'[r.id] = r.result
    BY <1>8, <2>1, ReplyTells DEF Exchange
  <2> QED
    BY <1>1, <2>2, <2>3, <2>4 DEF ResponsesAreTrue
<1>9. ASSUME NEW i \in MutationId, ServeOrphan(i) PROVE ResponsesAreTrue'
  <2>1. \A j \in MutationId : fate[j] # "open" => fate'[j] = fate[j]
    BY <1>9, FateStays DEF ServeOrphan
  <2> QED
    BY <1>2, <1>9, <2>1 DEF ServeOrphan, clientVars, syncVars
<1>10. CASE UNCHANGED vars
  BY <1>2, <1>10 DEF vars, clientVars, syncVars, serverVars
<1> QED
  BY <1>4, <1>5, <1>6, <1>7, <1>8, <1>9, <1>10 DEF SysNext

LEMMA StepInv == Inv /\ [SysNext]_vars => Inv'
BY StepTypeOK, StepQueues, StepResponses DEF Inv

LEMMA InvHolds == SysSpec => []Inv
BY InitInv, StepInv, PTL DEF SysSpec

\* Every variable of the device, of the network and of the server keeps its shape,
\* through every interleaving of pages, lost requests and reloads.
THEOREM TypeCorrect == SysSpec => []TypeOK
<1>1. Inv => TypeOK
  BY DEF Inv
<1> QED
  BY InvHolds, <1>1, PTL

\* However many pages write back stale copies of the stores, and however often a
\* request is repeated, no mutation is both waiting and in conflict or a draft.
THEOREM OnePlace == SysSpec => []OnePlaceEach
<1>1. Inv => OnePlaceEach
  <2>1. ASSUME Inv PROVE OneOfEach(queue)
    BY <2>1 DEF Inv, QueuesAreSound, Queues
  <2> QED
    BY <2>1 DEF OneOfEach, OnePlaceEach
<1> QED
  BY InvHolds, <1>1, PTL

\* What a step may take from the queue.
Excused == \A i \in Held(queue) \ Held(queue') : fate[i] = "applied" \/ DismissedNow(i) \/ StaleWrite

\* A user flow whose copy is the queue loses what the user disposes of, a sync loop
\* whose copy is the queue loses what was applied, and nothing else writes.
LEMMA StepExcused == Inv /\ [SysNext]_vars => Excused
<1> SUFFICES ASSUME Inv, [SysNext]_vars, queue' # queue PROVE Excused
  BY DEF Excused
<1>0. TypeOK /\ open \subseteq Page
  BY DEF Inv, TypeOK
<1>1. ASSUME NEW p \in open, NEW now \in 1 .. MaxClock, Store(p, now) PROVE Excused
  <2>1. p \in Page /\ uiTask[p] \in TaskRecord /\ uiTask[p] # NoTask /\ uiCopy[p] \in Queue
    BY <1>0, <1>1 DEF TypeOK, Store, UiWrite
  <2>2. uiStep[p] = "write" /\ uiStep'[p] # "write" /\ queue' = UiResult(uiCopy[p], uiTask[p], now)
    BY <1>0, <1>1, <2>1 DEF TypeOK, Store, UiWrite, UiLeave
  <2>3. CASE uiCopy[p] # queue
    BY <2>1, <2>2, <2>3 DEF Excused, StaleWrite
  <2>4. CASE uiCopy[p] = queue
    <3>1. OneOfEach(uiCopy[p]) /\ \A i \in Drawn(uiTask[p]) : i \notin Held(uiCopy[p])
      BY <2>1 DEF Inv, QueuesAreSound, Queues
    <3>2. \A i \in Held(queue) \ Held(queue') : uiTask[p].kind # "mutate" /\ uiTask[p].id = i
      BY <2>1, <2>2, <2>4, <3>1, UiSound
    <3> QED
      BY <2>1, <2>2, <3>2 DEF Excused, DismissedNow
  <2> QED
    BY <2>3, <2>4
<1>2. ASSUME NEW p \in open, SyncWrite(p) PROVE Excused
  <2>1. p \in Page /\ syncCopy[p] \in Queue /\ response[p] \in Response
          /\ syncStep[p] = "write" /\ syncStep'[p] # "write"
    BY <1>0, <1>2 DEF TypeOK, SyncWrite, RunFails, SyncLeave, SyncGoto
  <2>2. queue' = ApplyResponse(syncCopy[p], response[p])
    BY <1>2 DEF SyncWrite, RunFails
  <2>3. CASE syncCopy[p] # queue
    BY <2>1, <2>3 DEF Excused, StaleWrite
  <2>4. CASE syncCopy[p] = queue
    <3>1. OneOfEach(syncCopy[p])
      BY <2>1 DEF Inv, QueuesAreSound, Queues
    <3>2. \A i \in Held(queue) \ Held(queue') :
             i = response[p].id /\ response[p].result \in {"applied", "duplicate"}
      BY <2>1, <2>2, <2>4, <3>1, ApplySound
    <3>3. response[p].result \in {"applied", "duplicate"} => fate[response[p].id] = "applied"
      BY <1>2, <2>1 DEF Inv, ResponsesAreTrue
    <3> QED
      BY <3>2, <3>3 DEF Excused
  <2> QED
    BY <2>3, <2>4
<1> QED
  BY <1>1, <1>2 DEF SysNext, UserStarts, Mutate, KeepServer, KeepLocal, Discard, Begin, UserFlow, UiRead, UiKick,
       SyncLoop, StartRun, ReadHead, SyncRead, FeedDone, RetryTimer, TimerFires, Foreground, Wake, Exchange,
       Answered, Lose, GiveUp, RunFails, CloseAndOpen, Reload, ServeOrphan, vars, clientVars

\* Over lost responses, repeated requests, refusals, conflicts and reloads a queued
\* mutation leaves the device only when it is applied or the user disposes of it, but
\* for a write from a copy that is not the queue any more.
THEOREM OnlyStaleWritesLoseAny == SysSpec => OnlyStaleWritesLose
<1>1. Inv /\ [SysNext]_vars => [Excused]_vars
  BY StepExcused
<1>2. SysSpec => [][Excused]_vars
  BY InvHolds, <1>1, PTL DEF SysSpec
<1> QED
  BY <1>2 DEF OnlyStaleWritesLose, Excused

-------------------------------------------------------------------------------
(* The order of decisions, with one page open                              *)

FatesStay == \A i \in MutationId : fate[i] # "open" => fate'[i] = fate[i]

LEMMA PageFacts ==
    ASSUME Inv, NEW p \in Page
    PROVE  /\ issued \in Nat /\ clock \in Nat
           /\ \A X \in Outboxes(p) : \A i \in X :
                /\ i \in Item /\ i.id \in MutationId /\ i.id \in Nat /\ i.at \in Nat
                /\ i.id <= issued /\ i.id \notin Drawn(uiTask[p])
                /\ \A j \in X : i.id = j.id => i = j
<1>1. issued \in Nat /\ clock \in Nat
  BY DEF Inv, TypeOK
<1>2. ASSUME NEW q \in {queue, uiCopy[p], syncCopy[p]}, NEW i \in q.outbox
      PROVE  /\ i \in Item /\ i.id \in Held(q)
             /\ i.id <= issued /\ i.id \notin Drawn(uiTask[p])
             /\ \A j \in q.outbox : i.id = j.id => i = j
  <2>1. q \in Queues /\ q \in Queue
    BY DEF Inv, TypeOK, Queues
  <2>2. i \in Item /\ i.id \in Held(q)
    BY <1>2, <2>1 DEF Queue, Held
  <2> QED
    BY <1>2, <2>1, <2>2 DEF Inv, QueuesAreSound, OneOfEach
<1>3. \A i \in Item : i.id \in MutationId /\ i.id \in Nat /\ i.at \in Nat
  BY DEF Item, MutationId
<1> QED
  BY <1>1, <1>2, <1>3 DEF Outboxes

\* What is settled stays settled.
LEMMA SettledStays ==
    ASSUME NEW p \in Page, BehindIsKnown(p), FatesStay, behind \subseteq behind',
           NEW i \in MutationId, Settled(i)
    PROVE  Settled(i)'
BY DEF Settled, FatesStay, BehindIsKnown

\* A step that stores and sends nothing, whatever it forgets and the server decides.
LEMMA QuietStep ==
    ASSUME Inv, TypeOK', NEW p \in Page, PageInv(p), FatesStay,
           UNCHANGED <<queue, issued, clock, behind>>, Sent(p)' \subseteq Sent(p),
           uiTask'[p] \in {uiTask[p], NoTask},
           uiCopy'[p] \in {uiCopy[p], EmptyQueue}, syncCopy'[p] \in {syncCopy[p], EmptyQueue},
           uiStep'[p] = "write" => uiStep[p] = "write" /\ uiCopy'[p] = uiCopy[p],
           syncStep'[p] # "write" => syncCopy'[p] = EmptyQueue \/ syncStep[p] # "write"
    PROVE  PageInv(p)'
<1>1. Drawn(uiTask'[p]) \subseteq Drawn(uiTask[p]) /\ (uiTask'[p].kind = "mutate" => uiTask'[p] = uiTask[p])
  BY DrawnFields DEF NoTask
<1>2. EmptyQueue.outbox = {}
  BY DEF EmptyQueue
<1>3. \A X \in Outboxes(p)' : X \in Outboxes(p) \/ X = {}
  BY <1>2 DEF Outboxes
<1>4. \A X \in Outboxes(p) : \A i \in X : Settled(i.id) => Settled(i.id)'
  BY PageFacts, SettledStays DEF PageInv
<1>5. IdsInOrder(p)'
  BY <1>1 DEF PageInv, IdsInOrder
<1>6. TimesInOrder(p)'
  BY <1>1, <1>3 DEF PageInv, TimesInOrder
<1>7. BehindIsKnown(p)'
  BY <1>1, <1>3 DEF PageInv, BehindIsKnown
<1>8. \A b \in behind : /\ fate'[b[1]] \in {"open", "rejected_invalid"} => fate[b[1]] \in {"open", "rejected_invalid"}
                        /\ fate[b[1]] \in {"applied", "rejected_conflict"} => fate'[b[1]] = fate[b[1]]
  BY DEF Inv, TypeOK, FatesStay, PageInv, BehindIsKnown, Server!Fate
<1>9. DependentsFollow(p)'
  BY <1>3, <1>8 DEF PageInv, DependentsFollow
<1>10. DependentsWait(p)'
  BY <1>8 DEF PageInv, DependentsWait
<1>11. SentInOrder(p)'
  BY <1>3, <1>4 DEF PageInv, SentInOrder
<1>12. CopiesAgree(p)'
  <2> DEFINE Q == queue.outbox
             U == uiCopy[p].outbox
             S == syncCopy[p].outbox
             V == uiCopy'[p].outbox
             T == syncCopy'[p].outbox
  <2>1. (V = U \/ V = {}) /\ (T = S \/ T = {})
    BY <1>2
  <2>2. \A i \in Q \cup U \cup S : Settled(i.id) => Settled(i.id)'
    BY <1>4 DEF Outboxes
  <2>3. Ahead(U, Q) /\ Ahead(U, S) /\ Ahead(Q, S) /\ \A i \in S \ Q : Settled(i.id)
    BY DEF PageInv, CopiesAgree
  <2>4. uiStep[p] = "write" => \A i \in (Q \cup S) \ U : Settled(i.id)
    BY DEF PageInv, CopiesAgree
  <2>5. (uiStep'[p] = "write" => uiStep[p] = "write" /\ V = U) /\ (syncStep'[p] # "write" => T = {})
    BY <1>2 DEF PageInv, CopiesAgree
  <2>6. queue'.outbox = Q
    OBVIOUS
  <2> HIDE DEF Q, U, S, V, T
  <2>7. \A i \in V \ Q, j \in Q : i.id < j.id => Settled(i.id)'
    BY <2>1, <2>2, <2>3 DEF Ahead
  <2>8. \A i \in V \ T, j \in T : i.id < j.id => Settled(i.id)'
    BY <2>1, <2>2, <2>3 DEF Ahead
  <2>9. \A i \in Q \ T, j \in T : i.id < j.id => Settled(i.id)'
    BY <2>1, <2>2, <2>3 DEF Ahead
  <2>10. \A i \in T \ Q : Settled(i.id)'
    BY <2>1, <2>2, <2>3
  <2>11. uiStep'[p] = "write" => \A i \in (Q \cup T) \ V : Settled(i.id)'
    BY <2>1, <2>2, <2>4, <2>5
  <2> QED
    BY <2>5, <2>6, <2>7, <2>8, <2>9, <2>10, <2>11 DEF CopiesAgree, Ahead, V, T
<1> QED
  BY <1>5, <1>6, <1>7, <1>9, <1>10, <1>11, <1>12 DEF PageInv

LEMMA SentType ==
    ASSUME TypeOK, NEW p \in Page
    PROVE  Sent(p) \subseteq MutationId
<1>1. syncStep[p] = "sent" => syncId[p] \in MutationId
  BY DEF TypeOK
<1>2. orphans \subseteq MutationId
  BY DEF TypeOK
<1> QED
  BY <1>1, <1>2 DEF Sent

\* A user flow that starts has at most drawn the next id.
LEMMA StartsInOrder ==
    ASSUME Inv, TypeOK', ~ClockStepsBack, NEW p \in Page, PageInv(p), UserStarts(p)
    PROVE  PageInv(p)'
<1>1. PICK t : Starts(p, t)
  BY UserStartsOne
<1>2. UNCHANGED <<queue, uiCopy, syncCopy, syncStep, syncId, fate, orphans, behind>>
  BY <1>1 DEF UserStarts, Starts, Begin, syncVars, serverVars, netVars, history
<1>3. uiTask'[p] = t /\ uiStep'[p] # "write"
  BY <1>1 DEF Starts, Begin, Inv, TypeOK
<1>4. issued \in Nat /\ clock \in Nat /\ clock <= clock'
  BY <1>1, PageFacts DEF Starts, ReadClock
<1>5. Outboxes(p)' = Outboxes(p) /\ Sent(p)' = Sent(p)
  BY <1>2 DEF Outboxes, Sent
<1>6. Sent(p) \subseteq Nat /\ \A j \in Sent(p) : j <= issued
  BY SentType DEF Inv, PageInv, IdsInOrder, MutationId
<1>7. IdsInOrder(p)'
  <2>1. CASE issued' = issued /\ Drawn(t) = {}
    BY <1>3, <1>5, <1>6, <2>1 DEF IdsInOrder
  <2>2. CASE issued' = issued + 1 /\ Drawn(t) = {issued + 1}
    BY <1>3, <1>4, <1>5, <1>6, <2>2 DEF IdsInOrder
  <2> QED
    BY <1>1, <2>1, <2>2 DEF Starts
<1>8. TimesInOrder(p)'
  <2>1. t.kind = "mutate" => t.item.at = clock'
    BY <1>1 DEF Starts
  <2>2. \A X \in Outboxes(p) : \A i \in X : i.at <= clock' /\ \A j \in X : i.id < j.id => i.at <= j.at
    <3>1. clock' \in Nat
      BY DEF TypeOK
    <3> QED
      BY <1>4, <3>1, PageFacts DEF PageInv, TimesInOrder
  <2> QED
    BY <1>3, <1>5, <2>1, <2>2 DEF TimesInOrder
<1>9. BehindIsKnown(p)'
  <2>1. \A b \in behind : /\ b \in MutationId \X MutationId
                          /\ b[1] < b[2] /\ b[2] <= issued /\ b[2] \in Nat
    BY DEF PageInv, BehindIsKnown, MutationId
  <2>2. issued <= issued' /\ \A i \in Drawn(t) : i > issued
    BY <1>1, <1>4 DEF Starts
  <2>3. issued' \in Nat
    BY DEF TypeOK
  <2>4. \A b \in behind : b[2] <= issued' /\ b[2] \notin Drawn(t)
    BY <1>4, <2>1, <2>2, <2>3
  <2> QED
    BY <1>2, <1>3, <1>5, <2>1, <2>4 DEF PageInv, BehindIsKnown
<1>10. DependentsFollow(p)' /\ DependentsWait(p)'
  BY <1>2, <1>5 DEF PageInv, DependentsFollow, DependentsWait
<1>11. SentInOrder(p)'
  BY <1>2, <1>5 DEF PageInv, SentInOrder, Settled
<1>12. CopiesAgree(p)'
  BY <1>2, <1>3 DEF PageInv, CopiesAgree, Ahead, Settled
<1> QED
  BY <1>7, <1>8, <1>9, <1>10, <1>11, <1>12 DEF PageInv

\* A flow that reads the queue.
LEMMA ReadsInOrder ==
    ASSUME Inv, TypeOK', NEW p \in Page, PageInv(p),
           UNCHANGED <<queue, issued, clock, behind, fate, orphans, uiTask, syncId>>,
           Sent(p)' = Sent(p),
           \/ /\ uiCopy'[p] = queue /\ uiStep'[p] = "write"
              /\ UNCHANGED <<syncCopy, syncStep>>
           \/ /\ syncCopy'[p] = queue /\ syncStep'[p] = "write"
              /\ UNCHANGED <<uiCopy, uiStep>>
    PROVE  PageInv(p)'
<1>1. Outboxes(p)' \subseteq Outboxes(p)
  BY DEF Outboxes
<1>2. IdsInOrder(p)' /\ TimesInOrder(p)' /\ BehindIsKnown(p)' /\ DependentsFollow(p)' /\ DependentsWait(p)'
  BY <1>1 DEF PageInv, IdsInOrder, TimesInOrder, BehindIsKnown, DependentsFollow, DependentsWait
<1>3. SentInOrder(p)'
  BY <1>1 DEF PageInv, SentInOrder, Settled
<1>4. CopiesAgree(p)'
  BY DEF PageInv, CopiesAgree, Ahead, Settled
<1> QED
  BY <1>2, <1>3, <1>4 DEF PageInv

\* The head that is sent is the oldest of the outbox, and whatever a copy has before
\* it is settled.
LEMMA HeadInOrder ==
    ASSUME Inv, TypeOK', NEW p \in Page, PageInv(p), syncStep[p] = "head", syncStep'[p] = "sent",
           NEW h \in queue.outbox, IsHead(queue, h), syncId'[p] = h.id,
           UNCHANGED <<queue, issued, clock, behind, fate, orphans, uiVars, syncCopy>>
    PROVE  PageInv(p)'
<1>1. Outboxes(p)' = Outboxes(p) /\ Sent(p)' = Sent(p) \cup {h.id}
  BY DEF Outboxes, uiVars, Sent
<1>2. queue.outbox \in Outboxes(p) /\ uiCopy[p].outbox \in Outboxes(p)
  BY DEF Outboxes
<1>3. \A i \in queue.outbox : ~(i.id < h.id)
  BY <1>2, PageFacts DEF IsHead, Before, PageInv, TimesInOrder
<1>4. h.id <= issued /\ h.id \notin Drawn(uiTask[p])
  BY <1>2, PageFacts
<1>5. IdsInOrder(p)'
  BY <1>1, <1>4 DEF PageInv, IdsInOrder, uiVars
<1>6. TimesInOrder(p)' /\ BehindIsKnown(p)' /\ DependentsFollow(p)'
  BY <1>1 DEF PageInv, TimesInOrder, BehindIsKnown, DependentsFollow, uiVars
<1>7. DependentsWait(p)'
  <2>1. ASSUME NEW b \in behind, b[2] = h.id PROVE fate[b[1]] \in {"applied", "rejected_conflict"}
    <3>1. b[1] \in MutationId /\ b[1] < b[2]
      BY DEF PageInv, BehindIsKnown
    <3>2. fate[b[1]] \notin {"open", "rejected_invalid"}
      BY <1>2, <1>3, <2>1, <3>1 DEF PageInv, DependentsFollow
    <3> QED
      BY <3>1, <3>2 DEF Inv, TypeOK, Server!Fate
  <2> QED
    BY <1>1, <2>1 DEF PageInv, DependentsWait
<1>8. SentInOrder(p)'
  <2>1. syncCopy[p].outbox = {}
    BY DEF PageInv, CopiesAgree
  <2>2. \A i \in uiCopy[p].outbox : i.id < h.id => Settled(i.id)
    BY <1>3 DEF PageInv, CopiesAgree, Ahead
  <2>3. \A X \in Outboxes(p) : \A i \in X : i.id < h.id => Settled(i.id)
    BY <1>3, <2>1, <2>2 DEF Outboxes
  <2> QED
    BY <1>1, <2>3 DEF PageInv, SentInOrder, Settled
<1>9. CopiesAgree(p)'
  BY DEF PageInv, CopiesAgree, Ahead, Settled, uiVars
<1> QED
  BY <1>5, <1>6, <1>7, <1>8, <1>9 DEF PageInv

\* What a response takes out of the copy that it is applied to is settled, and is not
\* what something of the rest is queued behind.
LEMMA HandledIsSettled ==
    ASSUME Inv, NEW p \in Page, PageInv(p), syncStep[p] = "write",
           ~OutOfOrder(syncCopy[p], response[p]),
           NEW i \in syncCopy[p].outbox \ ApplyResponse(syncCopy[p], response[p]).outbox
    PROVE  /\ Settled(i.id)
           /\ \A j \in ApplyResponse(syncCopy[p], response[p]).outbox :
                <<i.id, j.id>> \in behind => fate[i.id] \in {"applied", "rejected_conflict"}
<1> DEFINE S == syncCopy[p].outbox
           r == response[p]
           R == ApplyResponse(syncCopy[p], r).outbox
<1>1. syncCopy[p] \in Queue /\ r \in Response /\ S \in Outboxes(p) /\ OneOfEach(syncCopy[p])
  BY DEF Inv, TypeOK, Outboxes, QueuesAreSound, Queues
<1>2. /\ R \subseteq S
      /\ \/ i.id = r.id
         \/ /\ r.result = "rejected_invalid"
            /\ \E h \in S : h.id = r.id /\ i # h /\ i.entity = h.entity
      /\ \A h \in S : h.id = r.id /\ r.result = "rejected_invalid" => \A j \in R : j.entity # h.entity
  BY <1>1, ApplyOutbox
<1>3. fate[r.id] # "open" /\ (r.result = "rejected_invalid" <=> fate[r.id] = "rejected_invalid")
        /\ fate[r.id] \in Server!Fate
  BY <1>1 DEF Inv, TypeOK, ResponsesAreTrue, Response, Result
<1>4. \A j \in S : i.id < j.id => (i.entity = j.entity <=> <<i.id, j.id>> \in behind)
  BY <1>1 DEF PageInv, BehindIsKnown
<1>5. \A j \in S : <<i.id, j.id>> \in behind => i.id < j.id
  BY DEF PageInv, BehindIsKnown
<1>6. \A h \in S : h.id = r.id => \A j \in S : h = j \/ h.id < j.id
  <2> SUFFICES ASSUME NEW h \in S, h.id = r.id, NEW j \in S, h # j PROVE h.id < j.id
    OBVIOUS
  <2>1. Before(h, j)
    BY DEF OutOfOrder, IsHead
  <2>2. j.id < h.id => j.at <= h.at
    BY <1>1 DEF PageInv, TimesInOrder
  <2>3. h.id \in Nat /\ j.id \in Nat /\ h.at \in Nat /\ j.at \in Nat /\ h.id # j.id
    BY <1>1, PageFacts
  <2> QED
    BY <2>1, <2>2, <2>3 DEF Before
<1>7. CASE i.id = r.id
  <2>1. Settled(i.id)
    BY <1>3, <1>7 DEF Settled
  <2>2. ASSUME NEW j \in R, <<i.id, j.id>> \in behind PROVE fate[i.id] \in {"applied", "rejected_conflict"}
    <3>1. j \in S /\ i.entity = j.entity
      BY <1>2, <1>4, <1>5, <2>2
    <3>2. r.result # "rejected_invalid"
      BY <1>2, <1>7, <3>1
    <3> QED
      BY <1>3, <1>7, <3>2 DEF Server!Fate
  <2> QED
    BY <2>1, <2>2
<1>8. ASSUME r.result = "rejected_invalid",
             NEW h \in S, h.id = r.id, i # h, i.entity = h.entity
      PROVE  /\ Settled(i.id)
             /\ \A j \in R : <<i.id, j.id>> \in behind => fate[i.id] \in {"applied", "rejected_conflict"}
  <2>1. h.id < i.id
    BY <1>6, <1>8
  <2>2. <<h.id, i.id>> \in behind
    BY <1>1, <1>8, <2>1 DEF PageInv, BehindIsKnown
  <2>3. Settled(i.id)
    BY <1>3, <1>8, <2>2 DEF Settled
  <2>4. \A j \in R : <<i.id, j.id>> \notin behind
    BY <1>2, <1>4, <1>5, <1>8
  <2> QED
    BY <2>3, <2>4
<1> QED
  BY <1>2, <1>7, <1>8

\* A sync loop that writes back what a response makes of its copy.
LEMMA SyncWritesInOrder ==
    ASSUME Inv, TypeOK', NEW p \in Page, PageInv(p), syncStep[p] = "write",
           ~OutOfOrder(syncCopy[p], response[p]),
           queue' = ApplyResponse(syncCopy[p], response[p]),
           syncCopy'[p] = EmptyQueue, syncStep'[p] = "head",
           UNCHANGED <<issued, clock, behind, fate, orphans, uiVars>>
    PROVE  PageInv(p)'
<1> DEFINE Q == queue.outbox
           U == uiCopy[p].outbox
           S == syncCopy[p].outbox
           R == queue'.outbox
<1>1. syncCopy[p] \in Queue /\ response[p] \in Response /\ OneOfEach(syncCopy[p])
  BY DEF Inv, TypeOK, QueuesAreSound, Queues
<1>2. R \subseteq S
  BY <1>1, ApplyOutbox
<1>3. \A i \in S \ R : /\ Settled(i.id)
                       /\ \A j \in R : <<i.id, j.id>> \in behind =>
                                         fate[i.id] \in {"applied", "rejected_conflict"}
  BY HandledIsSettled
<1>4. S \in Outboxes(p) /\ Outboxes(p)' = {R, U, {}}
  BY DEF Outboxes, uiVars, EmptyQueue
<1>5. \A X \in Outboxes(p)' : \E Y \in Outboxes(p) : X \subseteq Y
  BY <1>2, <1>4 DEF Outboxes
<1>6. Sent(p)' = Sent(p)
  BY DEF Sent
<1>7. IdsInOrder(p)'
  BY <1>6 DEF PageInv, IdsInOrder, uiVars
<1>8. TimesInOrder(p)'
  BY <1>5 DEF PageInv, TimesInOrder, uiVars
<1>9. BehindIsKnown(p)'
  BY <1>5 DEF PageInv, BehindIsKnown, uiVars
<1>10. DependentsFollow(p)'
  <2>1. ASSUME NEW b \in behind, NEW j \in R, j.id = b[2], fate[b[1]] \in {"open", "rejected_invalid"}
        PROVE  \E i \in R : i.id = b[1]
    <3>1. PICK i \in S : i.id = b[1]
      BY <1>2, <1>4, <2>1 DEF PageInv, DependentsFollow
    <3>2. b = <<i.id, j.id>>
      BY <2>1, <3>1 DEF PageInv, BehindIsKnown
    <3> QED
      BY <1>3, <2>1, <3>1, <3>2
  <2>2. U \in Outboxes(p)
    BY DEF Outboxes
  <2> HIDE DEF R, U
  <2> QED
    BY <1>4, <2>1, <2>2 DEF PageInv, DependentsFollow
<1>11. DependentsWait(p)'
  BY <1>6 DEF PageInv, DependentsWait
<1>12. SentInOrder(p)'
  BY <1>5, <1>6 DEF PageInv, SentInOrder, Settled
<1>13. CopiesAgree(p)'
  <2>1. Ahead(U, S) /\ (uiStep[p] = "write" => \A i \in S \ U : Settled(i.id))
    BY DEF PageInv, CopiesAgree
  <2>2. uiCopy'[p].outbox = U /\ syncCopy'[p].outbox = {} /\ uiStep' = uiStep
    BY DEF EmptyQueue, uiVars
  <2>3. \A i : Settled(i) = Settled(i)'
    BY DEF Settled
  <2> HIDE DEF R, U, S
  <2>4. \A i \in U \ R, j \in R : i.id < j.id => Settled(i.id)
    BY <1>2, <1>3, <2>1 DEF Ahead
  <2>5. uiStep[p] = "write" => \A i \in R \ U : Settled(i.id)
    BY <1>2, <2>1
  <2> QED
    BY <2>2, <2>3, <2>4, <2>5 DEF CopiesAgree, Ahead, R
<1> QED
  BY <1>7, <1>8, <1>9, <1>10, <1>11, <1>12, <1>13 DEF PageInv

\* A user flow that writes back its copy, with the mutation that it adds: the newest,
\* and behind everything of the same record.
LEMMA StoresInOrder ==
    ASSUME Inv, TypeOK', ~ClockStepsBack, NEW p \in Page, PageInv(p),
           NEW now \in 1 .. MaxClock, Store(p, now)
    PROVE  PageInv(p)'
<1> DEFINE Q == queue.outbox
           U == uiCopy[p].outbox
           S == syncCopy[p].outbox
           D == Drawn(uiTask[p])
           A == Added(uiCopy[p], uiTask[p], now)
           new == {<<i.id, j.id>> : i \in {k \in U : \E a \in A : a.entity = k.entity}, j \in A}
           R == queue'.outbox
<1>1. /\ uiStep[p] = "write" /\ uiCopy[p] \in Queue /\ OneOfEach(uiCopy[p])
      /\ uiTask[p] \in TaskRecord /\ uiTask[p] # NoTask
  BY DEF Inv, TypeOK, QueuesAreSound, Queues, Store, UiWrite
<1>2. R = U \cup A
  BY <1>1, UiShape DEF Store, UiWrite
<1>3. behind' = behind \cup new
  BY DEF Store, Added
<1>4. (\A a \in A : a.id \in D) /\ (\A a, b \in A : a = b)
  BY <1>1, AddedOne
<1>5. /\ uiStep'[p] # "write" /\ uiTask'[p] = NoTask /\ uiCopy'[p] = EmptyQueue
      /\ UNCHANGED <<issued, syncStep, syncId, syncCopy, fate, orphans>>
  BY DEF Store, UiWrite, UiLeave, Inv, TypeOK, syncVars, serverVars, netVars
<1>6. clock <= clock' /\ clock' \in Nat /\ clock \in Nat /\ issued \in Nat
  <2>1. clock \in Nat /\ issued \in Nat
    BY PageFacts
  <2> QED
    BY <2>1 DEF Store, UiWrite, ReadClock, TypeOK
<1>7. \A a \in A : a.at = clock'
  <2>1. CASE uiTask[p].kind = "mutate"
    BY <2>1 DEF Added, PageInv, TimesInOrder, Store, UiWrite
  <2>2. CASE uiTask[p].kind = "keep_local"
    BY <1>1, <2>2, AddedOne DEF Store, UiWrite, ReadClock
  <2>3. CASE uiTask[p].kind \notin {"mutate", "keep_local"}
    BY <2>3 DEF Added
  <2> QED
    BY <2>1, <2>2, <2>3
<1>8. \A d \in D : d = issued /\ d \notin Sent(p)
  BY DEF PageInv, IdsInOrder
<1>9. EmptyQueue.outbox = {} /\ Drawn(NoTask) = {} /\ NoTask.kind # "mutate"
  BY DrawnFields DEF EmptyQueue, NoTask
<1>10. Outboxes(p)' = {R, {}, S} /\ Outboxes(p) = {Q, U, S}
  BY <1>5, <1>9 DEF Outboxes
<1>11. Sent(p)' = Sent(p)
  BY <1>5 DEF Sent
<1>12. \A i \in U \cup S : /\ i.id \in MutationId /\ i.id \in Nat /\ i.at \in Nat
                           /\ i.id <= issued /\ i.id \notin D
  BY <1>10, PageFacts
<1>13. \A i, j \in U : i.id = j.id => i = j
  BY <1>1 DEF OneOfEach
<1>14. D \subseteq MutationId
  BY <1>1, DrawnFields
<1>15. \A i \in U \cup S : \A a \in A : i.id < a.id
  BY <1>4, <1>6, <1>8, <1>12
<1>16. \A i \in MutationId : Settled(i) => Settled(i)'
  BY <1>3, <1>5, SettledStays DEF PageInv, FatesStay
<1>17. IdsInOrder(p)'
  BY <1>5, <1>9, <1>11 DEF PageInv, IdsInOrder
<1>18. TimesInOrder(p)'
  <2>1. \A i \in U \cup S : i.at <= clock'
    BY <1>6, <1>10, <1>12 DEF PageInv, TimesInOrder
  <2>2. \A i, j \in U : i.id < j.id => i.at <= j.at
    BY <1>10 DEF PageInv, TimesInOrder
  <2>3. \A i, j \in S : i.id < j.id => i.at <= j.at
    BY <1>10 DEF PageInv, TimesInOrder
  <2>4. \A a \in A : a.at <= clock' /\ a.id \in Nat
    BY <1>4, <1>6, <1>7, <1>8
  <2> HIDE DEF A, U, S, R, D
  <2>5. \A i, j \in R : i.id < j.id => i.at <= j.at
    BY <1>2, <1>4, <1>6, <1>7, <1>12, <1>15, <2>1, <2>2, <2>4
  <2>6. \A i \in R : i.at <= clock'
    BY <1>2, <2>1, <2>4
  <2> QED
    BY <1>5, <1>9, <1>10, <2>1, <2>3, <2>5, <2>6 DEF TimesInOrder
<1>19. \A b \in behind : b \in MutationId \X MutationId /\ b[1] < b[2] /\ b[2] <= issued /\ b[2] \notin D
  BY DEF PageInv, BehindIsKnown
<1>20. \A b \in new : /\ b \in MutationId \X MutationId /\ b[1] < b[2] /\ b[2] <= issued /\ b[2] \in D
                      /\ \E k \in U, a \in A : k.entity = a.entity /\ k.id = b[1] /\ a.id = b[2]
  <2> SUFFICES ASSUME NEW k \in U, NEW e \in A, e.entity = k.entity, NEW a \in A
               PROVE  LET b == <<k.id, a.id>> IN
                      /\ b \in MutationId \X MutationId /\ b[1] < b[2] /\ b[2] <= issued /\ b[2] \in D
                      /\ \E i \in U, c \in A : i.entity = c.entity /\ i.id = b[1] /\ c.id = b[2]
    OBVIOUS
  <2>1. k.id \in MutationId /\ a.id \in D /\ a.id \in MutationId /\ a.id <= issued /\ k.id < a.id
    BY <1>4, <1>6, <1>8, <1>12, <1>14, <1>15
  <2>2. a = e
    BY <1>4
  <2> QED
    BY <2>1, <2>2
<1>21. BehindIsKnown(p)'
  <2>1. \A X \in {U, S} : \A i, j \in X : i.id < j.id => (i.entity = j.entity <=> <<i.id, j.id>> \in behind)
    BY <1>10 DEF PageInv, BehindIsKnown
  <2>2. \A j \in U \cup S : \A i : <<i, j.id>> \notin new
    <3> SUFFICES ASSUME NEW j \in U \cup S, NEW i, <<i, j.id>> \in new PROVE FALSE
      OBVIOUS
    <3>1. j.id \in D
      <4> HIDE DEF new, D
      <4> QED
        BY <1>20
    <3> QED
      BY <1>12, <3>1
  <2>3. ASSUME NEW i \in U, NEW a \in A PROVE i.entity = a.entity <=> <<i.id, a.id>> \in behind \cup new
    <3>1. i.entity = a.entity => <<i.id, a.id>> \in new
      OBVIOUS
    <3>2. <<i.id, a.id>> \notin behind
      BY <1>4, <1>19
    <3>3. <<i.id, a.id>> \in new => i.entity = a.entity
      BY <1>4, <1>13, <1>20
    <3> QED
      BY <3>1, <3>2, <3>3
  <2>4. \A a \in A : \A i \in R : ~(a.id < i.id)
    BY <1>2, <1>4, <1>6, <1>8, <1>12
  <2> HIDE DEF A, U, S, R, D, new
  <2>5. \A i, j \in R : i.id < j.id => (i.entity = j.entity <=> <<i.id, j.id>> \in behind \cup new)
    BY <1>2, <2>1, <2>2, <2>3, <2>4
  <2>6. \A i, j \in S : i.id < j.id => (i.entity = j.entity <=> <<i.id, j.id>> \in behind \cup new)
    BY <2>1, <2>2
  <2>7. \A b \in behind \cup new : b \in MutationId \X MutationId /\ b[1] < b[2] /\ b[2] <= issued
    BY <1>19, <1>20
  <2> QED
    BY <1>3, <1>5, <1>9, <1>10, <2>5, <2>6, <2>7 DEF BehindIsKnown
<1>22. DependentsFollow(p)'
  <2>1. \A X \in {U, S} : \A b \in behind : \A j \in X :
           j.id = b[2] /\ fate[b[1]] \in {"open", "rejected_invalid"} => \E i \in X : i.id = b[1]
    BY <1>10 DEF PageInv, DependentsFollow
  <2>2. \A b \in new : \A j \in U \cup S : j.id # b[2]
    BY <1>12, <1>20
  <2>3. \A b \in behind : \A a \in A : a.id # b[2]
    BY <1>4, <1>19
  <2>4. \A b \in new : \E i \in U : i.id = b[1]
    BY <1>20
  <2> HIDE DEF A, U, S, R, D, new
  <2>5. \A b \in behind \cup new : \A j \in R :
           j.id = b[2] /\ fate[b[1]] \in {"open", "rejected_invalid"} => \E i \in R : i.id = b[1]
    BY <1>2, <2>1, <2>3, <2>4
  <2>6. \A b \in behind \cup new : \A j \in S :
           j.id = b[2] /\ fate[b[1]] \in {"open", "rejected_invalid"} => \E i \in S : i.id = b[1]
    BY <2>1, <2>2
  <2> QED
    BY <1>3, <1>5, <1>10, <2>5, <2>6 DEF DependentsFollow
<1>23. DependentsWait(p)'
  <2>1. \A b \in new : b[2] \notin Sent(p)
    BY <1>8, <1>20
  <2> HIDE DEF new
  <2> QED
    BY <1>3, <1>5, <1>11, <2>1 DEF PageInv, DependentsWait
<1>24. SentInOrder(p)'
  <2>1. \A X \in {U, S} : \A j \in Sent(p) : \A i \in X : i.id < j => Settled(i.id)'
    BY <1>10, <1>12, <1>16 DEF PageInv, SentInOrder
  <2>2. \A j \in Sent(p) : j \in Nat /\ j <= issued
    BY SentType DEF Inv, PageInv, IdsInOrder, MutationId
  <2>3. \A a \in A : \A j \in Sent(p) : ~(a.id < j)
    BY <1>4, <1>6, <1>8, <2>2
  <2> HIDE DEF A, U, S, R, D
  <2> QED
    BY <1>2, <1>10, <1>11, <2>1, <2>3 DEF SentInOrder
<1>25. CopiesAgree(p)'
  <2>1. Ahead(U, S) /\ (\A i \in S \ U : Settled(i.id)) /\ (syncStep[p] # "write" => S = {})
    BY <1>1 DEF PageInv, CopiesAgree
  <2>2. \A i \in U \cup S : Settled(i.id) => Settled(i.id)'
    BY <1>12, <1>16
  <2>3. \A a \in A : \A j \in S : ~(a.id < j.id)
    BY <1>4, <1>6, <1>8, <1>12
  <2>4. queue'.outbox = R /\ uiCopy'[p].outbox = {} /\ syncCopy'[p].outbox = S
    BY <1>5, <1>9
  <2> HIDE DEF A, U, S, R, D
  <2>5. \A i \in R \ S, j \in S : i.id < j.id => Settled(i.id)'
    BY <1>2, <2>1, <2>2, <2>3 DEF Ahead
  <2>6. \A i \in S \ R : Settled(i.id)'
    BY <1>2, <2>1, <2>2
  <2> QED
    BY <1>5, <2>1, <2>4, <2>5, <2>6 DEF CopiesAgree, Ahead
<1> QED
  BY <1>17, <1>18, <1>21, <1>22, <1>23, <1>24, <1>25 DEF PageInv

LEMMA InitOrder == SysInit => OrderInv
<1> SUFFICES ASSUME SysInit, NEW p \in Page PROVE PageInv(p)
  BY DEF OrderInv
<1>1. \A X \in Outboxes(p) : X = {}
  BY DEF SysInit, Init, Outboxes, EmptyQueue
<1>2. Sent(p) = {} /\ behind = {} /\ uiTask[p] = NoTask
  BY DEF SysInit, Init, Server!Init, Sent
<1>3. queue.outbox = {} /\ uiCopy[p].outbox = {} /\ syncCopy[p].outbox = {}
  BY DEF SysInit, Init, EmptyQueue
<1>4. Drawn(NoTask) = {} /\ NoTask.kind # "mutate"
  BY DrawnFields DEF NoTask
<1> QED
  BY <1>1, <1>2, <1>3, <1>4 DEF PageInv, IdsInOrder, TimesInOrder, BehindIsKnown, DependentsFollow,
       DependentsWait, SentInOrder, CopiesAgree, Ahead

LEMMA StepOrder ==
    ASSUME ~ClockStepsBack
    PROVE  Inv /\ OrderInv /\ [SysNext]_vars => OrderInv'
<1> SUFFICES ASSUME Inv, OrderInv, [SysNext]_vars, NEW p \in Page, open' = {p}
             PROVE  PageInv(p)'
  BY DEF OrderInv
<1>0. Inv' /\ TypeOK' /\ TypeOK
  BY StepInv DEF Inv
<1>1. open' = open
  BY DEF SysNext, UserStarts, UserFlow, Store, SyncLoop, RetryTimer, Foreground, Exchange, Lose, CloseAndOpen,
       ServeOrphan, netVars, vars
<1>2. PageInv(p)
  BY <1>1 DEF OrderInv
<1>3. ASSUME FatesStay, UNCHANGED <<queue, issued, clock, behind>>, Sent(p)' \subseteq Sent(p),
             uiTask'[p] \in {uiTask[p], NoTask},
             uiCopy'[p] \in {uiCopy[p], EmptyQueue}, syncCopy'[p] \in {syncCopy[p], EmptyQueue},
             uiStep'[p] = "write" => uiStep[p] = "write" /\ uiCopy'[p] = uiCopy[p],
             syncStep'[p] # "write" => syncCopy'[p] = EmptyQueue \/ syncStep[p] # "write"
      PROVE  PageInv(p)'
  BY <1>0, <1>2, <1>3, QuietStep
<1>4. CASE UserStarts(p)
  BY <1>0, <1>2, <1>4, StartsInOrder
<1>5. CASE UserFlow(p)
  <2>1. UNCHANGED <<queue, issued, clock, behind, fate, orphans, syncStep, syncId, syncCopy>>
    BY <1>5 DEF UserFlow, UiRead, UiKick, serverVars, netVars, history, syncVars
  <2>2. Sent(p)' = Sent(p) /\ FatesStay
    BY <2>1 DEF Sent, FatesStay
  <2>3. CASE uiCopy'[p] = queue /\ uiStep'[p] = "write" /\ uiTask' = uiTask
    BY <1>0, <1>2, <2>1, <2>2, <2>3, ReadsInOrder
  <2>4. CASE uiStep'[p] # "write" /\ uiTask'[p] \in {uiTask[p], NoTask} /\ uiCopy'[p] \in {uiCopy[p], EmptyQueue}
    BY <1>3, <2>1, <2>2, <2>4
  <2> QED
    BY <1>0, <1>5, <2>3, <2>4 DEF UserFlow, UiRead, UiKick, UiLeave, TypeOK
<1>6. ASSUME NEW now \in 1 .. MaxClock, Store(p, now) PROVE PageInv(p)'
  BY <1>0, <1>2, <1>6, StoresInOrder
<1>7. CASE SyncLoop(p)
  <2>1. UNCHANGED <<issued, clock, behind, fate, orphans, uiVars>>
    BY <1>7 DEF SyncLoop, StartRun, ReadHead, SyncRead, SyncWrite, RunFails, FeedDone, serverVars, netVars, history
  <2>2. UNCHANGED <<uiStep, uiTask, uiCopy>> /\ FatesStay
    BY <2>1 DEF uiVars, FatesStay
  <2>3. CASE StartRun(p) \/ FeedDone(p) \/ (ReadHead(p) /\ queue.outbox = {})
    <3>1. UNCHANGED <<queue, syncId, syncCopy>> /\ syncStep[p] \notin {"sent", "write"}
            /\ syncStep'[p] \notin {"sent", "write"}
      BY <1>0, <2>3 DEF StartRun, FeedDone, ReadHead, SyncGoto, TypeOK
    <3>2. Sent(p)' = Sent(p)
      BY <2>1, <3>1 DEF Sent
    <3> QED
      BY <1>3, <2>1, <2>2, <3>1, <3>2
  <2>4. CASE ReadHead(p) /\ queue.outbox # {}
    <3>1. PICK h \in queue.outbox : /\ IsHead(queue, h)
                                    /\ syncId' = [syncId EXCEPT ![p] = h.id] /\ SyncGoto(p, "sent")
      BY <2>4 DEF ReadHead
    <3>2. syncId'[p] = h.id /\ syncStep[p] = "head" /\ syncStep'[p] = "sent" /\ UNCHANGED <<queue, syncCopy>>
      BY <1>0, <2>4, <3>1 DEF ReadHead, SyncGoto, TypeOK
    <3> QED
      BY <1>0, <1>2, <2>1, <3>1, <3>2, HeadInOrder
  <2>5. CASE SyncRead(p)
    <3>1. /\ syncCopy'[p] = queue /\ syncStep'[p] = "write" /\ syncStep[p] = "read"
          /\ UNCHANGED <<queue, syncId>>
      BY <1>0, <2>5 DEF SyncRead, SyncGoto, TypeOK
    <3>2. Sent(p)' = Sent(p)
      BY <2>1, <3>1 DEF Sent
    <3> QED
      BY <1>0, <1>2, <2>1, <2>2, <3>1, <3>2, ReadsInOrder
  <2>6. CASE SyncWrite(p) /\ OutOfOrder(syncCopy[p], response[p])
    <3>1. /\ queue' = queue /\ syncCopy'[p] = EmptyQueue /\ syncStep'[p] = "idle"
          /\ syncStep[p] = "write"
      BY <1>0, <2>6 DEF SyncWrite, RunFails, SyncLeave, SyncGoto, TypeOK
    <3>2. Sent(p)' \subseteq Sent(p)
      BY <2>1, <3>1 DEF Sent
    <3> QED
      BY <1>3, <2>1, <2>2, <3>1, <3>2
  <2>7. CASE SyncWrite(p) /\ ~OutOfOrder(syncCopy[p], response[p])
    <3>1. /\ queue' = ApplyResponse(syncCopy[p], response[p]) /\ syncCopy'[p] = EmptyQueue
          /\ syncStep'[p] = "head" /\ syncStep[p] = "write"
      BY <1>0, <2>7 DEF SyncWrite, SyncLeave, SyncGoto, TypeOK
    <3> QED
      BY <1>0, <1>2, <2>1, <2>7, <3>1, SyncWritesInOrder
  <2> QED
    BY <1>7, <2>3, <2>4, <2>5, <2>6, <2>7 DEF SyncLoop
<1>8. CASE RetryTimer(p) \/ Foreground(p) \/ UNCHANGED vars
  <2>1. UNCHANGED <<queue, issued, clock, behind, fate, orphans, uiStep, uiTask, uiCopy, syncStep, syncId, syncCopy>>
    BY <1>8 DEF RetryTimer, TimerFires, Foreground, Wake, serverVars, netVars, history, uiVars, syncVars, vars,
         clientVars
  <2>2. Sent(p)' = Sent(p) /\ FatesStay
    BY <2>1 DEF Sent, FatesStay
  <2> QED
    BY <1>3, <2>1, <2>2
<1>9. CASE Exchange(p)
  <2>1. syncId[p] \in MutationId /\ syncStep[p] = "sent" /\ syncStep'[p] = "read" /\ Serve(syncId[p])
    BY <1>0, <1>9 DEF TypeOK, Exchange, Answered, SyncGoto
  <2>2. UNCHANGED <<queue, issued, clock, behind, orphans, uiStep, uiTask, uiCopy, syncId, syncCopy>>
    BY <1>9 DEF Exchange, Answered, netVars, history, uiVars
  <2>3. FatesStay /\ \A j \in MutationId \ {syncId[p]} : fate'[j] = fate[j]
    BY <1>0, <2>1, FateStays DEF FatesStay
  <2>4. Sent(p)' \subseteq Sent(p)
    BY <2>1, <2>2, <2>3 DEF Sent
  <2> QED
    BY <1>3, <2>1, <2>2, <2>3, <2>4
<1>10. CASE Lose(p) \/ CloseAndOpen(p)
  <2>1. /\ UNCHANGED <<queue, issued, clock, behind, fate>>
        /\ syncStep'[p] = "idle" /\ syncCopy'[p] = EmptyQueue
        /\ orphans' \subseteq orphans \cup (IF syncStep[p] = "sent" THEN {syncId[p]} ELSE {})
    BY <1>0, <1>10 DEF Lose, GiveUp, RunFails, CloseAndOpen, Reload, SyncLeave, SyncGoto, TypeOK, serverVars, history
  <2>2. \/ UNCHANGED <<uiStep, uiTask, uiCopy>>
        \/ uiStep'[p] = "idle" /\ uiTask'[p] = NoTask /\ uiCopy'[p] = EmptyQueue
    BY <1>0, <1>10 DEF Lose, GiveUp, RunFails, CloseAndOpen, Reload, UiLeave, TypeOK, uiVars
  <2>3. Sent(p)' \subseteq Sent(p) /\ FatesStay
    BY <2>1 DEF Sent, FatesStay
  <2> QED
    BY <1>3, <2>1, <2>2, <2>3
<1>11. ASSUME NEW i \in MutationId, ServeOrphan(i) PROVE PageInv(p)'
  <2>1. UNCHANGED <<queue, issued, clock, behind, uiStep, uiTask, uiCopy, syncStep, syncId, syncCopy>>
          /\ i \in orphans /\ orphans' \subseteq orphans
    BY <1>11 DEF ServeOrphan, clientVars, uiVars, syncVars, history
  <2>2. FatesStay /\ \A j \in MutationId \ {i} : fate'[j] = fate[j]
    BY <1>0, <1>11, FateStays DEF ServeOrphan, FatesStay
  <2>3. Sent(p)' \subseteq Sent(p)
    BY <2>1, <2>2 DEF Sent
  <2> QED
    BY <1>3, <2>1, <2>2, <2>3
<1> QED
  BY <1>1, <1>4, <1>5, <1>6, <1>7, <1>8, <1>9, <1>10, <1>11 DEF SysNext

LEMMA OrderHolds ==
    ASSUME ~ClockStepsBack
    PROVE  SysSpec => [](Inv /\ OrderInv)
<1>1. Inv /\ OrderInv /\ [SysNext]_vars => OrderInv'
  BY StepOrder
<1> QED
  BY <1>1, InitInv, InitOrder, StepInv, PTL DEF SysSpec

LEMMA OnePageOpen ==
    ASSUME TypeOK, Cardinality(open) = 1
    PROVE  \E p \in Page : open = {p}
<1>1. IsFiniteSet(open)
  BY PageAssumption, FS_Subset DEF TypeOK
<1>2. \E p : open = {p}
  BY <1>1, FS_Singleton
<1> QED
  BY <1>2 DEF TypeOK

\* One open page whose clock is not set back: of two queued mutations the server
\* decides the first one first, however many there are and whatever the network does,
\* but for the dependents of a refusal that a stale copy has brought back.
THEOREM FirstInFirst == ~ClockStepsBack => (SysSpec => []FirstInFirstDecided)
<1> SUFFICES ASSUME ~ClockStepsBack PROVE SysSpec => []FirstInFirstDecided
  OBVIOUS
<1>1. Inv /\ OrderInv => FirstInFirstDecided
  <2> SUFFICES ASSUME Inv, OrderInv, Cardinality(open) = 1,
                      NEW i \in queue.outbox, NEW j \in queue.outbox, i.id < j.id, fate[j.id] # "open"
               PROVE  Settled(i.id)
    BY DEF FirstInFirstDecided
  <2>1. PICK p \in Page : open = {p}
    BY OnePageOpen DEF Inv
  <2>2. SentInOrder(p) /\ queue.outbox \in Outboxes(p) /\ j.id \in MutationId
    BY <2>1, PageFacts DEF OrderInv, PageInv, Outboxes
  <2>3. j.id \in Sent(p)
    BY <2>2 DEF Sent
  <2> QED
    BY <2>2, <2>3 DEF SentInOrder
<1> QED
  BY OrderHolds, <1>1, PTL

\* What was queued behind a refused mutation of the same record is never decided, under
\* the same conditions.
THEOREM NeverOvertake == ~ClockStepsBack => (SysSpec => []DependentsNeverOvertake)
<1> SUFFICES ASSUME ~ClockStepsBack PROVE SysSpec => []DependentsNeverOvertake
  OBVIOUS
<1>1. Inv /\ OrderInv => DependentsNeverOvertake
  <2> SUFFICES ASSUME Inv, OrderInv, Cardinality(open) = 1,
                      NEW b \in behind, fate[b[1]] = "rejected_invalid"
               PROVE  fate[b[2]] = "open"
    BY DEF DependentsNeverOvertake
  <2>1. PICK p \in Page : open = {p}
    BY OnePageOpen DEF Inv
  <2>2. b[2] \in MutationId /\ b[2] \notin Sent(p)
    BY <2>1 DEF OrderInv, PageInv, BehindIsKnown, DependentsWait
  <2> QED
    BY <2>2 DEF Sent
<1> QED
  BY OrderHolds, <1>1, PTL

===============================================================================
