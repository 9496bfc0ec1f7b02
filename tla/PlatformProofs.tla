------------------------------- MODULE PlatformProofs -------------------------------
(***************************************************************************)
(* Proofs about the change feed, the files of imports, the reminders, and  *)
(* who may come in.  Each part has an inductive invariant of its own.      *)
(*                                                                         *)
(* The change feed is proved for every set of records, transactions and    *)
(* responses of any length.  On the server's side the invariant is about   *)
(* row locks: whoever has an uncommitted change of a record is the only    *)
(* one, and has a number above all that is committed of it.  On the        *)
(* device's side it says what a response and a copy of the mirror are      *)
(* still worth when they are used, after other transactions have committed *)
(* and the user has written to the mirror.                                 *)
(***************************************************************************)
EXTENDS Platform, FiniteFacts

Open(t) == phase[t] = "open"

\* The log is finite, its numbers have been drawn, each once, and a version is at most
\* the number of changes.
LogIsNumbered ==
    /\ IsFiniteSet(log)
    /\ \A c \in log : 0 < c.seq /\ c.seq < nextSeq /\ c.version <= VersionOf(c.entity)
    /\ \A c, d \in log : c.seq = d.seq => c = d

\* What is written and not committed: the next version of its record, with a number
\* above those committed of the record, and alone.
OpenIsAhead ==
    \A t \in Transaction :
        /\ phase[t] = "new" => written[t] = {}
        /\ IsFiniteSet(written[t])
        /\ Open(t) => \A c \in written[t] :
            /\ 0 < c.seq /\ c.seq < nextSeq
            /\ c.version = VersionOf(c.entity) + 1
            /\ \A d \in log : d.seq # c.seq /\ (d.entity = c.entity => d.seq < c.seq)
            /\ \A u \in Transaction : Open(u) => \A d \in written[u] :
                 c.seq = d.seq \/ c.entity = d.entity => c = d /\ t = u

ServerInv == LogIsNumbered /\ OpenIsAhead /\ FeedIsInOrder

\* With one page: the cursor is a number of the log, and stays while a pull is under way.
CursorStays ==
    /\ cursor = 0 \/ \E c \in log : c.seq = cursor
    /\ \A p \in Page : step[p] # "idle" => since[p] = cursor

\* A response has everything from where it was asked up to its last change.
FeedIsComplete ==
    \A p \in Page : step[p] \in {"merge", "write"} =>
        /\ \A c \in feed[p] : since[p] < c.seq
        /\ \A c \in log \ late : \A d \in feed[p] :
              since[p] < c.seq /\ c.seq <= d.seq => c \in feed[p]

\* The copy of the mirror is as good as the mirror was, up to the cursor.
CopyIsCovered ==
    \A p \in Page : step[p] = "write" =>
        \A e \in Entity : copy[p][e].from = "feed" =>
            \A c \in ChangesOf(e) \ late : c.seq <= cursor => copy[p][e].version >= c.version

DeviceInv == CursorStays /\ FeedIsComplete /\ CopyIsCovered /\ CursorIsCovered

OnePage == \A p, q \in Page : p = q

-------------------------------------------------------------------------------

\* Latest is what its name says.
LEMMA LatestIsLast ==
    ASSUME TypeOK, LogIsNumbered, NEW S \in SUBSET log, S # {}
    PROVE  Latest(S) \in S /\ \A d \in S : d.seq <= Latest(S).seq
<1> DEFINE N == {c.seq : c \in S}
<1>1. N \subseteq Int /\ N # {}
  BY DEF TypeOK, Change
<1>2. IsFiniteSet(N)
  <2>1. IsFiniteSet(S)
    BY FS_Subset DEF LogIsNumbered
  <2>2. [c \in S |-> c.seq] \in Surjection(S, N)
    BY DEF Surjection
  <2> HIDE DEF N
  <2> QED
    BY <2>1, <2>2, FS_Surjection
<1>3. \E m \in N : \A k \in N : k <= m
  <2> HIDE DEF N
  <2> QED
    BY <1>1, <1>2, Largest
<1>4. \E c \in S : \A d \in S : d.seq <= c.seq
  BY <1>3
<1> QED
  BY <1>4 DEF Latest

\* A response ends where the limit cuts it off, and has all before.
LEMMA ListedIsPrefix ==
    ASSUME TypeOK, LogIsNumbered, NEW s \in Nat
    PROVE  /\ Listed(s) \in SUBSET {c \in log : s < c.seq}
           /\ \A c \in log, d \in Listed(s) : s < c.seq /\ c.seq <= d.seq => c \in Listed(s)
<1> DEFINE after == {c \in log : c.seq > s}
           before(c) == {d \in after : d.seq < c.seq}
<1>1. \A c \in log : c.seq \in Nat
  BY DEF TypeOK, Change
<1>2. ASSUME NEW c \in log, NEW d \in Listed(s), s < c.seq, c.seq <= d.seq
      PROVE  c \in Listed(s)
  <2>1. d \in after /\ Cardinality(before(d)) < Limit
    BY <1>2 DEF Listed
  <2>2. before(c) \in SUBSET before(d)
    BY <1>1, <1>2, <2>1
  <2>3. IsFiniteSet(before(d))
    BY FS_Subset DEF LogIsNumbered
  <2>4. Cardinality(before(c)) <= Cardinality(before(d))
    BY <2>2, <2>3, FS_Subset
  <2>5. Cardinality(before(c)) \in Nat /\ Cardinality(before(d)) \in Nat
    BY <2>2, <2>3, FS_Subset, FS_CardinalityType
  <2>6. Cardinality(before(c)) < Limit
    BY <2>1, <2>4, <2>5, FeedAssumption
  <2> QED
    BY <1>1, <1>2, <2>6 DEF Listed
<1> QED
  BY <1>1, <1>2 DEF Listed

LEMMA VersionType ==
    ASSUME LogIsNumbered, NEW e
    PROVE  IsFiniteSet(ChangesOf(e)) /\ VersionOf(e) \in Nat
BY FS_Subset, FS_CardinalityType DEF LogIsNumbered, VersionOf, ChangesOf

\* What a pull writes is an entry.
LEMMA MergedType ==
    ASSUME TypeOK, LogIsNumbered, NEW p \in Page, NEW e \in Entity
    PROVE  Merged(p, e) \in Entry
<1> DEFINE fresh == {c \in feed[p] : c.entity = e}
<1>1. CASE fresh # {}
  <2>1. fresh \in SUBSET log
    BY DEF TypeOK
  <2>2. Latest(fresh) \in log
    <3> HIDE DEF fresh
    <3> QED
      BY <1>1, <2>1, LatestIsLast
  <2>3. Latest(fresh).version \in Nat
    BY <2>2 DEF TypeOK, Change
  <2>4. Merged(p, e) = [version |-> Latest(fresh).version, from |-> "feed"]
    BY <1>1 DEF Merged
  <2> QED
    BY <2>3, <2>4 DEF Entry
<1>2. CASE fresh = {}
  BY <1>2 DEF Merged, TypeOK
<1> QED
  BY <1>1, <1>2

-------------------------------------------------------------------------------

LEMMA InitTypeOK == Init => TypeOK
BY FeedAssumption DEF Init, TypeOK, Entry, NoEntry

\* Typing, action by action.
LEMMA StepTypeOK ==
    TypeOK /\ LogIsNumbered /\ [Next]_vars => TypeOK'
<1> SUFFICES ASSUME TypeOK, LogIsNumbered, [Next]_vars PROVE TypeOK'
  OBVIOUS
<1> USE DEF serverVars, pullVars
<1>1. ASSUME NEW t \in Transaction, NEW e \in Entity, RecordChange(t, e) PROVE TypeOK'
  <2>1. [seq |-> nextSeq, entity |-> e, version |-> VersionOf(e) + 1] \in Change
    BY VersionType DEF TypeOK, Change
  <2> QED
    BY <1>1, <2>1 DEF RecordChange, TypeOK
<1>2. ASSUME NEW t \in Transaction, CommitAll(t) PROVE TypeOK'
  BY <1>2 DEF CommitAll, TypeOK
<1>3. ASSUME NEW t \in Transaction, Abort(t) PROVE TypeOK'
  BY <1>3 DEF Abort, TypeOK
<1>4. ASSUME NEW p \in Page, Ask(p) PROVE TypeOK'
  BY <1>4 DEF Ask, Goto, TypeOK
<1>5. ASSUME NEW p \in Page, Receive(p) PROVE TypeOK'
  <2>1. Listed(since[p]) \subseteq log
    BY DEF Listed
  <2> QED
    BY <1>5, <2>1 DEF Receive, Goto, TypeOK
<1>6. ASSUME NEW p \in Page, GiveUp(p) PROVE TypeOK'
  BY <1>6 DEF GiveUp, Goto, TypeOK, Entry, NoEntry
<1>7. ASSUME NEW p \in Page, ReadMirror(p) PROVE TypeOK'
  BY <1>7 DEF ReadMirror, Goto, TypeOK
<1>8. ASSUME NEW p \in Page, WriteMirror(p) PROVE TypeOK'
  <2>1. \A e \in Entity : Merged(p, e) \in Entry
    BY MergedType
  <2>2. NextSince(p) \in Nat
    BY LatestIsLast DEF NextSince, TypeOK, Change
  <2>3. [e \in Entity |-> NoEntry] \in [Entity -> Entry]
    BY DEF NoEntry, Entry
  <2> QED
    BY <1>8, <2>1, <2>2, <2>3 DEF WriteMirror, Goto, TypeOK
<1>9. ASSUME NEW e \in Entity, NEW v \in 1 .. nextSeq, UserPut(e, v) PROVE TypeOK'
  BY <1>9, FeedAssumption DEF UserPut, TypeOK, Entry
<1>10. CASE UNCHANGED vars
  BY <1>10 DEF vars, TypeOK
<1> QED
  BY <1>1, <1>2, <1>3, <1>4, <1>5, <1>6, <1>7, <1>8, <1>9, <1>10 DEF Next

-------------------------------------------------------------------------------
(* The server                                                              *)

LEMMA InitServerInv == Init => ServerInv
BY FS_EmptySet DEF Init, ServerInv, LogIsNumbered, OpenIsAhead, FeedIsInOrder, Open

\* A commit adds one version to the records it is about, and no other.
LEMMA VersionAfterCommit ==
    ASSUME TypeOK, ServerInv, NEW t \in Transaction, CommitAll(t), NEW e
    PROVE  VersionOf(e)' = IF \E c \in written[t] : c.entity = e
                           THEN VersionOf(e) + 1 ELSE VersionOf(e)
<1>1. CASE \A c \in written[t] : c.entity # e
  <2>1. ChangesOf(e)' = ChangesOf(e)
    BY <1>1 DEF CommitAll, ChangesOf
  <2> QED
    BY <1>1, <2>1 DEF VersionOf
<1>2. ASSUME NEW c \in written[t], c.entity = e
      PROVE  VersionOf(e)' = VersionOf(e) + 1
  <2>1. \A d \in written[t] : d.entity = e => d = c
    BY <1>2 DEF ServerInv, OpenIsAhead, Open, CommitAll
  <2>2. ChangesOf(e)' = ChangesOf(e) \cup {c}
    BY <1>2, <2>1 DEF CommitAll, ChangesOf
  <2>3. c \notin log
    BY DEF ServerInv, OpenIsAhead, Open, CommitAll
  <2>4. c \notin ChangesOf(e) /\ IsFiniteSet(ChangesOf(e))
    BY <2>3, VersionType DEF ServerInv, ChangesOf
  <2> QED
    BY <2>2, <2>4, FS_AddElement DEF VersionOf
<1> QED
  BY <1>1, <1>2

LEMMA StepServerInv ==
    TypeOK /\ ServerInv /\ [Next]_vars => ServerInv'
<1> SUFFICES ASSUME TypeOK, ServerInv, [Next]_vars PROVE ServerInv'
  OBVIOUS
<1>1. ASSUME NEW t \in Transaction, NEW e \in Entity, RecordChange(t, e) PROVE ServerInv'
  <2> DEFINE new == [seq |-> nextSeq, entity |-> e, version |-> VersionOf(e) + 1]
  <2>1. log' = log /\ \A f : VersionOf(f)' = VersionOf(f)
    BY <1>1 DEF RecordChange, VersionOf, ChangesOf
  <2>2. nextSeq \in Nat \ {0} /\ nextSeq' = nextSeq + 1
    BY <1>1 DEF RecordChange, TypeOK
  <2>3. LogIsNumbered'
    BY <2>1, <2>2 DEF ServerInv, LogIsNumbered, TypeOK, Change
  <2>4. FeedIsInOrder'
    BY <2>1 DEF ServerInv, FeedIsInOrder
  <2>5. OpenIsAhead'
    <3>1. \A u \in Transaction : written'[u] = written[u] \cup (IF u = t THEN {new} ELSE {})
      BY <1>1 DEF RecordChange, TypeOK
    <3>2. \A u \in Transaction : phase'[u] = IF u = t THEN "open" ELSE phase[u]
      BY <1>1 DEF RecordChange, TypeOK
    <3>3. ~Open(t) => written[t] = {}
      BY <1>1 DEF RecordChange, ServerInv, OpenIsAhead, Open
    <3>4. \A u \in Transaction : Open(u) => \A c \in written[u] : c.entity # e
      BY <1>1 DEF RecordChange, Locked, Open
    <3>5. \A u \in Transaction : IsFiniteSet(written'[u])
      <4>1. \A u \in Transaction : IsFiniteSet(written[u])
        BY DEF ServerInv, OpenIsAhead
      <4>2. IsFiniteSet(written[t] \cup {new})
        BY <4>1, FS_AddElement
      <4>3. \A u \in Transaction : written'[u] = IF u = t THEN written[u] \cup {new} ELSE written[u]
        BY <3>1
      <4> HIDE DEF new
      <4> QED
        BY <4>1, <4>2, <4>3
    <3>6. \A d \in log : d.seq < nextSeq /\ d.seq \in Nat
      BY DEF ServerInv, LogIsNumbered, TypeOK, Change
    <3>7. ASSUME NEW u \in Transaction, Open(u)', NEW c \in written'[u]
          PROVE  \/ c = new /\ u = t
                 \/ c \in written[u] /\ Open(u) /\ c # new /\ c.entity # e
                    /\ c.seq \in Nat /\ 0 < c.seq /\ c.seq < nextSeq
                    /\ c.version = VersionOf(c.entity) + 1
                    /\ \A d \in log : d.seq # c.seq /\ (d.entity = c.entity => d.seq < c.seq)
      BY <3>1, <3>2, <3>3, <3>4, <3>7 DEF ServerInv, OpenIsAhead, Open, TypeOK, Change
    <3>8. ASSUME NEW u \in Transaction, Open(u)', NEW c \in written'[u]
          PROVE  /\ 0 < c.seq /\ c.seq < nextSeq'
                 /\ c.version = VersionOf(c.entity)' + 1
                 /\ \A d \in log : d.seq # c.seq /\ (d.entity = c.entity => d.seq < c.seq)
      BY <2>1, <2>2, <3>6, <3>7, <3>8
    <3>9. ASSUME NEW u \in Transaction, Open(u)', NEW c \in written'[u],
                 NEW v \in Transaction, Open(v)', NEW d \in written'[v],
                 c.seq = d.seq \/ c.entity = d.entity
          PROVE  c = d /\ u = v
      <4>1. new.seq = nextSeq /\ new.entity = e
        OBVIOUS
      <4> HIDE DEF new
      <4>2. CASE c = new
        BY <2>2, <3>7, <3>9, <4>1, <4>2
      <4>3. CASE d = new
        BY <2>2, <3>7, <3>9, <4>1, <4>3
      <4>4. CASE c # new /\ d # new
        BY <3>7, <3>9, <4>4 DEF ServerInv, OpenIsAhead
      <4> QED
        BY <4>2, <4>3, <4>4
    <3>10. \A u \in Transaction : phase'[u] = "new" => written'[u] = {}
      BY <3>1, <3>2 DEF ServerInv, OpenIsAhead
    <3> QED
      BY <2>1, <3>5, <3>8, <3>9, <3>10 DEF OpenIsAhead, Open
  <2> QED
    BY <2>3, <2>4, <2>5 DEF ServerInv
<1>2. ASSUME NEW t \in Transaction, CommitAll(t) PROVE ServerInv'
  <2>1. log' = log \cup written[t] /\ nextSeq' = nextSeq /\ written' = written
    BY <1>2 DEF CommitAll
  <2>2. Open(t) /\ \A u \in Transaction : Open(u)' <=> Open(u) /\ u # t
    BY <1>2 DEF CommitAll, Open, TypeOK
  <2>3. \A c \in log \cup written[t] : c.seq \in Nat /\ c.version \in Nat
    BY DEF TypeOK, Change
  <2>4. \A e : VersionOf(e) \in Nat
    BY VersionType DEF ServerInv
  <2>5. \A c \in written[t] : c.version = VersionOf(c.entity) + 1
    BY <2>2 DEF ServerInv, OpenIsAhead
  <2>6. \A c \in log : c.version <= VersionOf(c.entity)
    BY DEF ServerInv, LogIsNumbered
  <2>7. \A c \in written[t], d \in log : d.seq # c.seq /\ (d.entity = c.entity => d.seq < c.seq)
    BY <2>2 DEF ServerInv, OpenIsAhead
  <2>8. \A c, d \in written[t] : c.seq = d.seq \/ c.entity = d.entity => c = d
    BY <2>2 DEF ServerInv, OpenIsAhead
  <2>9. LogIsNumbered'
    <3>1. IsFiniteSet(log')
      BY <2>1, FS_Union DEF ServerInv, LogIsNumbered, OpenIsAhead
    <3>2. \A c \in log' : 0 < c.seq /\ c.seq < nextSeq'
      BY <2>1, <2>2 DEF ServerInv, LogIsNumbered, OpenIsAhead
    <3>3. \A c \in log' : c.version <= VersionOf(c.entity)'
      BY <1>2, <2>1, <2>3, <2>4, <2>5, <2>6, VersionAfterCommit
    <3>4. \A c, d \in log' : c.seq = d.seq => c = d
      BY <2>1, <2>7, <2>8 DEF ServerInv, LogIsNumbered
    <3> QED
      BY <3>1, <3>2, <3>3, <3>4 DEF LogIsNumbered
  <2>10. FeedIsInOrder'
    <3> SUFFICES ASSUME NEW c \in log', NEW d \in log', c.entity = d.entity
                 PROVE  c.seq < d.seq <=> c.version < d.version
      BY DEF FeedIsInOrder
    <3>1. CASE c \in log /\ d \in log
      BY <3>1 DEF ServerInv, FeedIsInOrder
    <3>2. CASE c \in log /\ d \in written[t]
      BY <2>3, <2>4, <2>5, <2>6, <2>7, <3>2
    <3>3. CASE c \in written[t] /\ d \in log
      BY <2>3, <2>4, <2>5, <2>6, <2>7, <3>3
    <3>4. CASE c \in written[t] /\ d \in written[t]
      BY <2>3, <2>8, <3>4
    <3> QED
      BY <2>1, <3>1, <3>2, <3>3, <3>4
  <2>11. OpenIsAhead'
    <3>1. \A u \in Transaction : Open(u)' => \A c \in written[u] :
              \A d \in written[t] : c.seq # d.seq /\ c.entity # d.entity
      BY <2>2 DEF ServerInv, OpenIsAhead
    <3>2. \A u \in Transaction : Open(u)' => \A c \in written[u] :
              VersionOf(c.entity)' = VersionOf(c.entity)
      BY <1>2, <3>1, VersionAfterCommit
    <3>3. ASSUME NEW u \in Transaction, Open(u)', NEW c \in written[u]
          PROVE  /\ 0 < c.seq /\ c.seq < nextSeq'
                 /\ c.version = VersionOf(c.entity)' + 1
                 /\ \A d \in log' : d.seq # c.seq /\ (d.entity = c.entity => d.seq < c.seq)
      BY <2>1, <2>2, <3>1, <3>2, <3>3 DEF ServerInv, OpenIsAhead
    <3>4. \A u \in Transaction :
             /\ phase'[u] = "new" => written'[u] = {}
             /\ IsFiniteSet(written'[u])
      BY <1>2, <2>1 DEF CommitAll, ServerInv, OpenIsAhead, TypeOK
    <3>5. \A u, v \in Transaction : Open(u)' /\ Open(v)' =>
            \A c \in written'[u], d \in written'[v] :
               c.seq = d.seq \/ c.entity = d.entity => c = d /\ u = v
      BY <2>1, <2>2 DEF ServerInv, OpenIsAhead
    <3> QED
      BY <2>1, <3>3, <3>4, <3>5 DEF OpenIsAhead
  <2> QED
    BY <2>9, <2>10, <2>11 DEF ServerInv
<1>3. ASSUME NEW t \in Transaction, Abort(t) PROVE ServerInv'
  <2>1. UNCHANGED <<log, nextSeq, written>> /\ \A e : VersionOf(e)' = VersionOf(e)
    BY <1>3 DEF Abort, VersionOf, ChangesOf
  <2>2. \A u \in Transaction : (Open(u)' => Open(u)) /\ (phase'[u] = "new" => phase[u] = "new")
    BY <1>3 DEF Abort, Open, TypeOK
  <2> QED
    BY <2>1, <2>2 DEF ServerInv, LogIsNumbered, OpenIsAhead, FeedIsInOrder
<1>4. CASE UNCHANGED serverVars
  <2>1. UNCHANGED <<log, nextSeq, phase, written>> /\ \A e : VersionOf(e)' = VersionOf(e)
    BY <1>4 DEF serverVars, VersionOf, ChangesOf
  <2> QED
    BY <2>1 DEF ServerInv, LogIsNumbered, OpenIsAhead, FeedIsInOrder, Open
<1> QED
  BY <1>1, <1>2, <1>3, <1>4
    DEF Next, Ask, Receive, GiveUp, ReadMirror, WriteMirror, UserPut, vars, serverVars

\* The sequence number of a change, its version and the order of the commits agree,
\* however the transactions that write them interleave and abort (recordChange,
\* listChanges in packages/database/src/sync.ts).
THEOREM FeedOrdered == Spec => [](TypeOK /\ ServerInv /\ FeedIsInOrder)
<1>1. Init => TypeOK /\ ServerInv
  BY InitTypeOK, InitServerInv
<1>2. TypeOK /\ ServerInv /\ [Next]_vars => (TypeOK /\ ServerInv)'
  BY StepTypeOK, StepServerInv DEF ServerInv
<1>3. ServerInv => FeedIsInOrder
  BY DEF ServerInv
<1> QED
  BY <1>1, <1>2, <1>3, PTL DEF Spec

-------------------------------------------------------------------------------
(* The device                                                              *)

LEMMA InitDeviceInv == Init => DeviceInv
BY DEF Init, DeviceInv, CursorStays, FeedIsComplete, CopyIsCovered, CursorIsCovered, ChangesOf

\* What commits in its turn has a number above the cursor and above every response.
LEMMA NewIsBeyond ==
    ASSUME TypeOK, ServerInv, CursorStays, NEW t \in Transaction, CommitAll(t)
    PROVE  \A c \in log' \ late' :
              c \in log \ late \/ (cursor < c.seq /\ \A d \in log : d.seq < c.seq)
<1> SUFFICES ASSUME NEW c \in log' \ late', c \notin log \ late
             PROVE  cursor < c.seq /\ \A d \in log : d.seq < c.seq
  OBVIOUS
<1>1. c \in written[t] /\ \A d \in log : ~(d.seq > c.seq)
  BY DEF CommitAll, TypeOK
<1>2. c.seq \in Nat /\ 0 < c.seq /\ \A d \in log : d.seq # c.seq /\ d.seq \in Nat
  BY <1>1 DEF ServerInv, OpenIsAhead, Open, CommitAll, TypeOK, Change
<1>3. \A d \in log : d.seq < c.seq
  BY <1>1, <1>2
<1> QED
  BY <1>2, <1>3 DEF CursorStays

\* What a pull stores covers what its cursor passes.
LEMMA MergeCovers ==
    ASSUME TypeOK, ServerInv, DeviceInv, NEW p \in Page, step[p] = "write",
           NEW e \in Entity, Merged(p, e).from = "feed",
           NEW c \in ChangesOf(e) \ late, c.seq <= NextSince(p)
    PROVE  Merged(p, e).version >= c.version
<1> DEFINE fresh == {d \in feed[p] : d.entity = e}
<1>1. c \in log \ late /\ c.entity = e /\ c.seq \in Nat /\ c.version \in Nat
  BY DEF ChangesOf, TypeOK, Change
<1>2. feed[p] \subseteq log /\ since[p] \in Nat /\ since[p] = cursor
  BY DEF TypeOK, DeviceInv, CursorStays
<1>3. \A d \in feed[p] : since[p] < d.seq /\ d.seq \in Nat /\ d.version \in Nat
  BY <1>2 DEF DeviceInv, FeedIsComplete, TypeOK, Change
<1>4. since[p] < c.seq => c \in fresh
  <2> SUFFICES ASSUME since[p] < c.seq PROVE c \in fresh
    OBVIOUS
  <2>1. feed[p] # {}
    BY <1>1, <1>2 DEF NextSince
  <2>2. Latest(feed[p]) \in feed[p] /\ c.seq <= Latest(feed[p]).seq
    BY <1>2, <2>1, LatestIsLast DEF NextSince, ServerInv
  <2> QED
    BY <1>1, <2>2 DEF DeviceInv, FeedIsComplete
<1>5. CASE fresh # {}
  <2> DEFINE last == Latest(fresh)
  <2>1. last \in fresh /\ \A d \in fresh : d.seq <= last.seq
    <3>1. fresh \in SUBSET log
      BY <1>2
    <3> HIDE DEF fresh
    <3> QED
      BY <1>5, <3>1, LatestIsLast DEF ServerInv
  <2>2. Merged(p, e).version = last.version
    BY <1>5 DEF Merged
  <2>3. last \in log /\ last.entity = e /\ since[p] < last.seq /\ last.seq \in Nat
          /\ last.version \in Nat
    BY <1>2, <1>3, <2>1
  <2>4. c.seq <= last.seq
    <3> HIDE DEF fresh, last
    <3> QED
      BY <1>1, <1>2, <1>4, <2>1, <2>3
  <2>5. c.seq = last.seq \/ c.seq < last.seq
    BY <1>1, <2>3, <2>4
  <2>6. c = last \/ c.version < last.version
    BY <1>1, <2>3, <2>5 DEF ServerInv, LogIsNumbered, FeedIsInOrder
  <2> QED
    BY <1>1, <2>2, <2>3, <2>6
<1>6. CASE fresh = {}
  <2>1. c.seq <= cursor
    BY <1>1, <1>2, <1>4, <1>6
  <2>2. Merged(p, e) = IF copy[p][e] # NoEntry THEN copy[p][e] ELSE mirror[e]
    BY <1>6 DEF Merged
  <2>3. CASE copy[p][e] # NoEntry
    BY <2>1, <2>2, <2>3 DEF DeviceInv, CopyIsCovered
  <2>4. CASE copy[p][e] = NoEntry
    BY <2>1, <2>2, <2>4 DEF DeviceInv, CursorIsCovered
  <2> QED
    BY <2>3, <2>4
<1> QED
  BY <1>5, <1>6

LEMMA StepDeviceInv ==
    OnePage /\ TypeOK /\ ServerInv /\ DeviceInv /\ [Next]_vars => DeviceInv'
<1> SUFFICES ASSUME OnePage, TypeOK, ServerInv, DeviceInv, [Next]_vars PROVE DeviceInv'
  OBVIOUS
<1>1. CASE UNCHANGED <<log, late, cursor, mirror, pullVars>>
  BY <1>1 DEF pullVars, DeviceInv, CursorStays, FeedIsComplete, CopyIsCovered, CursorIsCovered, ChangesOf
<1>2. ASSUME NEW t \in Transaction, CommitAll(t) PROVE DeviceInv'
  <2>1. UNCHANGED <<cursor, mirror, step, since, feed, copy>> /\ log \subseteq log'
    BY <1>2 DEF CommitAll, pullVars
  <2>2. \A c \in log' \ late' :
           c \in log \ late \/ (cursor < c.seq /\ \A d \in log : d.seq < c.seq)
    BY <1>2, NewIsBeyond DEF DeviceInv
  <2>3. \A p \in Page : feed[p] \subseteq log
    BY DEF TypeOK
  <2>4. cursor \in Nat /\ \A c \in log' : c.seq \in Nat
    BY <1>2 DEF TypeOK, CommitAll, Change
  <2>5. CursorStays'
    BY <2>1 DEF DeviceInv, CursorStays
  <2>6. FeedIsComplete'
    <3> SUFFICES ASSUME NEW p \in Page, step[p] \in {"merge", "write"}
                 PROVE  /\ \A c \in feed[p] : since[p] < c.seq
                        /\ \A c \in log' \ late' : \A d \in feed[p] :
                              since[p] < c.seq /\ c.seq <= d.seq => c \in feed[p]
      BY <2>1 DEF FeedIsComplete
    <3>1. \A c \in log' \ late' : \A d \in feed[p] : c.seq <= d.seq => c \in log \ late
      BY <2>1, <2>2, <2>3, <2>4
    <3> QED
      BY <3>1 DEF DeviceInv, FeedIsComplete
  <2>7. \A e \in Entity : \A c \in (ChangesOf(e) \ late)' : c.seq <= cursor => c \in ChangesOf(e) \ late
    BY <2>2, <2>4 DEF ChangesOf
  <2>8. CopyIsCovered' /\ CursorIsCovered'
    BY <2>1, <2>7 DEF DeviceInv, CopyIsCovered, CursorIsCovered
  <2> QED
    BY <2>5, <2>6, <2>8 DEF DeviceInv
<1>3. ASSUME UNCHANGED serverVars, NEW p \in Page,
             Ask(p) \/ Receive(p) \/ GiveUp(p) \/ ReadMirror(p) \/ WriteMirror(p)
      PROVE  DeviceInv'
  <2>0. \A q \in Page : q = p
    BY DEF OnePage
  <2>1. UNCHANGED <<log, late>> /\ \A e : ChangesOf(e)' = ChangesOf(e)
    BY <1>3 DEF serverVars, ChangesOf
  <2>2. CASE Ask(p)
    BY <2>0, <2>1, <2>2 DEF Ask, Goto, TypeOK, DeviceInv, CursorStays, FeedIsComplete, CopyIsCovered,
                            CursorIsCovered
  <2>3. CASE Receive(p)
    <3>1. /\ \A c \in Listed(since[p]) : since[p] < c.seq
          /\ \A c \in log, d \in Listed(since[p]) :
                since[p] < c.seq /\ c.seq <= d.seq => c \in Listed(since[p])
      BY ListedIsPrefix DEF TypeOK, ServerInv
    <3>2. FeedIsComplete'
      BY <2>0, <2>1, <2>3, <3>1 DEF Receive, Goto, TypeOK, FeedIsComplete
    <3>3. CursorStays' /\ CopyIsCovered' /\ CursorIsCovered'
      BY <2>0, <2>1, <2>3 DEF Receive, Goto, TypeOK, DeviceInv, CursorStays, CopyIsCovered, CursorIsCovered
    <3> QED
      BY <3>2, <3>3 DEF DeviceInv
  <2>4. CASE GiveUp(p)
    BY <2>0, <2>1, <2>4 DEF GiveUp, Goto, TypeOK, DeviceInv, CursorStays, FeedIsComplete, CopyIsCovered,
                            CursorIsCovered
  <2>5. CASE ReadMirror(p)
    BY <2>0, <2>1, <2>5 DEF ReadMirror, Goto, TypeOK, DeviceInv, CursorStays, FeedIsComplete, CopyIsCovered,
                            CursorIsCovered
  <2>6. CASE WriteMirror(p)
    <3>1. cursor' = NextSince(p) /\ \A e \in Entity : mirror'[e] = Merged(p, e)
      BY <2>6 DEF WriteMirror
    <3>2. step[p] = "write" /\ step'[p] = "idle"
      BY <2>6 DEF WriteMirror, Goto, TypeOK
    <3>3. CursorIsCovered'
      BY <2>1, <3>1, <3>2, MergeCovers DEF CursorIsCovered
    <3>4. NextSince(p) = cursor \/ \E c \in log : c.seq = NextSince(p)
      <4>1. feed[p] \in SUBSET log /\ since[p] = cursor
        BY <3>2 DEF TypeOK, DeviceInv, CursorStays
      <4> QED
        BY <4>1, LatestIsLast DEF NextSince, ServerInv
    <3>5. CursorStays'
      BY <2>0, <2>1, <3>1, <3>2, <3>4 DEF DeviceInv, CursorStays
    <3>6. FeedIsComplete' /\ CopyIsCovered'
      BY <2>0, <3>2 DEF FeedIsComplete, CopyIsCovered
    <3> QED
      BY <3>3, <3>5, <3>6 DEF DeviceInv
  <2> QED
    BY <1>3, <2>2, <2>3, <2>4, <2>5, <2>6
<1>4. ASSUME NEW e \in Entity, NEW v \in 1 .. nextSeq, UserPut(e, v) PROVE DeviceInv'
  <2>1. UNCHANGED <<log, late, cursor, step, since, feed, copy>> /\ \A f : ChangesOf(f)' = ChangesOf(f)
    BY <1>4 DEF UserPut, serverVars, pullVars, ChangesOf
  <2>2. \A f \in Entity : mirror'[f].from = "feed" => mirror'[f] = mirror[f]
    BY <1>4 DEF UserPut, TypeOK
  <2> QED
    BY <2>1, <2>2 DEF DeviceInv, CursorStays, FeedIsComplete, CopyIsCovered, CursorIsCovered
<1> QED
  BY <1>1, <1>2, <1>3, <1>4
    DEF Next, RecordChange, Abort, Ask, Receive, GiveUp, ReadMirror, WriteMirror, vars, serverVars, pullVars

\* What the cursor of a device has passed is in its mirror, on a device with one open
\* page (syncCursor, applyServerFeed in apps/web/src/offline.ts; applyChangeFeed in
\* packages/sync/src/feed.ts).
THEOREM CursorNeverSkips == OnePage => (Spec => []CursorIsCovered)
<1> SUFFICES ASSUME OnePage PROVE Spec => []CursorIsCovered
  OBVIOUS
<1>1. Init => TypeOK /\ ServerInv /\ DeviceInv
  BY InitTypeOK, InitServerInv, InitDeviceInv
<1>2. TypeOK /\ ServerInv /\ DeviceInv /\ [Next]_vars => (TypeOK /\ ServerInv /\ DeviceInv)'
  BY StepTypeOK, StepServerInv, StepDeviceInv DEF ServerInv
<1>3. DeviceInv => CursorIsCovered
  BY DEF DeviceInv
<1> QED
  BY <1>1, <1>2, <1>3, PTL DEF Spec

-------------------------------------------------------------------------------
(* Files, reminders and access: the invariants.                            *)

\* A file on the disk has been renamed and, if it has a row, is not marked as purged;
\* a temporary file belongs to an import that is about to rename it, or that was orphaned.
\* A purge marks only what it has removed.
FileInv ==
    /\ F!TypeOK
    /\ \A f \in leftover : import[f] = "rename" \/ f \in orphaned
    /\ \A f \in stored : import[f] \notin {"new", "rename"} /\ file[f] # "purged"
    /\ \A f \in orphaned : import[f] = "over"
    /\ \A f \in File : import[f] = "match" => file[f] # None
    /\ \A w \in Worker : purge[w].at \notin stored
    /\ F!EveryFileIsAccounted

\* The key under which a scan records and delivers what it is at.
KeyOf(s) ==
    <<scan[s].thing, R!Key(scan[s].thing, R!Day(scan[s].at)), scan[s].channel>>
KeyOfRecord(r) == <<r.thing, r.day, r.channel>>

\* A key is recorded once, so one scan at most delivers it, and has not done so; what a
\* scan has decided to say daily keeps its distance from all that is recorded, unless
\* another one decided about the same thing.
ReminderInv ==
    /\ R!TypeOK
    /\ \A r, q \in said : KeyOfRecord(r) = KeyOfRecord(q) => r = q
    /\ \A r \in said : r.thing \in Once => r.day = 0
    /\ \A s \in Worker : scan[s].step = "deliver" =>
        /\ \E r \in said : KeyOf(s) = KeyOfRecord(r)
        /\ KeyOf(s) \notin DOMAIN sent
        /\ \A q \in Worker \ {s} : scan[q].step = "deliver" => KeyOf(q) # KeyOf(s)
    /\ \A s \in Worker : scan[s].step = "record" /\ scan[s].thing \in Daily \ together =>
        R!Recent(scan[s].thing, scan[s].channel, scan[s].at) = {}
    /\ R!SaidOnce
    /\ R!CooldownKept

\* What a request holds is there: the user, the challenge, the session and the device.
Holds(j) ==
    /\ j.op \in {"save", "enable", "count", "codes", "issue", "link"} => X!Registered(j.user)
    /\ j.op = "consume" => challenge[j.challenge] # None
    /\ j.op \in {"touch", "register", "mutate", "look", "attach"} => session[j.session] # None
    /\ j.op \in {"look", "attach"} =>
        device[j.device] # None /\ device[j.device].user = session[j.session].user
HeldIsThere == \A w \in Worker : Holds(job[w])

\* What entitled someone to a session, or to become a user, is used up.
Spent(by) ==
    /\ by[1] = "setup" => claimed
    /\ by[1] = "invite" => invite[by[2]] = "used"
    /\ by[1] = "challenge" => challenge[by[2]] # None /\ challenge[by[2]].state = "used"
    /\ by[1] = "recovery" => codes[by[2]][by[3]] = "used"

AllIsSpent ==
    /\ \A s \in Session : session[s] # None => Spent(session[s].by)
    /\ \A w \in Worker : job[w].op = "issue" => Spent(job[w].by)
    /\ \A u \in User : X!Registered(u) =>
        /\ user[u].by = "setup" => claimed
        /\ user[u].by \in Invite => invite[user[u].by] = "used"

\* Recovery codes are made once: whoever is about to make them is alone with that, and
\* there are none yet.
NoCodes(u) == \A c \in Code : codes[u][c] = "none"
WillMakeCodes(w, u) ==
    /\ w \in X!SavingFor(u)
    /\ job[w].op = "codes" \/ passkeys[u] = 1
CodesMadeOnceFor(u) ==
    /\ passkeys[u] = 0 => X!SavingFor(u) = {} /\ NoCodes(u)
    /\ \A w \in Worker : WillMakeCodes(w, u) => NoCodes(u)
    /\ \A v, w \in Worker : WillMakeCodes(v, u) /\ WillMakeCodes(w, u) => v = w
    /\ passkeys[u] > 0 /\ u \notin crossed =>
        \/ \A c \in Code : codes[u][c] # "none"
        \/ \E w \in Worker : WillMakeCodes(w, u)
CodesAreMadeOnce == \A u \in User : CodesMadeOnceFor(u)

AccessInv ==
    /\ X!TypeOK
    /\ HeldIsThere
    /\ AllIsSpent
    /\ X!UsedOnce
    /\ CodesAreMadeOnce
    /\ X!NoSessionOnRevokedDevice
    /\ X!OneUserPerDiscord

PlatformInv ==
    /\ TypeOK
    /\ ServerInv
    /\ part = "access" => AccessInv
    /\ part = "reminders" => ReminderInv
    /\ part = "files" => FileInv

-------------------------------------------------------------------------------
(* The files of imports.                                                   *)

LEMMA InitFileInv == F!Init => FileInv
<1> SUFFICES ASSUME F!Init PROVE FileInv
  OBVIOUS
<1>1. F!TypeOK
  BY DEF F!Init, F!TypeOK, F!Idle
<1>2. \A w \in Worker : purge[w].at \notin stored
  BY DEF F!Init
<1>3. QED
  BY <1>1, <1>2, PlatformAssumption
     DEF F!Init, FileInv, F!EveryFileIsAccounted, NoneAssumption

\* Each step of an import, a purge or the end of the process.
LEMMA StepFileInv == FileInv /\ F!Next => FileInv'
<1> SUFFICES ASSUME FileInv, F!Next PROVE FileInv'
  OBVIOUS
<1> USE DEF FileInv, F!TypeOK, F!EveryFileIsAccounted, F!UnderWay, F!Goto
<1>0. None \notin File /\ None \notin {"parsed", "failed", "purged"}
  BY PlatformAssumption DEF NoneAssumption
<1>1. ASSUME NEW f \in File, F!WriteTemporary(f) PROVE FileInv'
  BY <1>0, <1>1 DEF F!WriteTemporary
<1>2. ASSUME NEW f \in File, F!Rename(f) PROVE FileInv'
  BY <1>0, <1>2 DEF F!Rename
<1>3. ASSUME NEW f \in File, F!Persist(f) PROVE FileInv'
  BY <1>0, <1>3 DEF F!Persist
<1>4. ASSUME NEW f \in File, NEW removes \in BOOLEAN,
             F!RenameFails(f, removes) \/ F!PersistFails(f, removes)
      PROVE  FileInv'
  <2>1. CASE F!RenameFails(f, removes)
    BY <1>0, <2>1 DEF F!RenameFails, F!Orphan
  <2>2. CASE F!PersistFails(f, removes)
    BY <1>0, <2>2 DEF F!PersistFails, F!AfterError, F!Orphan
  <2>3. QED
    BY <1>4, <2>1, <2>2
<1>5. ASSUME NEW f \in File, NEW fails \in BOOLEAN, F!Match(f, fails) PROVE FileInv'
  BY <1>0, <1>5 DEF F!Match
<1>6. ASSUME NEW f \in File, F!FallsDue(f) PROVE FileInv'
  BY <1>0, <1>6 DEF F!FallsDue
<1>7. ASSUME NEW w \in Worker, F!StartTimer(w) PROVE FileInv'
  BY <1>0, <1>7 DEF F!StartTimer, F!Expired
<1>8. ASSUME NEW w \in Worker, NEW f \in File, F!StartByUser(w, f) PROVE FileInv'
  BY <1>0, <1>8 DEF F!StartByUser
<1>9. ASSUME NEW w \in Worker, NEW f \in File, F!RemoveFile(w, f) PROVE FileInv'
  BY <1>0, <1>9 DEF F!RemoveFile, F!Removed
<1>10. ASSUME NEW w \in Worker, F!MarkPurged(w) PROVE FileInv'
  BY <1>0, <1>10 DEF F!MarkPurged
<1>11. ASSUME NEW w \in Worker, F!PurgeFails(w) PROVE FileInv'
  BY <1>0, <1>11 DEF F!PurgeFails, F!Idle
<1>12. ASSUME F!Crash PROVE FileInv'
  BY <1>0, <1>12 DEF F!Crash, F!Idle
<1>13. QED
  BY <1>1, <1>2, <1>3, <1>4, <1>5, <1>6, <1>7, <1>8, <1>9, <1>10, <1>11, <1>12 DEF F!Next

-------------------------------------------------------------------------------
(* Reminders.                                                              *)

\* The day of an hour is a number, and so is the day of a key.
LEMMA KeyIsNumber ==
    ASSUME NEW t \in Nat, NEW x \in R!Thing
    PROVE  R!Key(x, R!Day(t)) \in Nat /\ (x \in Once => R!Key(x, R!Day(t)) = 0)
<1>1. PerDay \in Nat \ {0} /\ Once \cap Daily = {}
  BY PlatformAssumption DEF RemindersAssumption
<1>2. t \div PerDay \in Nat
  BY <1>1
<1>3. QED
  BY <1>1, <1>2 DEF R!Key, R!Day, R!Thing

LEMMA InitReminderInv == R!Init => ReminderInv
<1> SUFFICES ASSUME R!Init PROVE ReminderInv
  OBVIOUS
<1>1. sent = [e \in {} |-> 1]
  BY DEF R!Init, R!EmptyBag, R!SetToBag
<1>2. R!IsABag(sent) /\ DOMAIN sent = {}
  BY <1>1 DEF R!IsABag
<1>3. 0 \in 0..Horizon
  BY PlatformAssumption DEF RemindersAssumption
<1>4. R!TypeOK
  BY <1>2, <1>3 DEF R!Init, R!TypeOK, R!Idle, R!BagToSet
<1>5. \A s \in Worker : scan[s].step = "idle"
  BY DEF R!Init, R!Idle
<1>6. QED
  BY <1>2, <1>4, <1>5 DEF R!Init, ReminderInv, R!SaidOnce, R!CooldownKept, R!BagToSet

\* A scan that begins or goes on is still a scan.
LEMMA OnwardType ==
    ASSUME NEW j \in R!Scanning, j.at <= now
    PROVE  /\ R!Onward(j) \in R!Scanning \cup {R!Idle}
           /\ R!Onward(j).step \in {"idle", "next"}
           /\ R!Onward(j) # R!Idle => R!Onward(j).at <= now
BY DEF R!Scanning, R!Onward, R!Idle

\* Reminders of one thing keep their distance: what is recorded now was decided when all
\* that is recorded was long ago.
LEMMA RecordKeepsCooldown ==
    ASSUME ReminderInv, NEW s \in Worker, R!RecordSent(s)
    PROVE  (R!CooldownKept)'
<1> DEFINE j == scan[s]
           rec == [thing |-> j.thing, day |-> R!Key(j.thing, R!Day(j.at)),
                   channel |-> j.channel, at |-> now]
<1>1. /\ j \in R!Scanning /\ j.thing \in R!Thing /\ j.at <= now /\ now \in Nat /\ j.at \in Nat
      /\ said \subseteq R!Record /\ together \subseteq together'
      /\ Cooldown \in Nat
  BY PlatformAssumption
     DEF ReminderInv, R!TypeOK, R!RecordSent, R!Scanning, R!Idle, RemindersAssumption
<1>2. CASE said' = said
  BY <1>1, <1>2 DEF ReminderInv, R!CooldownKept
<1>3. CASE said' = said \cup {rec} /\ R!RecordedLike(rec) = {}
  <2> SUFFICES ASSUME NEW r \in said', NEW q \in said', r # q, r.thing = q.thing,
                      r.channel = q.channel, r.thing \notin together'
               PROVE  r.at - q.at >= Cooldown \/ q.at - r.at >= Cooldown
    BY DEF R!CooldownKept
  <2>1. ASSUME NEW p \in said, p.thing = rec.thing, p.channel = rec.channel,
               rec.thing \notin together'
        PROVE  now - p.at >= Cooldown
    <3>1. p.day # rec.day /\ p.at \in Nat
      BY <1>1, <1>3, <2>1 DEF R!RecordedLike, R!Record
    <3>2. rec.thing \in Daily
      BY <1>1, <2>1, <3>1, KeyIsNumber DEF ReminderInv, R!Thing
    <3>3. R!Recent(j.thing, j.channel, j.at) = {}
      BY <1>1, <2>1, <3>2 DEF ReminderInv, R!RecordSent
    <3>4. ~(p.at > j.at - Cooldown)
      BY <2>1, <3>3 DEF R!Recent
    <3>5. QED
      BY <1>1, <3>1, <3>4
  <2>2. CASE r \in said /\ q \in said
    BY <1>1, <2>2 DEF ReminderInv, R!CooldownKept
  <2>3. CASE r = rec
    BY <1>3, <2>1, <2>3
  <2>4. CASE q = rec
    BY <1>3, <2>1, <2>4
  <2>5. QED
    BY <1>3, <2>2, <2>3, <2>4
<1>4. QED
  BY <1>2, <1>3 DEF R!RecordSent

\* A delivery adds a key that was not there.
LEMMA DeliverOnce ==
    ASSUME ReminderInv, NEW s \in Worker, NEW fails \in BOOLEAN, R!Deliver(s, fails)
    PROVE  /\ (R!SaidOnce)' /\ R!IsABag(sent')
           /\ DOMAIN sent' \subseteq DOMAIN sent \cup {KeyOf(s)}
<1>1. CASE sent' = sent
  BY <1>1 DEF ReminderInv, R!SaidOnce, R!TypeOK, R!BagToSet
<1>2. CASE sent' = R!(+)(sent, R!SetToBag({KeyOf(s)}))
  <2>1. sent' = [e \in DOMAIN sent \cup {KeyOf(s)} |->
                   (IF e \in DOMAIN sent THEN sent[e] ELSE 0) + (IF e = KeyOf(s) THEN 1 ELSE 0)]
    BY <1>2 DEF R!(+), R!SetToBag
  <2>2. KeyOf(s) \notin DOMAIN sent /\ \A e \in DOMAIN sent : sent[e] = 1
    BY DEF ReminderInv, R!Deliver, R!SaidOnce, R!BagToSet
  <2>3. \A e \in DOMAIN sent' : sent'[e] = 1
    BY <2>1, <2>2
  <2>4. DOMAIN sent' = DOMAIN sent \cup {KeyOf(s)}
    BY <2>1
  <2>5. sent' \in [DOMAIN sent \cup {KeyOf(s)} -> {n \in Nat : n > 0}]
    BY <2>1, <2>3, <2>4
  <2>6. QED
    BY <2>3, <2>4, <2>5 DEF R!SaidOnce, R!IsABag, R!BagToSet
<1>3. QED
  BY <1>1, <1>2 DEF R!Deliver, KeyOf

LEMMA StepReminderInv == ReminderInv /\ R!Next => ReminderInv'
<1> SUFFICES ASSUME ReminderInv, R!Next PROVE ReminderInv'
  OBVIOUS
<1> USE DEF ReminderInv, R!TypeOK
<1>0. /\ PerDay \in Nat \ {0} /\ Cooldown \in Nat /\ Horizon \in Nat
      /\ \A p \in Preferences : R!ChannelOf(p) # None => R!ChannelOf(p) \in R!Channel
      /\ None \notin R!Thing
  BY PlatformAssumption DEF NoneAssumption, RemindersAssumption, R!ChannelOf, R!Channel
<1>1. ASSUME NEW s \in Worker, R!Begin(s) PROVE ReminderInv'
  <2> DEFINE new == [step |-> "next", at |-> now, channel |-> R!ChannelOf(prefs),
                     todo |-> R!Candidates(now) \ prefs.muted, thing |-> None]
  <2>1. new \in R!Scanning
    BY <1>0, <1>1 DEF R!Begin, R!Candidates, R!Scanning
  <2>2. scan' = [scan EXCEPT ![s] = new] /\ UNCHANGED <<now, prefs, settled, said, sent, changed, together>>
    BY <1>1 DEF R!Begin
  <2>3. (R!TypeOK)'
    BY <2>1, <2>2
  <2>4. QED
    BY <2>2, <2>3 DEF R!SaidOnce, R!CooldownKept, R!Recent, KeyOf
<1>2. ASSUME NEW s \in Worker, NEW x \in R!Thing, R!Decide(s, x) PROVE ReminderInv'
  <2> DEFINE j == scan[s]
             rest == [j EXCEPT !.todo = @ \ {x}]
  <2>1. j \in R!Scanning /\ j.at <= now /\ rest \in R!Scanning /\ rest.at <= now
    BY <1>2 DEF R!Decide, R!Scanning, R!Idle
  <2>2. CASE R!Allowed(x, j.channel, j.at)
    <3> DEFINE new == [rest EXCEPT !.step = "record", !.thing = x]
    <3>1. scan' = [scan EXCEPT ![s] = new]
      BY <1>2, <2>2 DEF R!Decide
    <3>2. /\ new \in R!Scanning /\ new.thing = x /\ new.at = j.at /\ new.channel = j.channel
          /\ new.step = "record" /\ new.at <= now
      BY <2>1 DEF R!Scanning
    <3>3. (R!TypeOK)'
      BY <1>2, <3>1, <3>2, ZenonT(60) DEF R!Decide
    <3>4. x \in Daily => R!Recent(x, j.channel, j.at) = {}
      BY <2>2, PlatformAssumption DEF R!Allowed, RemindersAssumption
    <3> HIDE DEF new
    <3>5. UNCHANGED <<now, said, sent, together>>
      BY <1>2 DEF R!Decide
    <3>6. \A q \in Worker : scan'[q] = IF q = s THEN new ELSE scan[q]
      BY <3>1
    <3>7. \A q \in Worker : scan'[q].step = "deliver" =>
            q # s /\ scan[q].step = "deliver" /\ KeyOf(q)' = KeyOf(q)
      BY <3>2, <3>6 DEF KeyOf
    <3>8. \A q \in Worker : scan'[q].step = "record" /\ scan'[q].thing \in Daily \ together =>
            R!Recent(scan[q].thing, scan[q].channel, scan[q].at)' = {}
      BY <3>2, <3>4, <3>5, <3>6 DEF R!Recent
    <3>9. QED
      BY <3>3, <3>5, <3>7, <3>8, ZenonT(60) DEF R!SaidOnce, R!CooldownKept
  <2>3. CASE ~R!Allowed(x, j.channel, j.at)
    <3> DEFINE new == R!Onward(rest)
    <3>1. scan' = [scan EXCEPT ![s] = new]
      BY <1>2, <2>3 DEF R!Decide
    <3>2. /\ new \in R!Scanning \cup {R!Idle} /\ new.step \in {"idle", "next"}
          /\ new # R!Idle => new.at <= now
      BY <2>1, OnwardType
    <3> HIDE DEF new
    <3>3. (R!TypeOK)'
      BY <1>2, <3>1, <3>2, ZenonT(60) DEF R!Decide
    <3>4. UNCHANGED <<now, said, sent, together>>
      BY <1>2 DEF R!Decide
    <3>5. \A q \in Worker : scan'[q].step \in {"deliver", "record"} =>
            q # s /\ scan'[q] = scan[q] /\ KeyOf(q)' = KeyOf(q)
      BY <3>1, <3>2 DEF KeyOf
    <3>6. QED
      BY <3>3, <3>4, <3>5 DEF R!SaidOnce, R!CooldownKept, R!Recent
  <2>4. QED
    BY <2>2, <2>3

<1>3. ASSUME NEW s \in Worker, R!RecordSent(s) PROVE ReminderInv'
  <2> DEFINE j == scan[s]
             rec == [thing |-> j.thing, day |-> R!Key(j.thing, R!Day(j.at)),
                     channel |-> j.channel, at |-> now]
  <2>1. j \in R!Scanning /\ j.at <= now /\ j.thing \in R!Thing /\ now \in Nat
    BY <1>0, <1>3 DEF R!RecordSent, R!Scanning, R!Idle
  <2>2. /\ rec \in R!Record /\ KeyOfRecord(rec) = KeyOf(s)
        /\ rec.thing \in Once => rec.day = 0
    BY <2>1, KeyIsNumber DEF R!Scanning, R!Record, KeyOf, KeyOfRecord
  <2>3. /\ UNCHANGED <<now, prefs, settled, sent, changed>>
        /\ together \subseteq together' /\ together' \subseteq R!Thing
        /\ \A q \in Worker \ {s} :
              scan[q].step = "record" /\ scan[q].thing = j.thing => j.thing \in together'
    BY <1>3, <2>1 DEF R!RecordSent
  <2>4. (R!CooldownKept)'
    BY <1>3, RecordKeepsCooldown
  <2>5. CASE R!RecordedLike(rec) = {}
    <3> DEFINE new == [j EXCEPT !.step = "deliver"]
    <3>1. scan' = [scan EXCEPT ![s] = new] /\ said' = said \cup {rec}
      BY <1>3, <2>5 DEF R!RecordSent
    <3>2. \A r \in said : KeyOfRecord(r) # KeyOf(s)
      BY <2>2, <2>5 DEF R!RecordedLike, KeyOfRecord
    <3>3. KeyOf(s) \notin DOMAIN sent
      BY <3>2 DEF R!BagToSet, KeyOfRecord
    <3>4. new \in R!Scanning /\ new.thing = j.thing /\ new.at = j.at /\ new.channel = j.channel
          /\ new.step = "deliver"
      BY <2>1 DEF R!Scanning
    <3>5. (R!TypeOK)'
      BY <2>1, <2>2, <2>3, <3>1, <3>4
    <3>6. \A q \in Worker : KeyOf(q)' = KeyOf(q)
      BY <3>1, <3>4 DEF KeyOf
    <3>7. \A r, q \in said' : KeyOfRecord(r) = KeyOfRecord(q) => r = q
      BY <2>2, <3>1, <3>2
    <3>8. \A q \in Worker : scan'[q].step = "deliver" =>
            /\ \E r \in said' : KeyOf(q) = KeyOfRecord(r)
            /\ KeyOf(q) \notin DOMAIN sent
            /\ \A p \in Worker \ {q} : scan'[p].step = "deliver" => KeyOf(p) # KeyOf(q)
      BY <2>2, <3>1, <3>2, <3>3, <3>4
    <3>9. ASSUME NEW q \in Worker, scan'[q].step = "record", scan'[q].thing \in Daily \ together'
          PROVE  R!Recent(scan[q].thing, scan[q].channel, scan[q].at)' = {}
      <4>1. q # s /\ scan'[q] = scan[q]
        BY <3>1, <3>4, <3>9
      <4>2. scan[q].thing # j.thing /\ R!Recent(scan[q].thing, scan[q].channel, scan[q].at) = {}
        BY <2>3, <3>9, <4>1
      <4>3. QED
        BY <2>3, <3>1, <4>1, <4>2 DEF R!Recent
    <3>10. QED
      BY <2>2, <2>3, <2>4, <3>1, <3>5, <3>6, <3>7, <3>8, <3>9, SMTT(60) DEF R!SaidOnce
  <2>6. CASE R!RecordedLike(rec) # {}
    <3> DEFINE new == R!Onward(j)
    <3>1. scan' = [scan EXCEPT ![s] = new] /\ said' = said
      BY <1>3, <2>6 DEF R!RecordSent
    <3>2. /\ new \in R!Scanning \cup {R!Idle} /\ new.step \in {"idle", "next"}
          /\ new # R!Idle => new.at <= now
      BY <2>1, OnwardType
    <3> HIDE DEF new
    <3>3. (R!TypeOK)'
      BY <2>3, <3>1, <3>2
    <3>4. QED
      BY <2>3, <2>4, <3>1, <3>2, <3>3 DEF R!SaidOnce, R!Recent, KeyOf
  <2>7. QED
    BY <2>5, <2>6
<1>4. ASSUME NEW s \in Worker, NEW fails \in BOOLEAN, R!Deliver(s, fails) PROVE ReminderInv'
  <2> DEFINE new == R!Onward(scan[s])
  <2>1. scan[s] \in R!Scanning /\ scan[s].at <= now /\ scan[s].step = "deliver"
    BY <1>4 DEF R!Deliver, R!Scanning, R!Idle
  <2>2. /\ new \in R!Scanning \cup {R!Idle} /\ new.step \in {"idle", "next"}
        /\ new # R!Idle => new.at <= now
    BY <2>1, OnwardType
  <2>3. scan' = [scan EXCEPT ![s] = new] /\ UNCHANGED <<now, prefs, settled, said, changed, together>>
    BY <1>4 DEF R!Deliver
  <2> HIDE DEF new
  <2>4. /\ (R!SaidOnce)' /\ R!IsABag(sent') /\ DOMAIN sent' \subseteq DOMAIN sent \cup {KeyOf(s)}
    BY <1>4, DeliverOnce
  <2>5. DOMAIN sent' \subseteq {KeyOfRecord(r) : r \in said}
    BY <2>1, <2>4 DEF R!BagToSet, KeyOfRecord
  <2>6. (R!TypeOK)'
    BY <2>2, <2>3, <2>4, <2>5 DEF R!BagToSet, R!IsABag, KeyOfRecord
  <2>7. \A q \in Worker : scan'[q].step = "deliver" =>
          q # s /\ scan[q].step = "deliver" /\ KeyOf(q)' = KeyOf(q) /\ KeyOf(q) # KeyOf(s)
    BY <2>1, <2>2, <2>3 DEF KeyOf
  <2>8. \A q \in Worker : scan'[q].step = "deliver" =>
          /\ (\E r \in said : KeyOf(q) = KeyOfRecord(r))'
          /\ KeyOf(q)' \notin DOMAIN sent'
          /\ \A p \in Worker \ {q} : scan'[p].step = "deliver" => KeyOf(p)' # KeyOf(q)'
    BY <2>3, <2>4, <2>7
  <2>9. QED
    BY <2>2, <2>3, <2>4, <2>6, <2>8 DEF R!CooldownKept, R!Recent
<1>5. ASSUME NEW s \in Worker, R!End(s) PROVE ReminderInv'
  <2>1. scan' = [scan EXCEPT ![s] = R!Idle] /\ R!Idle.step = "idle"
    BY <1>5 DEF R!End, R!Idle
  <2>2. QED
    BY <1>5, <2>1 DEF R!End, R!SaidOnce, R!CooldownKept, R!Recent, KeyOf
<1>6. ASSUME R!Tick PROVE ReminderInv'
  <2>1. now' \in 0..Horizon /\ now' >= now /\ now \in Nat /\ \A r \in said : r.at \in Nat
    BY <1>0, <1>6 DEF R!Tick, R!Record
  <2>2. \A s \in Worker : scan[s] # R!Idle => scan[s].at \in Nat
    BY DEF R!Scanning
  <2>3. (R!TypeOK)'
    BY <1>6, <2>1, <2>2 DEF R!Tick
  <2>4. QED
    BY <1>6, <2>3 DEF R!Tick, R!SaidOnce, R!CooldownKept, R!Recent, KeyOf
<1>7. ASSUME NEW x \in R!Thing, R!Settle(x) PROVE ReminderInv'
  BY <1>7 DEF R!Settle, R!SaidOnce, R!CooldownKept, R!Recent, KeyOf
<1>8. ASSUME R!ChangePrefs PROVE ReminderInv'
  BY <1>8 DEF R!ChangePrefs, R!SaidOnce, R!CooldownKept, R!Recent, KeyOf
<1>9. QED
  BY <1>1, <1>2, <1>3, <1>4, <1>5, <1>6, <1>7, <1>8 DEF R!Next

\* How many hours b is after a, going round the clock.
LEMMA HoursRoundTheClock ==
    ASSUME NEW from \in 0..PerDay - 1, NEW to \in 0..PerDay - 1
    PROVE  R!HoursFrom(from, to) = IF from <= to THEN to - from ELSE to - from + PerDay
BY PlatformAssumption DEF R!HoursFrom, RemindersAssumption

\* A scan begins only outside the quiet hours, as they are counted on a clock.
LEMMA QuietKept == ReminderInv /\ R!Next => R!BeginsOutside
<1> SUFFICES ASSUME ReminderInv, R!Next, NEW s \in Worker, scan[s] = R!Idle, scan'[s] # R!Idle
             PROVE  R!HoursFrom(prefs.quietFrom, now % PerDay)
                        >= R!HoursFrom(prefs.quietFrom, prefs.quietTo)
  BY DEF R!BeginsOutside
<1>1. /\ prefs.quietFrom \in 0..PerDay - 1 /\ prefs.quietTo \in 0..PerDay - 1
      /\ PerDay \in Nat \ {0} /\ now \in Nat
  BY PlatformAssumption DEF ReminderInv, R!TypeOK, RemindersAssumption
<1>2. now % PerDay \in 0..PerDay - 1
  BY <1>1
<1>3. scan[s].step = "idle" /\ DOMAIN scan = Worker /\ R!Idle.step = "idle"
  BY DEF R!Idle, ReminderInv, R!TypeOK
<1>4. ASSUME NEW q \in Worker, R!Begin(q) PROVE ~R!IsQuiet(now)
  BY <1>4 DEF R!Begin
<1>5. ASSUME NEW q \in Worker, NEW x \in R!Thing, R!Decide(q, x) PROVE FALSE
  BY <1>3, <1>5 DEF R!Decide
<1>6. ASSUME NEW q \in Worker, R!RecordSent(q) PROVE FALSE
  BY <1>3, <1>6 DEF R!RecordSent
<1>7. ASSUME NEW q \in Worker, NEW fails \in BOOLEAN, R!Deliver(q, fails) PROVE FALSE
  BY <1>3, <1>7 DEF R!Deliver
<1>8. ASSUME NEW q \in Worker, R!End(q) PROVE FALSE
  BY <1>3, <1>8 DEF R!End
<1>9. ~R!IsQuiet(now)
  BY <1>4, <1>5, <1>6, <1>7, <1>8 DEF R!Next, R!Tick, R!Settle, R!ChangePrefs
<1>10. ~R!QuietHours(now % PerDay, prefs.quietFrom, prefs.quietTo)
  BY <1>9 DEF R!IsQuiet
<1>11. ASSUME NEW from \in 0..PerDay - 1, NEW to \in 0..PerDay - 1, NEW hour \in 0..PerDay - 1,
             ~R!QuietHours(hour, from, to)
       PROVE  R!HoursFrom(from, hour) >= R!HoursFrom(from, to)
  <2>1. R!HoursFrom(from, hour) = IF from <= hour THEN hour - from ELSE hour - from + PerDay
    BY HoursRoundTheClock
  <2>2. R!HoursFrom(from, to) = IF from <= to THEN to - from ELSE to - from + PerDay
    BY HoursRoundTheClock
  <2>3. QED
    BY <1>1, <1>11, <2>1, <2>2 DEF R!QuietHours
<1>12. QED
  BY <1>1, <1>2, <1>10, <1>11

-------------------------------------------------------------------------------
(* Who may come in: types, and what requests hold.                         *)

LEMMA InitAccessInv == X!Init => AccessInv
<1> SUFFICES ASSUME X!Init PROVE AccessInv
  OBVIOUS
<1>0. None \notin X!UserRow \cup X!SessionRow
  BY PlatformAssumption DEF NoneAssumption
<1>1. PICK m \in {"closed", "invite", "open"}, first \in User, s \in Session,
           new \in BOOLEAN, secured \in BOOLEAN :
        LET admin == [admin |-> TRUE, by |-> "setup"]
            theirs == [user |-> first, device |-> None, state |-> "live", by |-> <<"setup">>]
            has == {u \in User : u = first /\ secured /\ ~new}
        IN
        /\ mode = m
        /\ claimed = ~new
        /\ user = [u \in User |-> IF ~new /\ u = first THEN admin ELSE None]
        /\ invite = [i \in Invite |-> "none"]
        /\ challenge = [c \in Challenge |-> None]
        /\ passkeys = [u \in User |-> IF u \in has THEN 1 ELSE 0]
        /\ totp = has
        /\ codes = [u \in User |-> [c \in Code |-> IF u \in has THEN "fresh" ELSE "none"]]
        /\ session = [x \in Session |-> IF ~new /\ x = s THEN theirs ELSE None]
        /\ device = [d \in Device |-> None]
        /\ token = [k \in Discord |-> "none"]
        /\ link = [u \in User |-> None]
        /\ job = [w \in Worker |-> X!Idle]
        /\ asked = 0
        /\ crossed = {}
  BY DEF X!Init
<1> DEFINE admin == [admin |-> TRUE, by |-> "setup"]
           theirs == [user |-> first, device |-> None, state |-> "live", by |-> <<"setup">>]
           has == {u \in User : u = first /\ secured /\ ~new}
<1>2. admin \in X!UserRow /\ theirs \in X!SessionRow /\ X!Idle \in X!Job
  BY DEF X!UserRow, X!SessionRow, X!Grounds, X!Job, X!Idle
<1>4. X!TypeOK
  <2>1. passkeys \in [User -> 0..MaxPasskeys] /\ asked \in 0..MaxRequests
    BY <1>1, PlatformAssumption DEF AccessAssumption
  <2>2. codes \in [User -> [Code -> {"none", "fresh", "used"}]] /\ totp \subseteq User
    BY <1>1
  <2>3. QED
    BY <1>0, <1>1, <1>2, <2>1, <2>2 DEF X!TypeOK, X!Registered
<1>5. \A w \in Worker : job[w].op = "idle"
  BY <1>1 DEF X!Idle
<1>6. HeldIsThere /\ X!UsedOnce /\ X!NoSessionOnRevokedDevice /\ X!OneUserPerDiscord
  BY <1>0, <1>1, <1>2, <1>5
     DEF HeldIsThere, Holds, X!UsedOnce, X!Grants, X!GrantsUnderWay, X!NoSessionOnRevokedDevice,
         X!OneUserPerDiscord, X!Registered, X!IsActive
<1>7. AllIsSpent
  BY <1>0, <1>1, <1>2, <1>5, PlatformAssumption
     DEF AllIsSpent, Spent, X!Registered, AccessAssumption
<1>8. CodesAreMadeOnce
  BY <1>1, <1>5 DEF CodesAreMadeOnce, CodesMadeOnceFor, NoCodes, WillMakeCodes, X!SavingFor
<1>9. QED
  BY <1>4, <1>6, <1>7, <1>8 DEF AccessInv

\* What a request has in its hands is of its kind.
LEMMA JobTypes ==
    ASSUME NEW j \in X!Job
    PROVE  /\ j.op \in {"setup", "save", "enable", "count", "codes", "issue", "link"} => j.user \in User
           /\ j.op = "consume" => j.challenge \in Challenge
           /\ j.op = "issue" => j.by \in X!Grounds
           /\ j.op = "touch" => j.session \in Session
           /\ j.op \in {"register", "mutate", "look", "attach"} =>
                j.session \in Session /\ j.device \in Device
           /\ j.op = "link" => j.discord \in Discord
BY DEF X!Job

LEMMA JobShapes ==
    /\ X!Idle \in X!Job /\ X!Idle.op = "idle"
    /\ \A u \in User, op \in {"setup", "save", "enable", "count", "codes"} :
        [op |-> op, user |-> u] \in X!Job
    /\ \A c \in Challenge : [op |-> "consume", challenge |-> c] \in X!Job
    /\ \A u \in User, by \in X!Grounds : [op |-> "issue", user |-> u, by |-> by] \in X!Job
    /\ \A s \in Session : [op |-> "touch", session |-> s] \in X!Job
    /\ \A s \in Session, d \in Device, op \in {"register", "mutate", "look", "attach"} :
        [op |-> op, session |-> s, device |-> d] \in X!Job
    /\ \A u \in User, k \in Discord : [op |-> "link", user |-> u, discord |-> k] \in X!Job
BY DEF X!Job, X!Idle

\* The grounds of a session.
LEMMA GroundShapes ==
    /\ <<"setup">> \in X!Grounds /\ <<"password">> \in X!Grounds
    /\ \A i \in Invite : <<"invite", i>> \in X!Grounds
    /\ \A c \in Challenge : <<"challenge", c>> \in X!Grounds
    /\ \A u \in User, c \in Code : <<"recovery", u, c>> \in X!Grounds
BY DEF X!Grounds

\* Which steps write which tables: all others leave them alone.
PeopleStep ==
    \/ \E w \in Worker, u \in User : X!RegisterOpenly(w, u)
    \/ \E w \in Worker, u \in User, i \in Invite : X!RegisterByInvite(w, u, i)
    \/ \E w \in Worker, i \in Invite : X!CreateInvite(w, i)
    \/ \E w \in Worker : X!FinishSetup(w)
    \/ \E i \in Invite : X!RevokeInvite(i)
ChallengeStep ==
    \/ \E w \in Worker, u \in User, c \in Challenge :
        \/ \E kind \in {"registration", "totp", "authentication"} : X!Offer(w, c, u, kind)
        \/ X!LoginByPassword(w, u, c)
    \/ \E w \in Worker : X!Consume(w)
    \/ \E c \in Challenge : X!ChallengeExpires(c)
PasskeyStep ==
    \E w \in Worker :
        \/ X!EnableTotp(w) \/ X!SavePasskey(w) \/ X!ReplaceRecoveryCodes(w)
        \/ \E u \in User, c \in Code : X!LoginByRecoveryCode(w, u, c)
SessionStep ==
    \/ \E w \in Worker : X!IssueSession(w) \/ X!Attach(w) \/ X!Touch(w)
    \/ \E w \in Worker, s \in Session : X!RevokeSession(w, s)
    \/ \E s \in Session : X!SessionExpires(s) \/ X!GoesIdle(s)
DeviceStep ==
    \E w \in Worker :
        \/ X!RegisterDevice(w) \/ X!CheckDevice(w)
        \/ \E d \in Device : X!RevokeDevice(w, d)
DiscordStep ==
    \/ \E w \in Worker, u \in User, k \in Discord : X!ConsumeLinkToken(w, u, k)
    \/ \E w \in Worker, u \in User : X!RevokeLink(w, u)
    \/ \E w \in Worker : X!SaveLink(w)
    \/ \E k \in Discord : X!CreateLinkToken(k)

LEMMA TablesWritten ==
    ASSUME X!Next
    PROVE  /\ mode' = mode
           /\ PeopleStep \/ UNCHANGED <<claimed, user, invite>>
           /\ ChallengeStep \/ UNCHANGED challenge
           /\ PasskeyStep \/ UNCHANGED <<passkeys, totp, codes>>
           /\ SessionStep \/ DeviceStep \/ UNCHANGED <<session, device>>
           /\ DiscordStep \/ UNCHANGED <<token, link>>
<1> DEFINE Kept ==
        /\ mode' = mode
        /\ PeopleStep \/ UNCHANGED <<claimed, user, invite>>
        /\ ChallengeStep \/ UNCHANGED challenge
        /\ PasskeyStep \/ UNCHANGED <<passkeys, totp, codes>>
        /\ SessionStep \/ DeviceStep \/ UNCHANGED <<session, device>>
        /\ DiscordStep \/ UNCHANGED <<token, link>>
<1> USE DEF X!Start, X!Doing, X!people, X!secrets, X!places, X!links
<1>1. ASSUME NEW w \in Worker, X!UserStep(w) PROVE Kept
  BY <1>1 DEF X!UserStep, X!BeginSetup, X!RegisterOpenly, X!RegisterByInvite, X!CreateInvite,
              X!FinishSetup, PeopleStep
<1>2. ASSUME NEW w \in Worker, X!SignInStep(w) PROVE Kept
  <2>1. ASSUME ChallengeStep PROVE Kept
    BY <2>1 DEF ChallengeStep, X!Offer, X!LoginByPassword, X!Consume, X!ChallengeExpires
  <2>2. ASSUME PasskeyStep PROVE Kept
    BY <2>2 DEF PasskeyStep, X!EnableTotp, X!SavePasskey, X!ReplaceRecoveryCodes,
                X!LoginByRecoveryCode
  <2>3. ASSUME X!IssueSession(w) PROVE Kept
    BY <2>3 DEF X!IssueSession, SessionStep
  <2>4. ASSUME X!CountPasskeys(w) PROVE Kept
    BY <2>4 DEF X!CountPasskeys
  <2>5. ASSUME NEW c \in Challenge, X!ReadChallenge(w, c) PROVE Kept
    BY <2>5 DEF X!ReadChallenge
  <2>6. QED
    BY <1>2, <2>1, <2>2, <2>3, <2>4, <2>5 DEF X!SignInStep, ChallengeStep, PasskeyStep
<1>3. ASSUME NEW w \in Worker, X!PlaceStep(w) PROVE Kept
  <2>1. ASSUME SessionStep PROVE Kept
    BY <2>1 DEF SessionStep, X!IssueSession, X!Attach, X!RevokeSession, X!SessionExpires,
                X!GoesIdle, X!Touch
  <2>2. ASSUME DeviceStep PROVE Kept
    BY <2>2 DEF DeviceStep, X!RegisterDevice, X!CheckDevice, X!RevokeDevice
  <2>3. ASSUME NEW s \in Session, NEW d \in Device, NEW op \in {"register", "mutate"},
               X!BeginDevice(w, s, d, op)
        PROVE  Kept
    BY <2>3 DEF X!BeginDevice
  <2>4. ASSUME X!LookAtDevice(w) PROVE Kept
    BY <2>4 DEF X!LookAtDevice
  <2>5. ASSUME NEW s \in Session, X!Resolve(w, s) PROVE Kept
    BY <2>5 DEF X!Resolve
  <2>6. QED
    BY <1>3, <2>1, <2>2, <2>3, <2>4, <2>5 DEF X!PlaceStep, SessionStep, DeviceStep
<1>4. ASSUME NEW w \in Worker, X!LinkStep(w) PROVE Kept
  BY <1>4 DEF X!LinkStep, X!ConsumeLinkToken, X!OAuthCallback, X!RevokeLink, X!SaveLink, DiscordStep
<1>5. ASSUME NEW w \in Worker, X!Crash(w) PROVE Kept
  BY <1>5 DEF X!Crash
<1>6. ASSUME NEW i \in Invite, X!RevokeInvite(i) PROVE Kept
  BY <1>6 DEF X!RevokeInvite, PeopleStep
<1>7. ASSUME NEW c \in Challenge, X!ChallengeExpires(c) PROVE Kept
  BY <1>7 DEF X!ChallengeExpires, ChallengeStep
<1>8. ASSUME NEW s \in Session, X!SessionExpires(s) \/ X!GoesIdle(s) PROVE Kept
  BY <1>8 DEF X!SessionExpires, X!GoesIdle, SessionStep
<1>9. ASSUME NEW k \in Discord, X!CreateLinkToken(k) PROVE Kept
  BY <1>9 DEF X!CreateLinkToken, DiscordStep
<1>10. QED
  BY <1>1, <1>2, <1>3, <1>4, <1>5, <1>6, <1>7, <1>8, <1>9 DEF X!Next

\* The tables keep their types.  Users and what is used up stay, and rows stay whose.
LEMMA PeopleKept ==
    ASSUME X!TypeOK, X!Next
    PROVE  /\ claimed' \in BOOLEAN
           /\ user' \in [User -> X!UserRow \cup {None}]
           /\ invite' \in [Invite -> {"none", "open", "used", "revoked"}]
           /\ claimed => claimed'
           /\ \A u \in User : X!Registered(u) => X!Registered(u)' /\ user'[u] = user[u]
           /\ \A i \in Invite : invite[i] = "used" => invite'[i] = "used"
<1> DEFINE Kept ==
        /\ claimed' \in BOOLEAN
        /\ user' \in [User -> X!UserRow \cup {None}]
        /\ invite' \in [Invite -> {"none", "open", "used", "revoked"}]
        /\ claimed => claimed'
        /\ \A u \in User : user[u] # None => user'[u] = user[u]
        /\ \A i \in Invite : invite[i] = "used" => invite'[i] = "used"
<1>1. /\ claimed \in BOOLEAN
      /\ user \in [User -> X!UserRow \cup {None}]
      /\ invite \in [Invite -> {"none", "open", "used", "revoked"}]
      /\ job \in [Worker -> X!Job]
  BY DEF X!TypeOK
<1>2. /\ \A i \in Invite : [admin |-> FALSE, by |-> i] \in X!UserRow
      /\ [admin |-> FALSE, by |-> "open"] \in X!UserRow
      /\ [admin |-> TRUE, by |-> "setup"] \in X!UserRow
  BY DEF X!UserRow
<1>3. ASSUME NEW w \in Worker, NEW u \in User, X!RegisterOpenly(w, u) PROVE Kept
  BY <1>1, <1>2, <1>3 DEF X!RegisterOpenly, X!Registered
<1>4. ASSUME NEW w \in Worker, NEW u \in User, NEW i \in Invite, X!RegisterByInvite(w, u, i)
      PROVE  Kept
  BY <1>1, <1>2, <1>4 DEF X!RegisterByInvite, X!Registered
<1>5. ASSUME NEW w \in Worker, NEW i \in Invite, X!CreateInvite(w, i) PROVE Kept
  BY <1>1, <1>5 DEF X!CreateInvite
<1>6. ASSUME NEW w \in Worker, X!FinishSetup(w) PROVE Kept
  <2>1. job[w].user \in User
    BY <1>1, <1>6, JobTypes DEF X!FinishSetup, X!Doing
  <2>2. CASE ~claimed /\ ~X!Registered(job[w].user)
    BY <1>1, <1>2, <1>6, <2>1, <2>2 DEF X!FinishSetup, X!Registered
  <2>3. CASE ~(~claimed /\ ~X!Registered(job[w].user))
    BY <1>1, <1>6, <2>3 DEF X!FinishSetup
  <2>4. QED
    BY <2>2, <2>3
<1>7. ASSUME NEW i \in Invite, X!RevokeInvite(i) PROVE Kept
  BY <1>1, <1>7 DEF X!RevokeInvite
<1>8. ASSUME UNCHANGED <<claimed, user, invite>> PROVE Kept
  BY <1>1, <1>8
<1>9. Kept
  BY <1>3, <1>4, <1>5, <1>6, <1>7, <1>8, TablesWritten DEF PeopleStep
<1>10. QED
  BY <1>9 DEF X!Registered

LEMMA ChallengesKept ==
    ASSUME X!TypeOK, HeldIsThere, X!Next
    PROVE  /\ challenge' \in [Challenge -> X!ChallengeRow \cup {None}]
           /\ \A c \in Challenge : challenge[c] # None =>
                /\ challenge'[c] # None
                /\ challenge[c].state = "used" => challenge'[c] = challenge[c]
           /\ (\A c \in Challenge : challenge[c] # None => X!Registered(challenge[c].user))'
<1> DEFINE Kept ==
        /\ challenge' \in [Challenge -> X!ChallengeRow \cup {None}]
        /\ \A c \in Challenge : challenge[c] # None =>
             /\ challenge'[c] # None
             /\ challenge[c].state = "used" => challenge'[c] = challenge[c]
        /\ \A c \in Challenge : challenge'[c] # None =>
             challenge'[c].user \in User /\ X!Registered(challenge'[c].user)
<1>0. None \notin X!ChallengeRow
  BY PlatformAssumption DEF NoneAssumption
<1>1. /\ challenge \in [Challenge -> X!ChallengeRow \cup {None}]
      /\ \A c \in Challenge : challenge[c] # None =>
            challenge[c] \in X!ChallengeRow /\ challenge[c].user \in User
               /\ X!Registered(challenge[c].user)
      /\ job \in [Worker -> X!Job]
  BY DEF X!TypeOK, X!ChallengeRow
<1>2. /\ \A u \in User, kind \in {"registration", "totp", "authentication", "totp_login"} :
            [kind |-> kind, user |-> u, state |-> "open"] \in X!ChallengeRow
      /\ \A r \in X!ChallengeRow, state \in {"used", "expired"} :
            /\ [r EXCEPT !.state = state] \in X!ChallengeRow
            /\ [r EXCEPT !.state = state].user = r.user
  BY DEF X!ChallengeRow
<1>3. ASSUME NEW w \in Worker, NEW u \in User, NEW c \in Challenge,
             NEW kind \in {"registration", "totp", "authentication"}, X!Offer(w, c, u, kind)
      PROVE  Kept
  BY <1>0, <1>1, <1>2, <1>3 DEF X!Offer
<1>4. ASSUME NEW w \in Worker, NEW u \in User, NEW c \in Challenge, X!LoginByPassword(w, u, c)
      PROVE  Kept
  <2> DEFINE row == [kind |-> "totp_login", user |-> u, state |-> "open"]
  <2>1. CASE u \in totp
    <3>1. row \in X!ChallengeRow /\ row.user = u
      BY <1>2
    <3>2. challenge' = [challenge EXCEPT ![c] = row] /\ challenge[c] = None /\ X!Registered(u)
      BY <1>4, <2>1 DEF X!LoginByPassword
    <3> HIDE DEF row
    <3>3. QED
      BY <1>0, <1>1, <3>1, <3>2
  <2>2. CASE u \notin totp
    BY <1>1, <1>4, <2>2 DEF X!LoginByPassword
  <2>3. QED
    BY <2>1, <2>2
<1>5. ASSUME NEW w \in Worker, X!Consume(w) PROVE Kept
  <2> DEFINE c == job[w].challenge
  <2>1. c \in Challenge /\ challenge[c] # None
    BY <1>1, <1>5, JobTypes DEF X!Consume, X!Doing, HeldIsThere, Holds
  <2>2. CASE X!Unused(c)
    <3>1. challenge' = [challenge EXCEPT ![c].state = "used"]
      BY <1>5, <2>2 DEF X!Consume
    <3>2. QED
      BY <1>0, <1>1, <1>2, <2>1, <2>2, <3>1, ZenonT(60) DEF X!Unused
  <2>3. CASE ~X!Unused(c)
    BY <1>1, <1>5, <2>3 DEF X!Consume
  <2>4. QED
    BY <2>2, <2>3
<1>6. ASSUME NEW c \in Challenge, X!ChallengeExpires(c) PROVE Kept
  <2>1. challenge' = [challenge EXCEPT ![c].state = "expired"]
        /\ challenge[c] # None /\ challenge[c].state = "open"
    BY <1>6 DEF X!ChallengeExpires
  <2>2. QED
    BY <1>0, <1>1, <1>2, <2>1
<1>7. ASSUME UNCHANGED challenge PROVE Kept
  BY <1>1, <1>7
<1>8. Kept
  BY <1>3, <1>4, <1>5, <1>6, <1>7, TablesWritten DEF ChallengeStep
<1>9. QED
  BY <1>8, PeopleKept DEF X!Registered

LEMMA PasskeysKept ==
    ASSUME X!TypeOK, X!Next
    PROVE  /\ passkeys' \in [User -> 0..MaxPasskeys]
           /\ totp' \subseteq User
           /\ codes' \in [User -> [Code -> {"none", "fresh", "used"}]]
<1> DEFINE Kept ==
        /\ passkeys' \in [User -> 0..MaxPasskeys]
        /\ totp' \subseteq User
        /\ codes' \in [User -> [Code -> {"none", "fresh", "used"}]]
<1>1. /\ passkeys \in [User -> 0..MaxPasskeys] /\ totp \subseteq User
      /\ codes \in [User -> [Code -> {"none", "fresh", "used"}]]
      /\ job \in [Worker -> X!Job] /\ MaxPasskeys \in Nat
  BY PlatformAssumption DEF X!TypeOK, AccessAssumption
<1>2. ASSUME NEW w \in Worker, X!EnableTotp(w) PROVE Kept
  <2>1. job[w].user \in User
    BY <1>1, <1>2, JobTypes DEF X!EnableTotp, X!Doing
  <2>2. QED
    BY <1>1, <1>2, <2>1 DEF X!EnableTotp
<1>3. ASSUME NEW w \in Worker, X!SavePasskey(w) PROVE Kept
  <2>1. job[w].user \in User
    BY <1>1, <1>3, JobTypes DEF X!SavePasskey, X!Doing
  <2>2. QED
    BY <1>1, <1>3, <2>1 DEF X!SavePasskey
<1>4. ASSUME NEW w \in Worker, X!ReplaceRecoveryCodes(w) PROVE Kept
  <2>1. [c \in Code |-> "fresh"] \in [Code -> {"none", "fresh", "used"}]
    OBVIOUS
  <2>2. QED
    BY <1>1, <1>4, <2>1 DEF X!ReplaceRecoveryCodes
<1>5. ASSUME NEW w \in Worker, NEW u \in User, NEW c \in Code, X!LoginByRecoveryCode(w, u, c)
      PROVE  Kept
  <2>1. [codes[u] EXCEPT ![c] = "used"] \in [Code -> {"none", "fresh", "used"}]
    BY <1>1
  <2>2. QED
    BY <1>1, <1>5, <2>1 DEF X!LoginByRecoveryCode
<1>6. ASSUME UNCHANGED <<passkeys, totp, codes>> PROVE Kept
  BY <1>1, <1>6
<1>7. QED
  BY <1>2, <1>3, <1>4, <1>5, <1>6, TablesWritten DEF PasskeyStep

\* Time and requests age a session, or make an idle one live again.
LEMMA SessionsAge ==
    ASSUME X!TypeOK, HeldIsThere,
           \/ \E w \in Worker : X!Touch(w) \/ \E s \in Session : X!RevokeSession(w, s)
           \/ \E s \in Session : X!SessionExpires(s) \/ X!GoesIdle(s)
    PROVE  /\ \E s \in Session, state \in {"live", "idle", "expired", "revoked"} :
                /\ session[s] # None
                /\ state \in {"live", "idle"} => X!IsActive(s)
                /\ session' = [session EXCEPT ![s].state = state]
           /\ device' = device
<1> DEFINE Goal == /\ \E s \in Session, state \in {"live", "idle", "expired", "revoked"} :
                        /\ session[s] # None
                        /\ state \in {"live", "idle"} => X!IsActive(s)
                        /\ session' = [session EXCEPT ![s].state = state]
                   /\ device' = device
<1>1. ASSUME NEW w \in Worker, X!Touch(w) PROVE Goal
  <2>1. PICK s : s = job[w].session
    OBVIOUS
  <2>2. s \in Session /\ session[s] # None
    BY <1>1, <2>1, JobTypes DEF X!Touch, X!Doing, HeldIsThere, Holds, X!TypeOK
  <2>3. session[s].state \in {"live", "idle", "expired", "revoked"}
    BY <2>2 DEF X!TypeOK, X!SessionRow
  <2>4. /\ device' = device
        /\ session' = [session EXCEPT ![s].state =
                          IF session[s].state = "idle" THEN "live" ELSE session[s].state]
    BY <1>1, <2>1 DEF X!Touch
  <2>5. QED
    BY <2>2, <2>3, <2>4 DEF X!IsActive
<1>2. ASSUME NEW w \in Worker, NEW s \in Session, X!RevokeSession(w, s) PROVE Goal
  BY <1>2 DEF X!RevokeSession
<1>3. ASSUME NEW s \in Session, X!SessionExpires(s) PROVE Goal
  BY <1>3 DEF X!SessionExpires, X!IsActive
<1>4. ASSUME NEW s \in Session, X!GoesIdle(s) PROVE Goal
  BY <1>4 DEF X!GoesIdle, X!IsLive, X!IsActive
<1>5. QED
  BY <1>1, <1>2, <1>3, <1>4

\* Sessions and devices stay, whose they are, and what was ended stays ended.
SameSession(old, new) ==
    /\ new # None
    /\ new.user = old.user /\ new.by = old.by
    /\ old.state \in {"expired", "revoked"} => new.state \in {"expired", "revoked"}
SameDevice(old, new) ==
    /\ new # None
    /\ new.user = old.user
    /\ old.revoked => new.revoked
SessionInPlace(row) ==
    /\ X!Registered(row.user)
    /\ row.device # None =>
        row.device \in Device /\ device[row.device] # None /\ device[row.device].user = row.user

LEMMA PlacesKept ==
    ASSUME X!TypeOK, HeldIsThere, X!Next
    PROVE  /\ session' \in [Session -> X!SessionRow \cup {None}]
           /\ device' \in [Device -> X!DeviceRow \cup {None}]
           /\ \A s \in Session : session[s] # None => SameSession(session[s], session'[s])
           /\ \A d \in Device : device[d] # None => SameDevice(device[d], device'[d])
           /\ (\A s \in Session : session[s] # None => SessionInPlace(session[s]))'
<1> DEFINE DevicesStay ==
             /\ device' \in [Device -> X!DeviceRow \cup {None}]
             /\ \A d \in Device : device[d] # None => SameDevice(device[d], device'[d])
           SessionsStay ==
             /\ session' \in [Session -> X!SessionRow \cup {None}]
             /\ \A s \in Session : session[s] # None => SameSession(session[s], session'[s])
             /\ \A s \in Session : session'[s] # None => SessionInPlace(session'[s])
<1>0. None \notin X!SessionRow /\ None \notin X!DeviceRow /\ None \notin Device
  BY PlatformAssumption DEF NoneAssumption
<1>1. /\ session \in [Session -> X!SessionRow \cup {None}]
      /\ device \in [Device -> X!DeviceRow \cup {None}]
      /\ job \in [Worker -> X!Job]
      /\ \A s \in Session : session[s] # None =>
            session[s] \in X!SessionRow /\ session[s].user \in User /\ SessionInPlace(session[s])
  BY DEF X!TypeOK, X!SessionRow, SessionInPlace
<1>2. /\ \A u \in User, by \in X!Grounds :
            [user |-> u, device |-> None, state |-> "live", by |-> by] \in X!SessionRow
      /\ \A r \in X!SessionRow, state \in {"live", "idle", "expired", "revoked"} :
            LET new == [r EXCEPT !.state = state] IN
            (state \in {"live", "idle"} => r.state \in {"live", "idle"}) =>
                new \in X!SessionRow /\ SameSession(r, new) /\ new.device = r.device
      /\ \A r \in X!SessionRow, d \in Device :
            LET new == [r EXCEPT !.device = d] IN
            new \in X!SessionRow /\ SameSession(r, new) /\ new.device = d
      /\ \A r \in X!SessionRow : SameSession(r, r)
  BY <1>0 DEF X!SessionRow, SameSession
<1>3. /\ \A u \in User : [user |-> u, revoked |-> FALSE] \in X!DeviceRow
      /\ \A r \in X!DeviceRow :
            LET new == [r EXCEPT !.revoked = TRUE] IN new \in X!DeviceRow /\ SameDevice(r, new)
      /\ \A r \in X!DeviceRow : SameDevice(r, r)
  BY <1>0 DEF X!DeviceRow, SameDevice
<1>4. ASSUME UNCHANGED device PROVE DevicesStay
  BY <1>1, <1>3, <1>4
<1>5. ASSUME UNCHANGED session PROVE SessionsStay
  BY <1>1, <1>2, <1>5
<1>6. ASSUME NEW w \in Worker, X!IssueSession(w) PROVE SessionsStay
  <2>1. job[w].user \in User /\ job[w].by \in X!Grounds /\ X!Registered(job[w].user)
    BY <1>1, <1>6, JobTypes DEF X!IssueSession, X!Doing, HeldIsThere, Holds
  <2> DEFINE row == [user |-> job[w].user, device |-> None, state |-> "live", by |-> job[w].by]
  <2>2. row \in X!SessionRow /\ SessionInPlace(row)
    BY <1>2, <2>1 DEF SessionInPlace
  <2>3. PICK s \in Session : session[s] = None /\ session' = [session EXCEPT ![s] = row]
    BY <1>6 DEF X!IssueSession
  <2> HIDE DEF row
  <2>4. QED
    BY <1>1, <1>2, <2>2, <2>3
<1>7. ASSUME NEW w \in Worker, X!Attach(w) PROVE SessionsStay
  <2> DEFINE s == job[w].session
             d == job[w].device
             row == [session[s] EXCEPT !.device = d]
  <2>1. /\ s \in Session /\ session[s] # None /\ d \in Device
        /\ device[d] # None /\ device[d].user = session[s].user
    BY <1>1, <1>7, JobTypes DEF X!Attach, X!Doing, HeldIsThere, Holds
  <2>2. session' = [session EXCEPT ![s] = row]
    BY <1>7 DEF X!Attach
  <2>3. row \in X!SessionRow /\ SameSession(session[s], row) /\ row.device = d
    BY <1>1, <1>2, <2>1
  <2>4. SessionInPlace(row)
    BY <1>1, <2>1, <2>3 DEF SessionInPlace, SameSession
  <2> HIDE DEF row, s
  <2>5. QED
    BY <1>1, <1>2, <2>1, <2>2, <2>3, <2>4
<1>8. ASSUME NEW s \in Session, session[s] # None,
             NEW state \in {"live", "idle", "expired", "revoked"},
             state \in {"live", "idle"} => X!IsActive(s),
             session' = [session EXCEPT ![s].state = state]
      PROVE  SessionsStay
  <2> DEFINE row == [session[s] EXCEPT !.state = state]
  <2>1. row \in X!SessionRow /\ SameSession(session[s], row) /\ row.device = session[s].device
    BY <1>1, <1>2, <1>8 DEF X!IsActive
  <2>2. SessionInPlace(row)
    BY <1>1, <1>8, <2>1 DEF SessionInPlace, SameSession
  <2>3. session' = [session EXCEPT ![s] = row]
    BY <1>8
  <2> HIDE DEF row
  <2>4. QED
    BY <1>1, <1>2, <2>1, <2>2, <2>3
<1>9. ASSUME NEW w \in Worker, NEW d \in Device, X!RevokeDevice(w, d)
      PROVE  DevicesStay /\ SessionsStay
  <2> DEFINE row == [device[d] EXCEPT !.revoked = TRUE]
             over(s) == [session[s] EXCEPT !.state = "revoked"]
  <2>1. row \in X!DeviceRow /\ SameDevice(device[d], row) /\ device' = [device EXCEPT ![d] = row]
    BY <1>1, <1>3, <1>9 DEF X!RevokeDevice
  <2>2. DevicesStay
    <3> HIDE DEF row
    <3>1. QED
      BY <1>1, <1>3, <2>1
  <2>3. /\ session' \in [Session -> X!SessionRow \cup {None}]
        /\ \A s \in Session : session'[s] = session[s] \/ (session[s] # None /\ session'[s] = over(s))
    <3>1. session' = [s \in Session |-> IF session[s] # None /\ session[s].device = d
                                           /\ session[s].user = device[d].user
                                        THEN over(s) ELSE session[s]]
      BY <1>9 DEF X!RevokeDevice, X!SessionsOfDevice
    <3>2. \A s \in Session : session[s] # None => over(s) \in X!SessionRow
      BY <1>1, <1>2
    <3> HIDE DEF over
    <3>3. QED
      BY <1>1, <3>1, <3>2
  <2>4. \A s \in Session : session[s] # None =>
            /\ SameSession(session[s], over(s)) /\ over(s).device = session[s].device
            /\ SessionInPlace(over(s))
    <3>1. \A s \in Session : session[s] # None =>
            SameSession(session[s], over(s)) /\ over(s).device = session[s].device
      BY <1>1, <1>2
    <3> HIDE DEF over
    <3>2. QED
      BY <1>1, <3>1 DEF SessionInPlace, SameSession
  <2>5. SessionsStay
    <3> HIDE DEF over
    <3>1. QED
      BY <1>1, <1>2, <2>3, <2>4
  <2>6. QED
    BY <2>2, <2>5
<1>10. ASSUME NEW w \in Worker, X!RegisterDevice(w) \/ X!CheckDevice(w) PROVE DevicesStay
  <2> DEFINE u == session[job[w].session].user
             d == job[w].device
             row == [user |-> u, revoked |-> FALSE]
  <2>1. d \in Device /\ u \in User
    BY <1>1, <1>10, JobTypes DEF X!RegisterDevice, X!CheckDevice, X!Doing, HeldIsThere, Holds
  <2>2. row \in X!DeviceRow /\ row.user = u /\ ~row.revoked
    BY <1>3, <2>1
  <2>3. CASE X!Registrable(u, d)
    <3>1. device' = [device EXCEPT ![d] = row]
      BY <1>10, <2>3 DEF X!RegisterDevice, X!CheckDevice
    <3>2. device[d] # None => SameDevice(device[d], row)
      BY <1>0, <2>2, <2>3 DEF X!Registrable, X!DeviceIsActive, SameDevice
    <3> HIDE DEF row, d
    <3>3. QED
      BY <1>1, <1>3, <2>1, <2>2, <3>1, <3>2
  <2>4. CASE ~X!Registrable(u, d)
    BY <1>1, <1>3, <1>10, <2>4 DEF X!RegisterDevice, X!CheckDevice
  <2>5. QED
    BY <2>3, <2>4
<1>11. DevicesStay
  <2>1. ASSUME SessionStep PROVE UNCHANGED device
    BY <2>1 DEF SessionStep, X!IssueSession, X!Attach, X!RevokeSession, X!SessionExpires,
                X!GoesIdle, X!Touch
  <2>2. QED
    BY <2>1, <1>4, <1>9, <1>10, TablesWritten DEF DeviceStep
<1>12. SessionsStay
  <2>1. ASSUME \/ \E w \in Worker : X!Touch(w) \/ \E s \in Session : X!RevokeSession(w, s)
               \/ \E s \in Session : X!SessionExpires(s) \/ X!GoesIdle(s)
        PROVE  SessionsStay
    BY <1>8, <2>1, SessionsAge
  <2>2. ASSUME NEW w \in Worker, X!RegisterDevice(w) \/ X!CheckDevice(w) PROVE UNCHANGED session
    BY <2>2 DEF X!RegisterDevice, X!CheckDevice
  <2>3. QED
    BY <1>5, <1>6, <1>7, <1>9, <2>1, <2>2, TablesWritten DEF SessionStep, DeviceStep
<1>13. (\A s \in Session : session[s] # None => SessionInPlace(session[s]))'
  <2>1. \A u \in User : X!Registered(u) => user'[u] # None
    BY PeopleKept DEF X!Registered
  <2>2. \A s \in Session : session'[s] # None => session'[s].user \in User
    BY <1>0, <1>12 DEF X!SessionRow
  <2>3. QED
    BY <1>11, <1>12, <2>1, <2>2 DEF SessionInPlace, SameDevice, X!Registered
<1>14. QED
  BY <1>11, <1>12, <1>13

LEMMA LinksKept ==
    ASSUME X!TypeOK, HeldIsThere, X!Next
    PROVE  /\ token' \in [Discord -> {"none", "open", "used"}]
           /\ link' \in [User -> X!LinkRow \cup {None}]
           /\ (\A u \in User : link[u] # None => X!Registered(u))'
<1> DEFINE Kept ==
        /\ token' \in [Discord -> {"none", "open", "used"}]
        /\ link' \in [User -> X!LinkRow \cup {None}]
        /\ \A u \in User : link'[u] # None => X!Registered(u)
<1>0. None \notin X!LinkRow
  BY PlatformAssumption DEF NoneAssumption
<1>1. /\ token \in [Discord -> {"none", "open", "used"}]
      /\ link \in [User -> X!LinkRow \cup {None}]
      /\ job \in [Worker -> X!Job]
      /\ \A u \in User : link[u] # None => X!Registered(u)
  BY DEF X!TypeOK
<1>2. /\ \A k \in Discord : [discord |-> k, live |-> TRUE] \in X!LinkRow
      /\ \A r \in X!LinkRow : [r EXCEPT !.live = FALSE] \in X!LinkRow
  BY DEF X!LinkRow
<1>3. ASSUME NEW w \in Worker, NEW u \in User, NEW k \in Discord, X!ConsumeLinkToken(w, u, k)
      PROVE  Kept
  BY <1>1, <1>3 DEF X!ConsumeLinkToken
<1>4. ASSUME NEW k \in Discord, X!CreateLinkToken(k) PROVE Kept
  BY <1>1, <1>4 DEF X!CreateLinkToken
<1>5. ASSUME NEW w \in Worker, NEW u \in User, X!RevokeLink(w, u) PROVE Kept
  <2> DEFINE row == [link[u] EXCEPT !.live = FALSE]
  <2>1. row \in X!LinkRow /\ link[u] # None /\ link' = [link EXCEPT ![u] = row] /\ token' = token
    BY <1>1, <1>2, <1>5 DEF X!RevokeLink
  <2> HIDE DEF row
  <2>2. QED
    BY <1>1, <2>1
<1>6. ASSUME NEW w \in Worker, X!SaveLink(w) PROVE Kept
  <2> DEFINE u == job[w].user
             row == [discord |-> job[w].discord, live |-> TRUE]
  <2>1. u \in User /\ row \in X!LinkRow /\ X!Registered(u)
    BY <1>1, <1>2, <1>6, JobTypes DEF X!SaveLink, X!Doing, HeldIsThere, Holds
  <2>2. link' \in {link, [link EXCEPT ![u] = row]} /\ token' = token
    BY <1>6 DEF X!SaveLink
  <2> HIDE DEF row, u
  <2>3. QED
    BY <1>1, <2>1, <2>2
<1>7. ASSUME UNCHANGED <<token, link>> PROVE Kept
  BY <1>1, <1>7
<1>8. Kept
  BY <1>3, <1>4, <1>5, <1>6, <1>7, TablesWritten DEF DiscordStep
<1>9. QED
  BY <1>8, PeopleKept DEF X!Registered

\* What a request holds stays there, whatever others do.
LEMMA HoldsOn ==
    ASSUME X!TypeOK, HeldIsThere, X!Next, NEW j \in X!Job, Holds(j)
    PROVE  Holds(j)'
<1>1. /\ j.op \in {"save", "enable", "count", "codes", "issue", "link"} => X!Registered(j.user)'
  BY JobTypes, PeopleKept DEF Holds
<1>2. j.op = "consume" => challenge'[j.challenge] # None
  BY JobTypes, ChallengesKept DEF Holds
<1>3. j.op \in {"touch", "register", "mutate", "look", "attach"} => session'[j.session] # None
  BY JobTypes, PlacesKept DEF Holds, SameSession
<1>4. j.op \in {"look", "attach"} =>
        device'[j.device] # None /\ device'[j.device].user = session'[j.session].user
  BY JobTypes, PlacesKept DEF Holds, SameSession, SameDevice
<1>5. QED
  BY <1>1, <1>2, <1>3, <1>4 DEF Holds

-------------------------------------------------------------------------------
(* What is used up, and what a step gives to a request.                    *)

\* Codes are made once, so none that was used is fresh again.
LEMMA CodesStayUsed ==
    ASSUME X!TypeOK, CodesAreMadeOnce, X!Next, NEW u \in User, NEW c \in Code, codes[u][c] = "used"
    PROVE  codes'[u][c] = "used"
<1>1. /\ codes \in [User -> [Code -> {"none", "fresh", "used"}]] /\ job \in [Worker -> X!Job]
  BY DEF X!TypeOK
<1>2. ASSUME NEW w \in Worker, X!ReplaceRecoveryCodes(w) PROVE codes'[u][c] = "used"
  <2>1. job[w].op = "codes" /\ codes' = [codes EXCEPT ![job[w].user] = [x \in Code |-> "fresh"]]
    BY <1>2 DEF X!ReplaceRecoveryCodes, X!Doing
  <2>2. job[w].user # u
    BY <2>1 DEF CodesAreMadeOnce, CodesMadeOnceFor, WillMakeCodes, X!SavingFor, NoCodes
  <2>3. QED
    BY <1>1, <2>1, <2>2
<1>3. ASSUME NEW w \in Worker, NEW v \in User, NEW x \in Code, X!LoginByRecoveryCode(w, v, x)
      PROVE  codes'[u][c] = "used"
  <2>1. codes' = [codes EXCEPT ![v][x] = "used"]
    BY <1>3 DEF X!LoginByRecoveryCode
  <2>2. QED
    BY <1>1, <2>1
<1>4. ASSUME NEW w \in Worker, X!EnableTotp(w) \/ X!SavePasskey(w) PROVE UNCHANGED codes
  BY <1>4 DEF X!EnableTotp, X!SavePasskey
<1>5. QED
  BY <1>2, <1>3, <1>4, TablesWritten DEF PasskeyStep

\* The parts of a ground.
LEMMA GroundParts ==
    ASSUME NEW by \in X!Grounds
    PROVE  /\ by[1] = "invite" => by[2] \in Invite
           /\ by[1] = "challenge" => by[2] \in Challenge
           /\ by[1] = "recovery" => by[2] \in User /\ by[3] \in Code
BY DEF X!Grounds

\* What is used up stays used up.
LEMMA SpentStays ==
    ASSUME X!TypeOK, HeldIsThere, CodesAreMadeOnce, X!Next, NEW by \in X!Grounds, Spent(by)
    PROVE  Spent(by)'
<1>1. (by[1] = "setup" => claimed') /\ (by[1] = "invite" => invite'[by[2]] = "used")
  BY GroundParts, PeopleKept DEF Spent
<1>2. by[1] = "challenge" => challenge'[by[2]] # None /\ challenge'[by[2]].state = "used"
  BY GroundParts, ChallengesKept DEF Spent
<1>3. by[1] = "recovery" => codes'[by[2]][by[3]] = "used"
  BY GroundParts, CodesStayUsed DEF Spent
<1>4. QED
  BY <1>1, <1>2, <1>3 DEF Spent

\* A request gets only what it may hold, and what may be used once only by using it.
UsesUp(by) == Spent(by)' /\ (X!OneTime(by) => ~Spent(by))
GoesOn(w, j) ==
    /\ job' = [job EXCEPT ![w] = j]
    /\ Holds(j)'
    /\ j.op = "issue" => UsesUp(j.by)

LEMMA JobStep ==
    ASSUME X!TypeOK, HeldIsThere, CodesAreMadeOnce, X!Next
    PROVE  job' = job \/ \E w \in Worker, j \in X!Job : GoesOn(w, j)
<1> DEFINE Goal == job' = job \/ \E w \in Worker, j \in X!Job : GoesOn(w, j)
<1>0. /\ \A i \in Invite : [admin |-> FALSE, by |-> i] # None
      /\ [admin |-> FALSE, by |-> "open"] # None /\ [admin |-> TRUE, by |-> "setup"] # None
      /\ None \notin X!DeviceRow
  <2>1. None \notin X!UserRow /\ None \notin X!DeviceRow
    BY PlatformAssumption DEF NoneAssumption
  <2>2. /\ \A i \in Invite : [admin |-> FALSE, by |-> i] \in X!UserRow
        /\ [admin |-> FALSE, by |-> "open"] \in X!UserRow
        /\ [admin |-> TRUE, by |-> "setup"] \in X!UserRow
    BY DEF X!UserRow
  <2>3. QED
    BY <2>1, <2>2
<1>1. job \in [Worker -> X!Job] /\ DOMAIN user = User
  BY DEF X!TypeOK
<1>2. ASSUME NEW w \in Worker, NEW j \in X!Job, job' = [job EXCEPT ![w] = j], Holds(j), j.op # "issue"
      PROVE  Goal
  BY <1>2, HoldsOn DEF GoesOn
<1>3. ASSUME NEW w \in Worker, NEW u \in User, NEW by \in X!Grounds, X!Grant(w, u, by),
             X!Registered(u)', UsesUp(by)
      PROVE  Goal
  <2>1. PICK j : j = [op |-> "issue", user |-> u, by |-> by]
    OBVIOUS
  <2>2. j \in X!Job /\ j.op = "issue" /\ j.user = u /\ j.by = by
    BY <2>1, JobShapes
  <2>3. Holds(j)'
    BY <1>3, <2>2 DEF Holds
  <2>4. QED
    BY <1>3, <2>1, <2>2, <2>3 DEF GoesOn, X!Grant, X!Set
<1>4. ASSUME NEW w \in Worker, job' = [job EXCEPT ![w] = X!Idle] PROVE Goal
  <2>1. Holds(X!Idle)
    BY JobShapes DEF Holds
  <2>2. QED
    BY <1>2, <1>4, <2>1, JobShapes
<1>5. ASSUME NEW w \in Worker, X!Done(w) PROVE Goal
  BY <1>4, <1>5 DEF X!Done, X!Set
<1>6. ASSUME NEW w \in Worker, X!UserStep(w) PROVE Goal
  <2>1. ASSUME NEW u \in User, X!BeginSetup(w, u) PROVE Goal
    <3>1. PICK j : j = [op |-> "setup", user |-> u]
      OBVIOUS
    <3>2. j \in X!Job /\ j.op = "setup"
      BY <3>1, JobShapes
    <3>3. Holds(j)
      BY <3>2 DEF Holds
    <3>4. QED
      BY <1>2, <2>1, <3>1, <3>2, <3>3 DEF X!BeginSetup, X!Set
  <2>2. ASSUME NEW u \in User, X!RegisterOpenly(w, u) PROVE Goal
    <3>1. user'[u] # None /\ X!Grant(w, u, <<"password">>)
      BY <1>0, <1>1, <2>2 DEF X!RegisterOpenly
    <3>2. UsesUp(<<"password">>)
      BY DEF UsesUp, Spent, X!OneTime
    <3>3. QED
      BY <1>3, <3>1, <3>2, GroundShapes DEF X!Registered
  <2>3. ASSUME NEW u \in User, NEW i \in Invite, X!RegisterByInvite(w, u, i) PROVE Goal
    <3>1. user'[u] # None /\ X!Grant(w, u, <<"invite", i>>)
      BY <1>0, <1>1, <2>3 DEF X!RegisterByInvite
    <3>2. invite[i] = "open" /\ invite'[i] = "used"
      BY <2>3 DEF X!RegisterByInvite, X!Acceptable, X!TypeOK
    <3>3. UsesUp(<<"invite", i>>)
      BY <3>2 DEF UsesUp, Spent, X!OneTime
    <3>4. QED
      BY <1>3, <3>1, <3>3, GroundShapes DEF X!Registered
  <2>4. ASSUME NEW i \in Invite, X!CreateInvite(w, i) PROVE Goal
    BY <2>4 DEF X!CreateInvite
  <2>5. ASSUME X!FinishSetup(w) PROVE Goal
    <3> DEFINE u == job[w].user
    <3>1. u \in User
      BY <1>1, <2>5, JobTypes DEF X!FinishSetup, X!Doing
    <3>2. CASE ~claimed /\ ~X!Registered(u)
      <4>1. user'[u] # None /\ ~claimed /\ claimed' /\ X!Grant(w, u, <<"setup">>)
        BY <1>0, <1>1, <2>5, <3>1, <3>2 DEF X!FinishSetup
      <4>2. UsesUp(<<"setup">>)
        BY <4>1 DEF UsesUp, Spent, X!OneTime
      <4>3. PICK v \in User : v = u
        BY <3>1
      <4>4. QED
        BY <1>3, <4>1, <4>2, <4>3, GroundShapes DEF X!Registered
    <3>3. CASE ~(~claimed /\ ~X!Registered(u))
      BY <1>5, <2>5, <3>3 DEF X!FinishSetup
    <3>4. QED
      BY <3>2, <3>3
  <2>6. QED
    BY <1>6, <2>1, <2>2, <2>3, <2>4, <2>5 DEF X!UserStep
<1>7. ASSUME NEW w \in Worker, X!Consume(w) PROVE Goal
  <2>1. PICK c : c = job[w].challenge
    OBVIOUS
  <2>2. c \in Challenge /\ challenge[c] # None
    BY <1>1, <1>7, <2>1, JobTypes DEF X!Consume, X!Doing, HeldIsThere, Holds
  <2>3. PICK u : u = challenge[c].user
    OBVIOUS
  <2>4. u \in User /\ X!Registered(u) /\ challenge[c] \in X!ChallengeRow
    BY <2>2, <2>3 DEF X!TypeOK, X!ChallengeRow
  <2>5. CASE X!Unused(c) /\ X!Reward(w, c)
    <3>1. challenge[c].state # "used" /\ challenge'[c] # None /\ challenge'[c].state = "used"
      <4>1. challenge' = [challenge EXCEPT ![c].state = "used"] /\ challenge[c].state # "used"
        BY <1>7, <2>1, <2>5 DEF X!Consume, X!Unused
      <4>2. challenge'[c] # None
        BY <2>2, ChallengesKept
      <4>3. QED
        BY <2>2, <2>4, <4>1, <4>2 DEF X!TypeOK, X!ChallengeRow
    <3>2. UsesUp(<<"challenge", c>>)
      BY <3>1 DEF UsesUp, Spent, X!OneTime
    <3>3. ASSUME NEW op \in {"save", "enable"}, X!Set(w, [op |-> op, user |-> u]) PROVE Goal
      <4>1. PICK j : j = [op |-> op, user |-> u]
        OBVIOUS
      <4>2. j \in X!Job /\ j.op = op /\ j.user = u
        BY <2>4, <4>1, JobShapes
      <4>3. Holds(j)
        BY <2>4, <4>2 DEF Holds
      <4>4. QED
        BY <1>2, <3>3, <4>1, <4>2, <4>3 DEF X!Set
    <3>4. ASSUME X!Grant(w, u, <<"challenge", c>>) PROVE Goal
      <4>1. X!Registered(u)'
        BY <2>4, PeopleKept
      <4>2. QED
        BY <1>3, <2>2, <2>4, <3>2, <3>4, <4>1, GroundShapes
    <3>5. challenge[c].kind \in {"registration", "totp", "authentication", "totp_login"}
      BY <2>4 DEF X!ChallengeRow
    <3>6. QED
      BY <2>3, <2>5, <3>3, <3>4, <3>5 DEF X!Reward
  <2>6. CASE X!Done(w)
    BY <1>5, <2>6
  <2>7. QED
    BY <1>7, <2>1, <2>5, <2>6 DEF X!Consume
<1>8. ASSUME NEW w \in Worker, X!SignInStep(w) PROVE Goal
  <2>1. ASSUME NEW u \in User, NEW c \in Challenge,
               NEW kind \in {"registration", "totp", "authentication"}, X!Offer(w, c, u, kind)
        PROVE  Goal
    BY <2>1 DEF X!Offer
  <2>2. ASSUME NEW u \in User, NEW c \in Challenge, X!LoginByPassword(w, u, c) PROVE Goal
    <3>1. X!Registered(u) /\ X!Registered(u)'
      BY <2>2, PeopleKept DEF X!LoginByPassword
    <3>2. UsesUp(<<"password">>)
      BY DEF UsesUp, Spent, X!OneTime
    <3>3. job' = job \/ X!Grant(w, u, <<"password">>)
      BY <2>2 DEF X!LoginByPassword
    <3>4. QED
      BY <1>3, <3>1, <3>2, <3>3, GroundShapes
  <2>3. ASSUME NEW c \in Challenge, X!ReadChallenge(w, c) PROVE Goal
    <3>1. PICK j : j = [op |-> "consume", challenge |-> c]
      OBVIOUS
    <3>2. j \in X!Job /\ j.op = "consume" /\ j.challenge = c
      BY <3>1, JobShapes
    <3>3. Holds(j)
      BY <2>3, <3>2 DEF Holds, X!ReadChallenge
    <3>4. QED
      BY <1>2, <2>3, <3>1, <3>2, <3>3 DEF X!ReadChallenge, X!Set
  <2>4. ASSUME NEW u \in User, NEW c \in Code, X!LoginByRecoveryCode(w, u, c) PROVE Goal
    <3>1. X!Registered(u) /\ X!Registered(u)' /\ X!Grant(w, u, <<"recovery", u, c>>)
      BY <2>4, PeopleKept DEF X!LoginByRecoveryCode
    <3>2. codes[u][c] = "fresh" /\ codes'[u][c] = "used"
      BY <2>4 DEF X!LoginByRecoveryCode, X!FreshCode, X!TypeOK
    <3>3. UsesUp(<<"recovery", u, c>>)
      BY <3>2 DEF UsesUp, Spent, X!OneTime
    <3>4. QED
      BY <1>3, <3>1, <3>3, GroundShapes
  <2>5. ASSUME NEW op \in {"save", "enable", "count", "codes"}, job[w].op = op,
               NEW to \in {"count", "codes"}, X!Set(w, [op |-> to, user |-> job[w].user])
        PROVE  Goal
    <3>1. PICK u : u = job[w].user
      OBVIOUS
    <3>2. PICK j : j = [op |-> to, user |-> u]
      OBVIOUS
    <3>3. u \in User /\ X!Registered(u)
      BY <1>1, <2>5, <3>1, JobTypes DEF HeldIsThere, Holds
    <3>4. j \in X!Job /\ j.op = to /\ j.user = u
      BY <3>2, <3>3, JobShapes
    <3>5. Holds(j)
      BY <3>3, <3>4 DEF Holds
    <3>6. QED
      BY <1>2, <2>5, <3>1, <3>2, <3>4, <3>5 DEF X!Set
  <2>6. ASSUME X!SavePasskey(w) PROVE Goal
    BY <2>5, <2>6 DEF X!SavePasskey, X!Doing
  <2>7. ASSUME X!CountPasskeys(w) PROVE Goal
    BY <1>5, <2>5, <2>7 DEF X!CountPasskeys, X!Doing
  <2>8. ASSUME X!EnableTotp(w) \/ X!ReplaceRecoveryCodes(w) \/ X!IssueSession(w) PROVE Goal
    BY <1>5, <2>8 DEF X!EnableTotp, X!ReplaceRecoveryCodes, X!IssueSession
  <2>9. QED
    BY <1>7, <1>8, <2>1, <2>2, <2>3, <2>4, <2>6, <2>7, <2>8 DEF X!SignInStep
<1>9. ASSUME NEW w \in Worker, NEW s \in Session, NEW d \in Device,
             NEW op \in {"register", "mutate", "look", "attach"}, session[s] # None,
             X!Set(w, [op |-> op, session |-> s, device |-> d]),
             op \in {"look", "attach"} => (device[d] # None /\ device[d].user = session[s].user)'
      PROVE  Goal
  <2>1. PICK j : j = [op |-> op, session |-> s, device |-> d]
    OBVIOUS
  <2>2. j \in X!Job /\ j.op = op /\ j.session = s /\ j.device = d
    BY <2>1, JobShapes
  <2>3. session'[s] # None
    BY <1>9, PlacesKept DEF SameSession
  <2>4. Holds(j)'
    BY <1>9, <2>2, <2>3 DEF Holds
  <2>5. QED
    BY <1>9, <2>1, <2>2, <2>4 DEF GoesOn, X!Set
<1>10. ASSUME NEW w \in Worker, X!PlaceStep(w) PROVE Goal
  <2>1. ASSUME NEW s \in Session, NEW d \in Device, NEW op \in {"register", "mutate"},
               X!BeginDevice(w, s, d, op)
        PROVE  Goal
    BY <1>9, <2>1 DEF X!BeginDevice, X!IsLive
  <2>2. ASSUME NEW op \in {"register", "look"}, job[w].op = op
        PROVE  \E s \in Session, d \in Device :
                /\ s = job[w].session /\ d = job[w].device /\ session[s] # None
                /\ \A to \in {"look", "attach"} :
                    [job[w] EXCEPT !.op = to] = [op |-> to, session |-> s, device |-> d]
    <3>1. job[w].session \in Session /\ job[w].device \in Device /\ session[job[w].session] # None
      BY <1>1, <2>2, JobTypes DEF HeldIsThere, Holds
    <3>2. job[w] \in X!Job
      BY <1>1
    <3>3. job[w] = [op |-> op, session |-> job[w].session, device |-> job[w].device]
      BY <2>2, <3>2 DEF X!Job
    <3>4. QED
      BY <3>1, <3>3
  <2>3. ASSUME X!RegisterDevice(w) PROVE Goal
    <3>1. PICK s \in Session, d \in Device :
            /\ s = job[w].session /\ d = job[w].device /\ session[s] # None
            /\ [job[w] EXCEPT !.op = "look"] = [op |-> "look", session |-> s, device |-> d]
      BY <2>2, <2>3 DEF X!RegisterDevice, X!Doing
    <3>2. CASE X!Registrable(session[s].user, d)
      <4>1. /\ device' = [device EXCEPT ![d] = [user |-> session[s].user, revoked |-> FALSE]]
            /\ X!Set(w, [op |-> "look", session |-> s, device |-> d]) /\ session' = session
        BY <2>3, <3>1, <3>2 DEF X!RegisterDevice
      <4>2. device'[d] = [user |-> session[s].user, revoked |-> FALSE]
        BY <4>1 DEF X!TypeOK
      <4>3. device'[d] \in X!DeviceRow
        <5>1. session[s].user \in User
          BY <3>1 DEF X!TypeOK, X!SessionRow
        <5>2. QED
          BY <4>2, <5>1 DEF X!DeviceRow
      <4>4. device'[d].user = session'[s].user
        BY <4>1, <4>2
      <4>5. device'[d] # None
        BY <1>0, <4>3
      <4>6. QED
        BY <1>9, <3>1, <4>1, <4>4, <4>5, ZenonT(60)
    <3>3. CASE ~X!Registrable(session[s].user, d)
      BY <1>5, <2>3, <3>1, <3>3 DEF X!RegisterDevice
    <3>4. QED
      BY <3>2, <3>3
  <2>4. ASSUME X!LookAtDevice(w) PROVE Goal
    <3>1. PICK s \in Session, d \in Device :
            /\ s = job[w].session /\ d = job[w].device /\ session[s] # None
            /\ [job[w] EXCEPT !.op = "attach"] = [op |-> "attach", session |-> s, device |-> d]
      BY <2>2, <2>4 DEF X!LookAtDevice, X!Doing
    <3>2. CASE X!DeviceIsActive(session[s].user, d)
      <4>1. /\ X!Set(w, [op |-> "attach", session |-> s, device |-> d])
            /\ session' = session /\ device' = device
        BY <2>4, <3>1, <3>2 DEF X!LookAtDevice, X!places
      <4>2. QED
        BY <1>9, <3>1, <3>2, <4>1 DEF X!DeviceIsActive
    <3>3. CASE ~X!DeviceIsActive(session[s].user, d)
      BY <1>5, <2>4, <3>1, <3>3 DEF X!LookAtDevice
    <3>4. QED
      BY <3>2, <3>3
  <2>5. ASSUME X!Attach(w) \/ X!CheckDevice(w) PROVE Goal
    BY <1>5, <2>5 DEF X!Attach, X!CheckDevice
  <2>6. ASSUME NEW s \in Session, X!RevokeSession(w, s) PROVE Goal
    BY <2>6 DEF X!RevokeSession
  <2>7. ASSUME NEW d \in Device, X!RevokeDevice(w, d) PROVE Goal
    BY <2>7 DEF X!RevokeDevice
  <2>8. ASSUME X!Touch(w) PROVE Goal
    BY <1>5, <2>8 DEF X!Touch
  <2>9. ASSUME NEW s \in Session, X!Resolve(w, s) PROVE Goal
    <3>1. PICK j : j = [op |-> "touch", session |-> s]
      OBVIOUS
    <3>2. j \in X!Job /\ j.op = "touch" /\ j.session = s
      BY <3>1, JobShapes
    <3>3. session'[s] # None
      BY <2>9, PlacesKept DEF SameSession, X!Resolve, X!IsLive
    <3>4. Holds(j)'
      BY <3>2, <3>3 DEF Holds
    <3>5. QED
      BY <2>9, <3>1, <3>2, <3>4 DEF GoesOn, X!Resolve, X!Set
  <2>10. QED
    BY <1>10, <2>1, <2>3, <2>4, <2>5, <2>6, <2>7, <2>8, <2>9 DEF X!PlaceStep
<1>11. ASSUME NEW w \in Worker, X!LinkStep(w) PROVE Goal
  <2>1. ASSUME NEW u \in User, NEW k \in Discord, X!SignedIn(u),
               X!Set(w, [op |-> "link", user |-> u, discord |-> k])
        PROVE  Goal
    <3>1. PICK j : j = [op |-> "link", user |-> u, discord |-> k]
      OBVIOUS
    <3>2. j \in X!Job /\ j.op = "link" /\ j.user = u
      BY <3>1, JobShapes
    <3>3. X!Registered(u)
      BY <2>1 DEF X!SignedIn, X!IsLive, X!TypeOK
    <3>4. Holds(j)
      BY <3>2, <3>3 DEF Holds
    <3>5. QED
      BY <1>2, <2>1, <3>1, <3>2, <3>4 DEF X!Set
  <2>2. ASSUME NEW u \in User, NEW k \in Discord,
               X!ConsumeLinkToken(w, u, k) \/ X!OAuthCallback(w, u, k)
        PROVE  Goal
    BY <2>1, <2>2 DEF X!ConsumeLinkToken, X!OAuthCallback
  <2>3. ASSUME NEW u \in User, X!RevokeLink(w, u) PROVE Goal
    BY <2>3 DEF X!RevokeLink
  <2>4. ASSUME X!SaveLink(w) PROVE Goal
    BY <1>5, <2>4 DEF X!SaveLink
  <2>5. QED
    BY <1>11, <2>2, <2>3, <2>4 DEF X!LinkStep
<1>12. ASSUME NEW w \in Worker, X!Crash(w) PROVE Goal
  BY <1>5, <1>12 DEF X!Crash
<1>13. ASSUME \/ \E i \in Invite : X!RevokeInvite(i)
              \/ \E c \in Challenge : X!ChallengeExpires(c)
              \/ \E s \in Session : X!SessionExpires(s) \/ X!GoesIdle(s)
              \/ \E k \in Discord : X!CreateLinkToken(k)
       PROVE  Goal
  BY <1>13 DEF X!RevokeInvite, X!ChallengeExpires, X!SessionExpires, X!GoesIdle, X!CreateLinkToken
<1>14. QED
  BY <1>6, <1>8, <1>10, <1>11, <1>12, <1>13 DEF X!Next

\* What requests hold is of its kind, and there.
LEMMA JobsKept ==
    ASSUME X!TypeOK, HeldIsThere, CodesAreMadeOnce, X!Next
    PROVE  job' \in [Worker -> X!Job] /\ HeldIsThere'
<1>1. job \in [Worker -> X!Job]
  BY DEF X!TypeOK
<1>2. \A w \in Worker : Holds(job[w])
  BY DEF HeldIsThere
<1>3. ASSUME NEW w \in Worker, NEW j, j = job[w] PROVE Holds(j)'
  BY <1>1, <1>2, <1>3, HoldsOn
<1>4. job' \in [Worker -> X!Job]
  BY <1>1, JobStep DEF GoesOn
<1>5. ASSUME NEW w \in Worker, NEW j, j = job'[w] PROVE Holds(j)'
  BY <1>1, <1>3, <1>5, JobStep DEF GoesOn
<1>6. \A w \in Worker : Holds(job[w])'
  <2> SUFFICES ASSUME NEW w \in Worker PROVE Holds(job[w])'
    OBVIOUS
  <2>1. PICK j : j = job'[w]
    OBVIOUS
  <2>2. Holds(j)'
    BY <1>5, <2>1
  <2>3. QED
    BY <2>1, <2>2 DEF Holds
<1>7. QED
  BY <1>4, <1>6 DEF HeldIsThere

\* Requests are counted, and only sessions and users are remembered.
LEMMA HistoryKept ==
    ASSUME X!TypeOK, HeldIsThere, X!Next
    PROVE  asked' \in 0..MaxRequests /\ crossed' \subseteq Session \cup User /\ crossed \subseteq crossed'
<1> DEFINE Kept == /\ asked' \in 0..MaxRequests
                   /\ crossed' \subseteq Session \cup User /\ crossed \subseteq crossed'
<1>1. /\ asked \in 0..MaxRequests /\ crossed \subseteq Session \cup User
      /\ job \in [Worker -> X!Job] /\ MaxRequests \in Nat
  BY PlatformAssumption DEF X!TypeOK, AccessAssumption
<1>2. ASSUME NEW w \in Worker, X!Start(w) PROVE asked' \in 0..MaxRequests
  BY <1>1, <1>2 DEF X!Start
<1>3. ASSUME NEW w \in Worker, X!UserStep(w) PROVE Kept
  BY <1>1, <1>2, <1>3
     DEF X!UserStep, X!BeginSetup, X!RegisterOpenly, X!RegisterByInvite, X!CreateInvite,
         X!FinishSetup, X!Doing
<1>4. ASSUME NEW w \in Worker, X!SignInStep(w) PROVE Kept
  <2>1. ASSUME X!SavePasskey(w) PROVE Kept
    <3>1. job[w].user \in User
      BY <1>1, <2>1, JobTypes DEF X!SavePasskey, X!Doing
    <3>2. QED
      BY <1>1, <2>1, <3>1 DEF X!SavePasskey, X!Doing
  <2>2. QED
    BY <1>1, <1>2, <1>4, <2>1
       DEF X!SignInStep, X!Offer, X!LoginByPassword, X!ReadChallenge, X!LoginByRecoveryCode,
           X!Consume, X!EnableTotp, X!CountPasskeys, X!ReplaceRecoveryCodes, X!IssueSession, X!Doing
<1>5. ASSUME NEW w \in Worker, X!PlaceStep(w) PROVE Kept
  <2>1. ASSUME X!Attach(w) PROVE Kept
    <3>1. job[w].session \in Session
      BY <1>1, <2>1, JobTypes DEF X!Attach, X!Doing
    <3>2. QED
      BY <1>1, <2>1, <3>1 DEF X!Attach, X!Doing
  <2>2. QED
    BY <1>1, <1>2, <1>5, <2>1
       DEF X!PlaceStep, X!RevokeSession, X!BeginDevice, X!RevokeDevice, X!RegisterDevice,
           X!LookAtDevice, X!CheckDevice, X!Resolve, X!Touch, X!Doing
<1>6. ASSUME NEW w \in Worker, X!LinkStep(w) PROVE Kept
  BY <1>1, <1>2, <1>6
     DEF X!LinkStep, X!ConsumeLinkToken, X!OAuthCallback, X!RevokeLink, X!SaveLink, X!Doing
<1>7. ASSUME NEW w \in Worker, X!Crash(w) PROVE Kept
  <2>1. job[w].op \in {"count", "codes"} => job[w].user \in User
    BY <1>1, JobTypes
  <2>2. QED
    BY <1>1, <1>7, <2>1 DEF X!Crash
<1>8. ASSUME \/ \E i \in Invite : X!RevokeInvite(i)
             \/ \E c \in Challenge : X!ChallengeExpires(c)
             \/ \E s \in Session : X!SessionExpires(s) \/ X!GoesIdle(s)
             \/ \E k \in Discord : X!CreateLinkToken(k)
      PROVE  Kept
  BY <1>1, <1>8 DEF X!RevokeInvite, X!ChallengeExpires, X!SessionExpires, X!GoesIdle, X!CreateLinkToken
<1>9. QED
  BY <1>3, <1>4, <1>5, <1>6, <1>7, <1>8 DEF X!Next

LEMMA AccessTypeKept ==
    ASSUME X!TypeOK, HeldIsThere, CodesAreMadeOnce, X!Next
    PROVE  (X!TypeOK)'
<1>1. mode' \in {"closed", "invite", "open"}
  BY TablesWritten DEF X!TypeOK
<1>2. \A s \in Session : session'[s] # None =>
        /\ X!Registered(session[s].user)'
        /\ session'[s].device # None =>
             /\ device'[session'[s].device] # None
             /\ device'[session'[s].device].user = session'[s].user
  BY PlacesKept DEF SessionInPlace, X!Registered
<1>3. QED
  BY <1>1, <1>2, PeopleKept, ChallengesKept, PasskeysKept, PlacesKept, LinksKept, JobsKept,
     HistoryKept
     DEF X!TypeOK

-------------------------------------------------------------------------------
(* What may be used once lets one request in.                              *)

\* A session that was not there is the one a request was entitled to.
LEMMA IssuedSession ==
    ASSUME X!TypeOK, HeldIsThere, X!Next, NEW s \in Session, session[s] = None, session'[s] # None
    PROVE  \E w \in Worker :
            /\ job[w].op = "issue" /\ session'[s].by = job[w].by
            /\ job' = [job EXCEPT ![w] = X!Idle]
            /\ \A t \in Session \ {s} : session'[t] = session[t]
<1>1. session \in [Session -> X!SessionRow \cup {None}] /\ job \in [Worker -> X!Job]
  BY DEF X!TypeOK
<1>2. ASSUME NEW w \in Worker, X!IssueSession(w)
      PROVE  /\ job[w].op = "issue" /\ session'[s].by = job[w].by
             /\ job' = [job EXCEPT ![w] = X!Idle]
             /\ \A t \in Session \ {s} : session'[t] = session[t]
  <2> DEFINE row == [user |-> job[w].user, device |-> None, state |-> "live", by |-> job[w].by]
  <2>1. PICK t \in Session : session[t] = None /\ session' = [session EXCEPT ![t] = row]
    BY <1>2 DEF X!IssueSession
  <2>2. row.by = job[w].by
    OBVIOUS
  <2> HIDE DEF row
  <2>3. t = s
    BY <1>1, <2>1
  <2>4. QED
    BY <1>1, <1>2, <2>1, <2>2, <2>3 DEF X!IssueSession, X!Doing, X!Done, X!Set
<1>3. ASSUME NEW w \in Worker, X!Attach(w) PROVE FALSE
  <2>1. session[job[w].session] # None
    BY <1>3, <1>1, JobTypes DEF X!Attach, X!Doing, HeldIsThere, Holds
  <2>2. QED
    BY <1>1, <1>3, <2>1 DEF X!Attach
<1>4. ASSUME \/ \E w \in Worker : X!Touch(w) \/ \E t \in Session : X!RevokeSession(w, t)
             \/ \E t \in Session : X!SessionExpires(t) \/ X!GoesIdle(t)
      PROVE  FALSE
  BY <1>1, <1>4, SessionsAge
<1>5. ASSUME DeviceStep PROVE FALSE
  BY <1>1, <1>5
     DEF DeviceStep, X!RegisterDevice, X!CheckDevice, X!RevokeDevice, X!SessionsOfDevice
<1>6. QED
  BY <1>2, <1>3, <1>4, <1>5, TablesWritten DEF SessionStep

\* A user that was not there is the first one, came by an open invitation, or by none.
LEMMA NewUser ==
    ASSUME X!TypeOK, X!Next, NEW u \in User, ~X!Registered(u), X!Registered(u)'
    PROVE  /\ \A v \in User \ {u} : user'[v] = user[v]
           /\ \/ user'[u].by = "setup" /\ ~claimed /\ claimed'
              \/ user'[u].by \in Invite /\ invite[user'[u].by] = "open" /\ invite'[user'[u].by] = "used"
              \/ user'[u].by = "open"
<1> DEFINE Goal ==
        /\ \A v \in User \ {u} : user'[v] = user[v]
        /\ \/ user'[u].by = "setup" /\ ~claimed /\ claimed'
           \/ user'[u].by \in Invite /\ invite[user'[u].by] = "open" /\ invite'[user'[u].by] = "used"
           \/ user'[u].by = "open"
<1>1. /\ user \in [User -> X!UserRow \cup {None}] /\ job \in [Worker -> X!Job]
      /\ invite \in [Invite -> {"none", "open", "used", "revoked"}]
  BY DEF X!TypeOK
<1>2. ASSUME NEW w \in Worker, NEW v \in User, X!RegisterOpenly(w, v) PROVE Goal
  BY <1>1, <1>2 DEF X!RegisterOpenly, X!Registered
<1>3. ASSUME NEW w \in Worker, NEW v \in User, NEW i \in Invite, X!RegisterByInvite(w, v, i)
      PROVE  Goal
  BY <1>1, <1>3 DEF X!RegisterByInvite, X!Registered, X!Acceptable
<1>4. ASSUME NEW w \in Worker, X!FinishSetup(w) PROVE Goal
  <2>1. job[w].user \in User
    BY <1>1, <1>4, JobTypes DEF X!FinishSetup, X!Doing
  <2>2. CASE ~claimed /\ ~X!Registered(job[w].user)
    <3>1. /\ user' = [user EXCEPT ![job[w].user] = [admin |-> TRUE, by |-> "setup"]]
          /\ ~claimed /\ claimed'
      BY <1>4, <2>2 DEF X!FinishSetup
    <3>2. job[w].user = u
      BY <1>1, <2>1, <3>1 DEF X!Registered
    <3>3. user'[u].by = "setup" /\ \A v \in User \ {u} : user'[v] = user[v]
      BY <1>1, <3>1, <3>2
    <3>4. QED
      BY <3>1, <3>3
  <2>3. CASE ~(~claimed /\ ~X!Registered(job[w].user))
    BY <1>4, <2>3 DEF X!FinishSetup, X!Registered
  <2>4. QED
    BY <2>2, <2>3
<1>5. ASSUME UNCHANGED user PROVE Goal
  BY <1>5 DEF X!Registered
<1>6. QED
  BY <1>2, <1>3, <1>4, <1>5, TablesWritten DEF PeopleStep, X!CreateInvite, X!RevokeInvite

LEMMA SpentKept ==
    ASSUME X!TypeOK, HeldIsThere, AllIsSpent, CodesAreMadeOnce, X!Next
    PROVE  AllIsSpent'
<1>1. /\ job \in [Worker -> X!Job]
      /\ \A s \in Session : session[s] # None => session[s].by \in X!Grounds
      /\ user \in [User -> X!UserRow \cup {None}]
  BY DEF X!TypeOK, X!SessionRow
<1>2. \A w \in Worker : job[w].op = "issue" => job[w].by \in X!Grounds /\ Spent(job[w].by)
  BY <1>1, JobTypes DEF AllIsSpent
<1>3. ASSUME NEW s \in Session, session'[s] # None PROVE Spent(session[s].by)'
  <2>1. PICK by : by = session'[s].by
    OBVIOUS
  <2>2. by \in X!Grounds /\ Spent(by)
    <3>1. CASE session[s] # None
      BY <1>1, <2>1, <3>1, PlacesKept DEF SameSession, AllIsSpent
    <3>2. CASE session[s] = None
      BY <1>2, <1>3, <2>1, <3>2, IssuedSession
    <3>3. QED
      BY <3>1, <3>2
  <2>3. Spent(by)'
    BY <2>2, SpentStays
  <2>4. QED
    BY <2>1, <2>3 DEF Spent
<1>4. ASSUME NEW w \in Worker, job'[w].op = "issue" PROVE Spent(job[w].by)'
  <2>1. PICK by : by = job'[w].by
    OBVIOUS
  <2>2. CASE job'[w] = job[w]
    <3>1. by \in X!Grounds /\ Spent(by)
      BY <1>2, <1>4, <2>1, <2>2
    <3>2. Spent(by)'
      BY <3>1, SpentStays
    <3>3. QED
      BY <2>1, <3>2 DEF Spent
  <2>3. CASE job'[w] # job[w]
    <3>1. Spent(by)'
      BY <1>1, <1>4, <2>1, <2>3, JobStep DEF GoesOn, UsesUp
    <3>2. QED
      BY <2>1, <3>1 DEF Spent
  <2>4. QED
    BY <2>2, <2>3
<1>5. ASSUME NEW u \in User, user'[u] # None
      PROVE  /\ user'[u].by = "setup" => claimed'
             /\ user'[u].by \in Invite => invite'[user'[u].by] = "used"
  <2>1. CASE X!Registered(u)
    BY <2>1, PeopleKept DEF AllIsSpent
  <2>2. CASE ~X!Registered(u)
    <3>1. \/ user'[u].by = "setup" /\ ~claimed /\ claimed'
          \/ user'[u].by \in Invite /\ invite'[user'[u].by] = "used"
          \/ user'[u].by = "open"
      BY <1>5, <2>2, NewUser DEF X!Registered
    <3>2. "setup" \notin Invite /\ "open" \notin Invite
      BY PlatformAssumption DEF AccessAssumption
    <3>3. QED
      BY <3>1, <3>2
  <2>3. QED
    BY <2>1, <2>2
<1>6. QED
  BY <1>3, <1>4, <1>5 DEF AllIsSpent, X!Registered

\* Requests and sessions that come by the same ground: a new one has just used it up, and
\* what the others came by was used up before.
LEMMA OnceKept ==
    ASSUME X!TypeOK, HeldIsThere, AllIsSpent, X!UsedOnce, CodesAreMadeOnce, X!Next
    PROVE  (X!UsedOnce)'
<1>1. job \in [Worker -> X!Job] /\ X!Idle.op # "issue"
  BY DEF X!TypeOK, X!Idle
<1>2. /\ \A s, t \in Session :
            s # t /\ session[s] # None /\ session[t] # None /\ session[s].by = session[t].by =>
                ~X!OneTime(session[s].by)
      /\ \A v, w \in Worker :
            v # w /\ job[v].op = "issue" /\ job[w].op = "issue" /\ job[v].by = job[w].by =>
                ~X!OneTime(job[v].by)
      /\ \A s \in Session, w \in Worker :
            session[s] # None /\ job[w].op = "issue" /\ session[s].by = job[w].by =>
                ~X!OneTime(session[s].by)
      /\ \A u, v \in User :
            u # v /\ X!Registered(u) /\ X!Registered(v) =>
                user[u].by # user[v].by \/ user[u].by = "open"
  BY DEF X!UsedOnce, X!Grants, X!GrantsUnderWay
<1>3. \A s \in Session : session[s] # None => session'[s] # None /\ session'[s].by = session[s].by
  BY PlacesKept DEF SameSession
<1>4. \A s \in Session : session[s] # None => Spent(session[s].by)
  BY DEF AllIsSpent
<1>5. \A w \in Worker : job[w].op = "issue" => Spent(job[w].by)
  BY DEF AllIsSpent
<1>6. ASSUME NEW w \in Worker, job'[w].op = "issue", job'[w] # job[w]
      PROVE  /\ X!OneTime(job'[w].by) => ~Spent(job'[w].by)
             /\ \A v \in Worker \ {w} : job'[v] = job[v]
  <2>1. PICK q \in Worker, j \in X!Job : GoesOn(q, j)
    BY <1>6, JobStep
  <2>2. job' = [job EXCEPT ![q] = j] /\ (j.op = "issue" => (X!OneTime(j.by) => ~Spent(j.by)))
    BY <2>1 DEF GoesOn, UsesUp
  <2>3. q = w
    BY <1>1, <1>6, <2>2
  <2>4. job'[w] = j /\ \A v \in Worker \ {w} : job'[v] = job[v]
    BY <1>1, <2>2, <2>3
  <2>5. QED
    BY <1>6, <2>2, <2>4
<1>7. ASSUME NEW s \in Session, NEW t \in Session, s # t, session'[s] # None, session'[t] # None,
             session'[s].by = session'[t].by
      PROVE  ~X!OneTime(session'[s].by)
  <2>1. ASSUME NEW x \in Session, NEW y \in Session, x # y, session[x] = None,
               session'[x] # None, session'[y] # None, session'[x].by = session'[y].by
        PROVE  ~X!OneTime(session'[x].by)
    BY <1>2, <2>1, IssuedSession
  <2>2. QED
    BY <1>2, <1>3, <1>7, <2>1
<1>8. ASSUME NEW v \in Worker, NEW w \in Worker, v # w, job'[v].op = "issue", job'[w].op = "issue",
             job'[v].by = job'[w].by
      PROVE  ~X!OneTime(job'[v].by)
  <2>1. ASSUME NEW x \in Worker, NEW y \in Worker, x # y, job'[x].op = "issue",
               job'[y].op = "issue", job'[x].by = job'[y].by, job'[x] # job[x]
        PROVE  ~X!OneTime(job'[x].by)
    <3>1. job'[y] = job[y]
      BY <1>6, <2>1
    <3>2. Spent(job[y].by)
      BY <1>5, <2>1, <3>1
    <3>3. QED
      BY <1>6, <2>1, <3>1, <3>2
  <2>2. CASE job'[v] # job[v]
    BY <1>8, <2>1, <2>2
  <2>3. CASE job'[w] # job[w]
    BY <1>8, <2>1, <2>3
  <2>4. CASE job'[v] = job[v] /\ job'[w] = job[w]
    BY <1>2, <1>8, <2>4
  <2>5. QED
    BY <2>2, <2>3, <2>4
<1>9. ASSUME NEW s \in Session, NEW w \in Worker, session'[s] # None, job'[w].op = "issue",
             session'[s].by = job'[w].by
      PROVE  ~X!OneTime(session'[s].by)
  <2>1. CASE session[s] = None
    <3>1. PICK v \in Worker : /\ job[v].op = "issue" /\ session'[s].by = job[v].by
                              /\ job' = [job EXCEPT ![v] = X!Idle]
      BY <1>9, <2>1, IssuedSession
    <3>2. v # w /\ job'[w] = job[w]
      BY <1>1, <1>9, <3>1
    <3>3. QED
      BY <1>2, <1>9, <3>1, <3>2
  <2>2. CASE session[s] # None /\ job'[w] = job[w]
    BY <1>2, <1>3, <1>9, <2>2
  <2>3. CASE session[s] # None /\ job'[w] # job[w]
    <3>1. Spent(session[s].by) /\ session'[s].by = session[s].by
      BY <1>3, <1>4, <2>3
    <3>2. QED
      BY <1>6, <1>9, <2>3, <3>1
  <2>4. QED
    BY <2>1, <2>2, <2>3
<1>10. ASSUME NEW u \in User, NEW v \in User, u # v, user'[u] # None, user'[v] # None
       PROVE  user'[u].by # user'[v].by \/ user'[u].by = "open"
  <2>1. ASSUME NEW x \in User, NEW y \in User, x # y, user[x] = None, user'[x] # None,
               user'[y] # None
        PROVE  user'[x].by # user'[y].by \/ user'[x].by = "open"
    <3>1. ~X!Registered(x) /\ X!Registered(x)'
      BY <2>1 DEF X!Registered
    <3>2. user'[y] = user[y] /\ X!Registered(y)
      BY <2>1, <3>1, NewUser DEF X!Registered
    <3>3. (user[y].by = "setup" => claimed) /\ (user[y].by \in Invite => invite[user[y].by] = "used")
      BY <3>2 DEF AllIsSpent
    <3>4. \/ user'[x].by = "setup" /\ ~claimed
          \/ user'[x].by \in Invite /\ invite[user'[x].by] = "open"
          \/ user'[x].by = "open"
      BY <3>1, NewUser
    <3>5. QED
      BY <3>2, <3>3, <3>4
  <2>2. CASE user[u] = None \/ user[v] = None
    BY <1>10, <2>1, <2>2
  <2>3. CASE user[u] # None /\ user[v] # None
    BY <1>2, <1>10, <2>3, PeopleKept DEF X!Registered
  <2>4. QED
    BY <2>2, <2>3
<1>11. QED
  BY <1>7, <1>8, <1>9, <1>10 DEF X!UsedOnce, X!Grants, X!GrantsUnderWay, X!Registered

-------------------------------------------------------------------------------
(* Recovery codes are made once.                                           *)

\* Whether a request has saved a passkey for this user and not yet come to the codes.
Saving(w, u) == job[w].op \in {"count", "codes"} /\ job[w].user = u

\* The steps that are of no account to a user's codes.
LEMMA CodesUntouched ==
    ASSUME NEW u \in User, CodesMadeOnceFor(u), passkeys'[u] = passkeys[u], codes'[u] = codes[u],
           u \in crossed => u \in crossed',
           \A w \in Worker : /\ Saving(w, u)' <=> Saving(w, u)
                             /\ Saving(w, u) => job'[w].op = job[w].op
    PROVE  CodesMadeOnceFor(u)'
<1>1. (X!SavingFor(u))' = X!SavingFor(u)
  BY DEF X!SavingFor, Saving
<1>2. \A w \in Worker : WillMakeCodes(w, u)' <=> WillMakeCodes(w, u)
  BY <1>1 DEF WillMakeCodes, X!SavingFor, Saving
<1>3. NoCodes(u)' <=> NoCodes(u)
  BY DEF NoCodes
<1>4. QED
  BY <1>1, <1>2, <1>3 DEF CodesMadeOnceFor

\* All steps but five leave the passkeys and codes, and the requests that deal with them.
LEMMA OtherRequests ==
    ASSUME X!TypeOK, HeldIsThere, X!Next
    PROVE  \/ \E w \in Worker :
                \/ X!SavePasskey(w) \/ X!CountPasskeys(w) \/ X!ReplaceRecoveryCodes(w) \/ X!Crash(w)
                \/ \E u \in User, c \in Code : X!LoginByRecoveryCode(w, u, c)
           \/ /\ UNCHANGED <<passkeys, codes>>
              /\ \A w \in Worker, u \in User :
                    /\ Saving(w, u)' <=> Saving(w, u)
                    /\ Saving(w, u) => job'[w].op = job[w].op
<1> DEFINE Left == /\ UNCHANGED <<passkeys, codes>>
                   /\ \A w \in Worker, u \in User :
                        /\ Saving(w, u)' <=> Saving(w, u)
                        /\ Saving(w, u) => job'[w].op = job[w].op
<1>1. job \in [Worker -> X!Job] /\ X!Idle.op = "idle"
  BY DEF X!TypeOK, X!Idle
<1>2. ASSUME NEW w \in Worker, NEW j, X!Set(w, j),
             job[w].op \notin {"count", "codes"}, j.op \notin {"count", "codes"},
             UNCHANGED <<passkeys, codes>>
      PROVE  Left
  BY <1>1, <1>2 DEF X!Set, Saving
<1>3. ASSUME UNCHANGED <<passkeys, codes, job>> PROVE Left
  BY <1>3 DEF Saving
<1>4. ASSUME NEW w \in Worker, X!UserStep(w) PROVE Left
  <2>1. ASSUME NEW u \in User, X!BeginSetup(w, u) PROVE Left
    BY <1>1, <1>2, <2>1 DEF X!BeginSetup, X!Start, X!secrets
  <2>2. ASSUME NEW u \in User, X!RegisterOpenly(w, u) PROVE Left
    BY <1>1, <1>2, <2>2 DEF X!RegisterOpenly, X!Start, X!secrets, X!Grant
  <2>3. ASSUME NEW u \in User, NEW i \in Invite, X!RegisterByInvite(w, u, i) PROVE Left
    BY <1>1, <1>2, <2>3 DEF X!RegisterByInvite, X!Start, X!secrets, X!Grant
  <2>4. ASSUME NEW i \in Invite, X!CreateInvite(w, i) PROVE Left
    BY <1>3, <2>4 DEF X!CreateInvite, X!secrets
  <2>5. ASSUME X!FinishSetup(w) PROVE Left
    BY <1>1, <1>2, <2>5 DEF X!FinishSetup, X!Doing, X!secrets, X!Grant, X!Done
  <2>6. QED
    BY <1>4, <2>1, <2>2, <2>3, <2>4, <2>5 DEF X!UserStep
<1>5. ASSUME NEW w \in Worker, NEW c \in Challenge, NEW u \in User,
             NEW kind \in {"registration", "totp", "authentication"}, X!Offer(w, c, u, kind)
      PROVE  Left
  BY <1>3, <1>5 DEF X!Offer
<1>6. ASSUME NEW w \in Worker, NEW c \in Challenge, NEW u \in User, X!LoginByPassword(w, u, c)
      PROVE  Left
  <2>1. UNCHANGED <<passkeys, codes>> /\ (job' = job \/ X!Grant(w, u, <<"password">>)) /\ job[w] = X!Idle
    BY <1>6 DEF X!LoginByPassword, X!Start
  <2>2. QED
    BY <1>1, <1>2, <1>3, <2>1 DEF X!Grant
<1>7. ASSUME NEW w \in Worker, NEW c \in Challenge, X!ReadChallenge(w, c) PROVE Left
  BY <1>1, <1>2, <1>7 DEF X!ReadChallenge, X!Start, X!secrets
<1>8. ASSUME NEW w \in Worker, X!Consume(w) PROVE Left
  <2> DEFINE c == job[w].challenge
  <2>1. c \in Challenge /\ challenge[c] \in X!ChallengeRow
    <3>1. c \in Challenge /\ challenge[c] # None
      BY <1>1, <1>8, JobTypes DEF X!Consume, X!Doing, HeldIsThere, Holds
    <3>2. QED
      BY <3>1 DEF X!TypeOK
  <2>2. X!Done(w) \/ X!Reward(w, c)
    BY <1>8 DEF X!Consume
  <2>3. challenge[c].kind \in {"registration", "totp", "authentication", "totp_login"}
    BY <2>1 DEF X!ChallengeRow
  <2>4. job[w].op = "consume" /\ UNCHANGED <<passkeys, codes>>
    BY <1>8 DEF X!Consume, X!Doing
  <2>5. ASSUME X!Done(w) PROVE Left
    BY <1>1, <1>2, <2>4, <2>5 DEF X!Done
  <2>6. ASSUME NEW op \in {"save", "enable"}, NEW u, X!Set(w, [op |-> op, user |-> u]) PROVE Left
    BY <1>2, <2>4, <2>6
  <2>7. ASSUME NEW u, NEW by, X!Grant(w, u, by) PROVE Left
    BY <1>2, <2>4, <2>7 DEF X!Grant
  <2>8. QED
    BY <2>2, <2>3, <2>5, <2>6, <2>7 DEF X!Reward
<1>9. ASSUME NEW w \in Worker, X!EnableTotp(w) \/ X!IssueSession(w) PROVE Left
  BY <1>1, <1>2, <1>9 DEF X!EnableTotp, X!IssueSession, X!Doing, X!Done, X!secrets
<1>10. ASSUME NEW w \in Worker, X!PlaceStep(w) PROVE Left
  <2>1. ASSUME NEW s \in Session, NEW d \in Device, NEW op \in {"register", "mutate"},
               X!BeginDevice(w, s, d, op)
        PROVE  Left
    BY <1>1, <1>2, <2>1 DEF X!BeginDevice, X!Start, X!secrets
  <2>2. ASSUME X!RegisterDevice(w) \/ X!LookAtDevice(w) PROVE Left
    <3>1. job[w].op \in {"register", "look"} /\ UNCHANGED <<passkeys, codes>>
      BY <2>2 DEF X!RegisterDevice, X!LookAtDevice, X!Doing, X!secrets
    <3>2. \E op \in {"look", "attach"} : X!Set(w, [job[w] EXCEPT !.op = op]) \/ X!Done(w)
      BY <2>2 DEF X!RegisterDevice, X!LookAtDevice
    <3>3. \A op \in {"look", "attach"} : [job[w] EXCEPT !.op = op].op = op
      <4>1. job[w] \in X!Job
        BY <1>1
      <4>2. job[w] = [op |-> job[w].op, session |-> job[w].session, device |-> job[w].device]
        BY <3>1, <4>1 DEF X!Job
      <4>3. QED
        BY <4>2
    <3>4. QED
      BY <1>1, <1>2, <3>1, <3>2, <3>3 DEF X!Done
  <2>3. ASSUME X!Attach(w) \/ X!CheckDevice(w) PROVE Left
    BY <1>1, <1>2, <2>3 DEF X!Attach, X!CheckDevice, X!Doing, X!Done, X!secrets
  <2>4. ASSUME NEW s \in Session, X!RevokeSession(w, s) PROVE Left
    BY <1>3, <2>4 DEF X!RevokeSession, X!secrets
  <2>5. ASSUME NEW d \in Device, X!RevokeDevice(w, d) PROVE Left
    BY <1>3, <2>5 DEF X!RevokeDevice, X!secrets
  <2>6. ASSUME NEW s \in Session, X!Resolve(w, s) PROVE Left
    BY <1>1, <1>2, <2>6 DEF X!Resolve, X!Start, X!secrets
  <2>7. ASSUME X!Touch(w) PROVE Left
    BY <1>1, <1>2, <2>7 DEF X!Touch, X!Doing, X!Done, X!secrets
  <2>8. QED
    BY <1>10, <2>1, <2>2, <2>3, <2>4, <2>5, <2>6, <2>7 DEF X!PlaceStep
<1>11. ASSUME NEW w \in Worker, X!LinkStep(w) PROVE Left
  <2>1. ASSUME NEW u \in User, NEW k \in Discord,
               X!ConsumeLinkToken(w, u, k) \/ X!OAuthCallback(w, u, k)
        PROVE  Left
    BY <1>1, <1>2, <2>1 DEF X!ConsumeLinkToken, X!OAuthCallback, X!Start, X!secrets
  <2>2. ASSUME NEW u \in User, X!RevokeLink(w, u) PROVE Left
    BY <1>3, <2>2 DEF X!RevokeLink, X!secrets
  <2>3. ASSUME X!SaveLink(w) PROVE Left
    BY <1>1, <1>2, <2>3 DEF X!SaveLink, X!Doing, X!Done, X!secrets
  <2>4. QED
    BY <1>11, <2>1, <2>2, <2>3 DEF X!LinkStep
<1>12. ASSUME \/ \E i \in Invite : X!RevokeInvite(i)
              \/ \E c \in Challenge : X!ChallengeExpires(c)
              \/ \E s \in Session : X!SessionExpires(s) \/ X!GoesIdle(s)
              \/ \E k \in Discord : X!CreateLinkToken(k)
       PROVE  Left
  BY <1>3, <1>12
     DEF X!RevokeInvite, X!ChallengeExpires, X!SessionExpires, X!GoesIdle, X!CreateLinkToken,
         X!secrets
<1>13. QED
  BY <1>4, <1>5, <1>6, <1>7, <1>8, <1>9, <1>10, <1>11, <1>12 DEF X!Next, X!SignInStep

LEMMA CodesMadeOnceKept ==
    ASSUME X!TypeOK, HeldIsThere, CodesAreMadeOnce, X!Next
    PROVE  CodesAreMadeOnce'
<1> SUFFICES ASSUME NEW u \in User PROVE CodesMadeOnceFor(u)'
  BY DEF CodesAreMadeOnce
<1>1. /\ job \in [Worker -> X!Job] /\ passkeys \in [User -> 0..MaxPasskeys] /\ MaxPasskeys \in Nat
      /\ codes \in [User -> [Code -> {"none", "fresh", "used"}]]
      /\ X!Idle.op = "idle"
  BY PlatformAssumption DEF X!TypeOK, X!Idle, AccessAssumption
<1>2. CodesMadeOnceFor(u) /\ crossed \subseteq crossed'
  BY HistoryKept DEF CodesAreMadeOnce
<1>3. /\ passkeys[u] = 0 => NoCodes(u) /\ \A w \in Worker : ~Saving(w, u)
      /\ \A w \in Worker : WillMakeCodes(w, u) <=>
            Saving(w, u) /\ (job[w].op = "codes" \/ passkeys[u] = 1)
      /\ passkeys[u] \in Nat
  BY <1>1, <1>2 DEF CodesMadeOnceFor, WillMakeCodes, X!SavingFor, Saving
<1>4. \A w \in Worker : WillMakeCodes(w, u)' <=>
        Saving(w, u)' /\ (job'[w].op = "codes" \/ passkeys'[u] = 1)
  BY DEF WillMakeCodes, X!SavingFor, Saving
<1>5. ASSUME passkeys'[u] = 0 => (NoCodes(u) /\ \A w \in Worker : ~Saving(w, u))',
             \A w \in Worker : WillMakeCodes(w, u)' => NoCodes(u)',
             \A v, w \in Worker : WillMakeCodes(v, u)' /\ WillMakeCodes(w, u)' => v = w,
             passkeys'[u] > 0 /\ u \notin crossed' =>
                \/ \A c \in Code : codes'[u][c] # "none"
                \/ \E w \in Worker : WillMakeCodes(w, u)'
      PROVE  CodesMadeOnceFor(u)'
  BY <1>5 DEF CodesMadeOnceFor, X!SavingFor, Saving
<1>6. ASSUME NEW w \in Worker, X!SavePasskey(w) PROVE CodesMadeOnceFor(u)'
  <2>1. PICK j : j = [op |-> "count", user |-> job[w].user]
    OBVIOUS
  <2>2. /\ job' = [job EXCEPT ![w] = j] /\ job[w].op = "save"
        /\ j.op = "count" /\ j.user = job[w].user /\ job[w].user \in User
    BY <1>1, <1>6, <2>1, JobTypes DEF X!SavePasskey, X!Set, X!Doing
  <2>3. /\ passkeys' = [passkeys EXCEPT ![job[w].user] = @ + 1] /\ codes' = codes
        /\ X!SavingFor(job[w].user) # {} => job[w].user \in crossed'
    BY <1>6 DEF X!SavePasskey
  <2>4. CASE job[w].user # u
    BY <1>1, <1>2, <2>2, <2>3, <2>4, CodesUntouched DEF Saving
  <2>5. CASE job[w].user = u
    <3>1. /\ passkeys'[u] = passkeys[u] + 1 /\ codes'[u] = codes[u]
          /\ \A v \in Worker : Saving(v, u)' <=> v = w \/ Saving(v, u)
          /\ \A v \in Worker \ {w} : job'[v] = job[v]
          /\ job'[w].op = "count" /\ ~Saving(w, u)
      BY <1>1, <2>2, <2>3, <2>5 DEF Saving
    <3>2. NoCodes(u)' <=> NoCodes(u)
      BY <3>1 DEF NoCodes
    <3>3. CASE passkeys[u] = 0
      BY <1>3, <1>4, <1>5, <3>1, <3>2, <3>3
    <3>4. CASE passkeys[u] > 0
      <4>1. \A v \in Worker : WillMakeCodes(v, u)' => WillMakeCodes(v, u)
        BY <1>3, <1>4, <3>1, <3>4
      <4>2. u \notin crossed' => u \notin crossed /\ \A v \in Worker : ~Saving(v, u)
        BY <1>2, <2>3, <2>5 DEF X!SavingFor, Saving
      <4>3. u \notin crossed' => \A c \in Code : codes'[u][c] # "none"
        BY <1>2, <1>3, <3>1, <3>4, <4>2 DEF CodesMadeOnceFor
      <4>4. QED
        BY <1>2, <1>3, <1>5, <3>1, <3>2, <3>4, <4>1, <4>3 DEF CodesMadeOnceFor
    <3>5. QED
      BY <1>3, <3>3, <3>4
  <2>6. QED
    BY <2>4, <2>5
<1>7. ASSUME NEW w \in Worker, X!CountPasskeys(w) PROVE CodesMadeOnceFor(u)'
  <2>1. /\ UNCHANGED <<passkeys, codes, crossed>> /\ job[w].op = "count"
        /\ job[w].user \in User
    BY <1>1, <1>7, JobTypes DEF X!CountPasskeys, X!Doing, X!secrets
  <2>2. CASE passkeys[job[w].user] = 1
    <3>1. PICK j : j = [op |-> "codes", user |-> job[w].user]
      OBVIOUS
    <3>2. job' = [job EXCEPT ![w] = j] /\ j.op = "codes" /\ j.user = job[w].user
      BY <1>7, <2>2, <3>1 DEF X!CountPasskeys, X!FirstPasskey, X!Set
    <3>3. \A v \in Worker : Saving(v, u)' <=> Saving(v, u)
      BY <1>1, <2>1, <3>2 DEF Saving
    <3>4. \A v \in Worker : WillMakeCodes(v, u)' <=> WillMakeCodes(v, u)
      BY <1>1, <1>3, <1>4, <2>1, <2>2, <3>2, <3>3 DEF Saving
    <3>5. QED
      BY <1>2, <1>3, <1>5, <2>1, <3>3, <3>4 DEF CodesMadeOnceFor, NoCodes
  <2>3. CASE passkeys[job[w].user] # 1
    <3>1. job' = [job EXCEPT ![w] = X!Idle]
      BY <1>7, <2>3 DEF X!CountPasskeys, X!FirstPasskey, X!Done, X!Set
    <3>2. /\ \A v \in Worker : Saving(v, u)' <=> v # w /\ Saving(v, u)
          /\ \A v \in Worker \ {w} : job'[v] = job[v]
      BY <1>1, <3>1 DEF Saving
    <3>3. \A v \in Worker : WillMakeCodes(v, u)' <=> WillMakeCodes(v, u)
      BY <1>1, <1>3, <1>4, <2>1, <2>3, <3>2 DEF Saving
    <3>4. QED
      BY <1>2, <1>3, <1>5, <2>1, <3>2, <3>3 DEF CodesMadeOnceFor, NoCodes
  <2>4. QED
    BY <2>2, <2>3
<1>8. ASSUME NEW w \in Worker, X!ReplaceRecoveryCodes(w) PROVE CodesMadeOnceFor(u)'
  <2>1. /\ UNCHANGED <<passkeys, crossed>> /\ job[w].op = "codes" /\ job[w].user \in User
        /\ codes' = [codes EXCEPT ![job[w].user] = [c \in Code |-> "fresh"]]
        /\ job' = [job EXCEPT ![w] = X!Idle]
    BY <1>1, <1>8, JobTypes DEF X!ReplaceRecoveryCodes, X!Doing, X!Done, X!Set
  <2>2. CASE job[w].user # u
    BY <1>1, <1>2, <2>1, <2>2, CodesUntouched DEF Saving
  <2>3. CASE job[w].user = u
    <3>1. /\ \A v \in Worker : Saving(v, u)' <=> v # w /\ Saving(v, u)
          /\ \A v \in Worker \ {w} : job'[v] = job[v]
          /\ \A c \in Code : codes'[u][c] = "fresh"
          /\ Saving(w, u)
      BY <1>1, <2>1, <2>3 DEF Saving
    <3>2. \A v \in Worker : ~WillMakeCodes(v, u)'
      BY <1>2, <1>3, <1>4, <2>1, <3>1 DEF CodesMadeOnceFor
    <3>3. QED
      BY <1>3, <1>5, <2>1, <3>1, <3>2
  <2>4. QED
    BY <2>2, <2>3
<1>9. ASSUME NEW w \in Worker, NEW x \in User, NEW c \in Code, X!LoginByRecoveryCode(w, x, c)
      PROVE  CodesMadeOnceFor(u)'
  <2>1. PICK j : j = [op |-> "issue", user |-> x, by |-> <<"recovery", x, c>>]
    OBVIOUS
  <2>2. /\ UNCHANGED <<passkeys, crossed>> /\ job[w].op = "idle"
        /\ codes[x][c] = "fresh" /\ codes' = [codes EXCEPT ![x][c] = "used"]
        /\ job' = [job EXCEPT ![w] = j] /\ j.op = "issue"
    BY <1>1, <1>9, <2>1 DEF X!LoginByRecoveryCode, X!Start, X!Grant, X!Set, X!FreshCode
  <2>3. /\ \A v \in Worker : Saving(v, u)' <=> Saving(v, u)
        /\ \A v \in Worker : Saving(v, u) => job'[v] = job[v]
    BY <1>1, <2>2 DEF Saving
  <2>4. CASE x # u
    BY <1>1, <1>2, <2>2, <2>3, <2>4, CodesUntouched
  <2>5. CASE x = u
    <3>1. \A v \in Worker : ~WillMakeCodes(v, u) /\ ~WillMakeCodes(v, u)'
      BY <1>2, <1>3, <1>4, <2>2, <2>3, <2>5 DEF CodesMadeOnceFor, NoCodes
    <3>2. \A d \in Code : codes[u][d] # "none" => codes'[u][d] # "none"
      BY <1>1, <2>2, <2>5
    <3>3. passkeys[u] # 0
      BY <1>3, <2>2, <2>5 DEF NoCodes
    <3>4. QED
      BY <1>2, <1>5, <2>2, <3>1, <3>2, <3>3 DEF CodesMadeOnceFor
  <2>6. QED
    BY <2>4, <2>5
<1>10. ASSUME NEW w \in Worker, X!Crash(w) PROVE CodesMadeOnceFor(u)'
  <2>1. /\ UNCHANGED <<passkeys, codes>> /\ job' = [job EXCEPT ![w] = X!Idle]
        /\ Saving(w, u) => u \in crossed'
    BY <1>10 DEF X!Crash, X!Done, X!Set, X!secrets, Saving
  <2>2. /\ \A v \in Worker : Saving(v, u)' <=> v # w /\ Saving(v, u)
        /\ \A v \in Worker \ {w} : job'[v] = job[v]
    BY <1>1, <2>1 DEF Saving
  <2>3. \A v \in Worker : WillMakeCodes(v, u)' <=> v # w /\ WillMakeCodes(v, u)
    BY <1>3, <1>4, <2>1, <2>2
  <2>4. u \notin crossed' => \A v \in Worker : WillMakeCodes(v, u)' <=> WillMakeCodes(v, u)
    BY <1>3, <2>1, <2>3
  <2>5. QED
    BY <1>2, <1>3, <1>5, <2>1, <2>2, <2>3, <2>4 DEF CodesMadeOnceFor, NoCodes
<1>11. ASSUME UNCHANGED <<passkeys, codes>>,
              \A w \in Worker, x \in User : /\ Saving(w, x)' <=> Saving(w, x)
                                            /\ Saving(w, x) => job'[w].op = job[w].op
       PROVE  CodesMadeOnceFor(u)'
  BY <1>2, <1>11, CodesUntouched
<1>12. QED
  BY <1>6, <1>7, <1>8, <1>9, <1>10, <1>11, OtherRequests

-------------------------------------------------------------------------------
(* Revoked devices, and the links to Discord.                              *)

\* A session is attached to a revoked device only by a request that is remembered; whoever
\* revokes the device ends all sessions it has then, which are of the device's user.
LEMMA RevokedDevicesKept ==
    ASSUME X!TypeOK, HeldIsThere, X!NoSessionOnRevokedDevice, X!Next
    PROVE  (X!NoSessionOnRevokedDevice)'
<1> DEFINE Goal(s) == session'[s].state \in {"live", "idle"} /\ session'[s].device # None
                        /\ device'[session'[s].device].revoked => s \in crossed'
<1>1. /\ session \in [Session -> X!SessionRow \cup {None}]
      /\ device \in [Device -> X!DeviceRow \cup {None}]
      /\ job \in [Worker -> X!Job]
      /\ crossed \subseteq crossed'
  BY HistoryKept DEF X!TypeOK
<1>2. SUFFICES ASSUME NEW s \in Session, session'[s] # None PROVE Goal(s)
  BY DEF X!NoSessionOnRevokedDevice, X!IsActive
<1>3. /\ session[s] # None => session[s] \in X!SessionRow
      /\ session[s] # None /\ session[s].state \in {"live", "idle"} /\ session[s].device # None
            /\ device[session[s].device].revoked => s \in crossed
      /\ session[s] # None /\ session[s].device # None =>
            /\ session[s].device \in Device /\ device[session[s].device] # None
            /\ device[session[s].device].user = session[s].user
  <2>1. session[s] # None => session[s] \in X!SessionRow
    BY <1>1
  <2>2. session[s] # None /\ session[s].device # None => session[s].device \in Device
    BY <2>1 DEF X!SessionRow
  <2>3. QED
    BY <2>1, <2>2 DEF X!NoSessionOnRevokedDevice, X!IsActive, X!TypeOK
<1>4. ASSUME session'[s] = session[s], device' = device PROVE Goal(s)
  BY <1>1, <1>2, <1>3, <1>4
<1>5. ASSUME NEW w \in Worker, X!IssueSession(w) PROVE Goal(s)
  <2> DEFINE row == [user |-> job[w].user, device |-> None, state |-> "live", by |-> job[w].by]
  <2>1. PICK t \in Session : session' = [session EXCEPT ![t] = row]
    BY <1>5 DEF X!IssueSession
  <2>2. row.device = None /\ device' = device
    BY <1>5 DEF X!IssueSession
  <2> HIDE DEF row
  <2>3. QED
    BY <1>1, <1>4, <2>1, <2>2
<1>6. ASSUME NEW w \in Worker, X!Attach(w) PROVE Goal(s)
  <2>1. /\ session' = [session EXCEPT ![job[w].session].device = job[w].device]
        /\ device' = device
        /\ device[job[w].device].revoked => job[w].session \in crossed'
    BY <1>6 DEF X!Attach
  <2>2. CASE s = job[w].session
    <3>1. session[s] # None
      BY <1>1, <1>6, <2>2, JobTypes DEF X!Attach, X!Doing, HeldIsThere, Holds
    <3>2. session'[s].device = job[w].device
      BY <1>1, <1>3, <2>1, <2>2, <3>1 DEF X!SessionRow
    <3>3. QED
      BY <2>1, <2>2, <3>2
  <2>3. CASE s # job[w].session
    BY <1>1, <1>4, <2>1, <2>3
  <2>4. QED
    BY <2>2, <2>3
<1>7. ASSUME NEW t \in Session, session[t] # None,
             NEW state \in {"live", "idle", "expired", "revoked"},
             state \in {"live", "idle"} => X!IsActive(t),
             session' = [session EXCEPT ![t].state = state], device' = device
      PROVE  Goal(s)
  <2>1. CASE s = t
    <3>1. session'[s].state = state /\ session'[s].device = session[s].device
      BY <1>1, <1>3, <1>7, <2>1 DEF X!SessionRow
    <3>2. QED
      BY <1>1, <1>3, <1>7, <2>1, <3>1 DEF X!IsActive
  <2>2. CASE s # t
    BY <1>1, <1>4, <1>7, <2>2
  <2>3. QED
    BY <2>1, <2>2
<1>8. ASSUME NEW w \in Worker, X!RegisterDevice(w) \/ X!CheckDevice(w) PROVE Goal(s)
  <2> DEFINE u == session[job[w].session].user
             row == [user |-> u, revoked |-> FALSE]
  <2>1. session' = session /\ device' \in {device, [device EXCEPT ![job[w].device] = row]}
    BY <1>8 DEF X!RegisterDevice, X!CheckDevice
  <2>2. ~row.revoked
    OBVIOUS
  <2> HIDE DEF row
  <2>3. QED
    BY <1>1, <1>2, <1>3, <1>4, <2>1, <2>2
<1>9. ASSUME NEW w \in Worker, NEW d \in Device, X!RevokeDevice(w, d) PROVE Goal(s)
  <2>1. /\ device' = [device EXCEPT ![d].revoked = TRUE]
        /\ session'[s] = IF session[s] # None /\ session[s].device = d
                            /\ session[s].user = device[d].user
                         THEN [session[s] EXCEPT !.state = "revoked"] ELSE session[s]
    BY <1>9 DEF X!RevokeDevice, X!SessionsOfDevice
  <2>2. session[s] # None
    BY <1>2, <2>1
  <2>3. CASE session[s].device = d
    <3>1. session'[s] = [session[s] EXCEPT !.state = "revoked"]
      BY <1>3, <1>1, <2>1, <2>2, <2>3, PlatformAssumption DEF NoneAssumption
    <3>2. session'[s].state = "revoked"
      BY <1>3, <2>2, <3>1 DEF X!SessionRow
    <3>3. QED
      BY <3>2
  <2>4. CASE session[s].device # d
    BY <1>1, <1>3, <2>1, <2>2, <2>4
  <2>5. QED
    BY <2>3, <2>4
<1>10. QED
  <2>1. ASSUME \/ \E w \in Worker : X!Touch(w) \/ \E t \in Session : X!RevokeSession(w, t)
               \/ \E t \in Session : X!SessionExpires(t) \/ X!GoesIdle(t)
        PROVE  Goal(s)
    BY <1>7, <2>1, SessionsAge
  <2>2. QED
    BY <1>4, <1>5, <1>6, <1>8, <1>9, <2>1, TablesWritten DEF SessionStep, DeviceStep

\* A link is saved only where no other user has a row with the same Discord account.
LEMMA LinksOfOneKept ==
    ASSUME X!TypeOK, HeldIsThere, X!OneUserPerDiscord, X!Next
    PROVE  (X!OneUserPerDiscord)'
<1>1. /\ link \in [User -> X!LinkRow \cup {None}] /\ job \in [Worker -> X!Job]
  BY DEF X!TypeOK
<1>2. ASSUME UNCHANGED link PROVE (X!OneUserPerDiscord)'
  BY <1>2 DEF X!OneUserPerDiscord
<1>3. ASSUME NEW w \in Worker, NEW u \in User, X!RevokeLink(w, u) PROVE (X!OneUserPerDiscord)'
  <2>1. link[u] # None /\ link' = [link EXCEPT ![u].live = FALSE]
    BY <1>3 DEF X!RevokeLink
  <2>2. link'[u].discord = link[u].discord /\ \A v \in User \ {u} : link'[v] = link[v]
    BY <1>1, <2>1 DEF X!LinkRow
  <2>3. QED
    BY <2>1, <2>2 DEF X!OneUserPerDiscord
<1>4. ASSUME NEW w \in Worker, X!SaveLink(w) PROVE (X!OneUserPerDiscord)'
  <2> DEFINE row == [discord |-> job[w].discord, live |-> TRUE]
  <2>1. job[w].user \in User
    BY <1>1, <1>4, JobTypes DEF X!SaveLink, X!Doing
  <2>2. CASE X!HeldByOther(job[w].user, job[w].discord)
    BY <1>2, <1>4, <2>2 DEF X!SaveLink
  <2>3. CASE ~X!HeldByOther(job[w].user, job[w].discord)
    <3>1. link' = [link EXCEPT ![job[w].user] = row] /\ row.discord = job[w].discord
      BY <1>4, <2>3 DEF X!SaveLink
    <3> HIDE DEF row
    <3>2. \A v \in User \ {job[w].user} : link[v] # None => link[v].discord # row.discord
      BY <2>3, <3>1 DEF X!HeldByOther
    <3>3. QED
      BY <1>1, <2>1, <3>1, <3>2 DEF X!OneUserPerDiscord
  <2>4. QED
    BY <2>2, <2>3
<1>5. QED
  BY <1>2, <1>3, <1>4, TablesWritten DEF DiscordStep, X!ConsumeLinkToken, X!CreateLinkToken

LEMMA StepAccessInv == AccessInv /\ X!Next => AccessInv'
<1> SUFFICES ASSUME AccessInv, X!Next PROVE AccessInv'
  OBVIOUS
<1>1. /\ X!TypeOK /\ HeldIsThere /\ AllIsSpent /\ X!UsedOnce /\ CodesAreMadeOnce
      /\ X!NoSessionOnRevokedDevice /\ X!OneUserPerDiscord
  BY DEF AccessInv
<1>2. (X!TypeOK)' /\ HeldIsThere'
  BY <1>1, AccessTypeKept, JobsKept
<1>3. AllIsSpent' /\ (X!UsedOnce)'
  BY <1>1, SpentKept, OnceKept
<1>4. CodesAreMadeOnce'
  BY <1>1, CodesMadeOnceKept
<1>5. (X!NoSessionOnRevokedDevice)' /\ (X!OneUserPerDiscord)'
  BY <1>1, RevokedDevicesKept, LinksOfOneKept
<1>6. QED
  BY <1>2, <1>3, <1>4, <1>5 DEF AccessInv

\* Nothing that was ended comes back.
LEMMA EndedKept == AccessInv /\ X!Next => X!EndedStays
<1> SUFFICES ASSUME AccessInv, X!Next PROVE X!EndedStays
  OBVIOUS
<1>1. X!TypeOK /\ HeldIsThere /\ CodesAreMadeOnce
  BY DEF AccessInv
<1>2. \A d \in Device : device[d] # None /\ device[d].revoked => device'[d].revoked
  BY <1>1, PlacesKept DEF SameDevice
<1>3. \A s \in Session : session[s] # None /\ ~X!IsActive(s) =>
        session'[s].state \notin {"live", "idle"}
  <2>1. \A s \in Session : session[s] # None /\ ~X!IsActive(s) =>
            session[s].state \in {"expired", "revoked"}
    BY <1>1 DEF X!TypeOK, X!SessionRow, X!IsActive
  <2>2. QED
    BY <1>1, <2>1, PlacesKept DEF SameSession
<1>4. \A u \in User, c \in Code : codes[u][c] = "used" => codes'[u][c] # "fresh"
  BY <1>1, CodesStayUsed
<1>5. QED
  BY <1>2, <1>3, <1>4 DEF X!EndedStays

\* Whoever has a passkey, and no registration under way, has the codes.
LEMMA PasskeysHaveCodes == AccessInv => X!PasskeyHasCodes
<1> SUFFICES ASSUME AccessInv, NEW u \in User, passkeys[u] > 0, X!SavingFor(u) = {}, u \notin crossed
             PROVE  \A c \in Code : codes[u][c] # "none"
  BY DEF X!PasskeyHasCodes
<1>1. QED
  BY DEF AccessInv, CodesAreMadeOnce, CodesMadeOnceFor, WillMakeCodes

-------------------------------------------------------------------------------
(* The platform: one of the parts moves, and the others stay.              *)

\* The invariant holds at the start of each part.
LEMMA InitPlatformInv == PlatformInit => PlatformInv
<1> SUFFICES ASSUME PlatformInit PROVE PlatformInv
  OBVIOUS
<1>1. TypeOK /\ ServerInv
  BY InitTypeOK, InitServerInv DEF PlatformInit
<1>2. part = "access" => AccessInv
  BY InitAccessInv DEF PlatformInit
<1>3. part = "reminders" => ReminderInv
  BY InitReminderInv DEF PlatformInit
<1>4. part = "files" => FileInv
  BY InitFileInv DEF PlatformInit
<1>5. QED
  BY <1>1, <1>2, <1>3, <1>4 DEF PlatformInv

\* A step that leaves the variables of a part leaves what is said about them.
LEMMA StayAccessInv == AccessInv /\ UNCHANGED access => AccessInv' /\ X!EndedStays
<1> SUFFICES ASSUME AccessInv, UNCHANGED access PROVE AccessInv' /\ X!EndedStays
  OBVIOUS
<1> USE DEF access
<1>1. (X!TypeOK)'
  BY DEF AccessInv, X!TypeOK, X!Registered
<1>2. HeldIsThere' /\ AllIsSpent'
  BY DEF AccessInv, HeldIsThere, Holds, AllIsSpent, Spent, X!Registered
<1>3. (X!UsedOnce)'
  BY ZenonT(60) DEF AccessInv, X!UsedOnce, X!Grants, X!GrantsUnderWay, X!Registered
<1>4. CodesAreMadeOnce'
  BY DEF AccessInv, CodesAreMadeOnce, CodesMadeOnceFor, WillMakeCodes, NoCodes, X!SavingFor
<1>5. (X!NoSessionOnRevokedDevice)' /\ (X!OneUserPerDiscord)'
  BY DEF AccessInv, X!NoSessionOnRevokedDevice, X!OneUserPerDiscord, X!IsActive
<1>6. X!EndedStays
  BY DEF X!EndedStays, X!IsActive
<1>7. QED
  BY <1>1, <1>2, <1>3, <1>4, <1>5, <1>6 DEF AccessInv

LEMMA StayReminderInv == ReminderInv /\ UNCHANGED reminders => ReminderInv' /\ R!BeginsOutside
<1> SUFFICES ASSUME ReminderInv, UNCHANGED reminders PROVE ReminderInv' /\ R!BeginsOutside
  OBVIOUS
<1> USE DEF reminders
<1>1. (R!TypeOK)' /\ (R!SaidOnce)' /\ (R!CooldownKept)'
  BY DEF ReminderInv, R!TypeOK, R!SaidOnce, R!CooldownKept
<1>2. R!BeginsOutside
  BY DEF R!BeginsOutside
<1>3. QED
  BY <1>1, <1>2 DEF ReminderInv, KeyOf, R!Recent

LEMMA StayFileInv == FileInv /\ UNCHANGED files => FileInv'
BY DEF FileInv, F!TypeOK, F!EveryFileIsAccounted, F!UnderWay, files

\* One part moves; in each part, its invariant is kept.
LEMMA StepPlatformInv ==
    PlatformInv /\ [PlatformNext]_platformVars =>
        /\ PlatformInv'
        /\ part = "access" => X!EndedStays
        /\ part = "reminders" => R!BeginsOutside
<1> SUFFICES ASSUME PlatformInv, [PlatformNext]_platformVars
             PROVE  /\ PlatformInv'
                    /\ part = "access" => X!EndedStays
                    /\ part = "reminders" => R!BeginsOutside
  OBVIOUS
<1>1. part' = part
  BY DEF PlatformNext, platformVars
<1>2. [Next]_vars
  BY DEF PlatformNext, platformVars
<1>3. TypeOK' /\ ServerInv'
  BY <1>2, StepTypeOK, StepServerInv DEF PlatformInv, ServerInv
<1>4. part = "access" => AccessInv' /\ X!EndedStays
  <2>1. part = "access" => X!Next \/ UNCHANGED access
    BY DEF PlatformNext, platformVars
  <2>2. QED
    BY <2>1, StepAccessInv, EndedKept, StayAccessInv DEF PlatformInv
<1>5. part = "reminders" => ReminderInv' /\ R!BeginsOutside
  <2>1. part = "reminders" => R!Next \/ UNCHANGED reminders
    BY DEF PlatformNext, platformVars
  <2>2. QED
    BY <2>1, StepReminderInv, QuietKept, StayReminderInv DEF PlatformInv
<1>6. part = "files" => FileInv'
  <2>1. part = "files" => F!Next \/ UNCHANGED files
    BY DEF PlatformNext, platformVars
  <2>2. QED
    BY <2>1, StepFileInv, StayFileInv DEF PlatformInv
<1>7. QED
  BY <1>1, <1>3, <1>4, <1>5, <1>6 DEF PlatformInv

-------------------------------------------------------------------------------
(* The theorems.                                                           *)

\* In every state of every part the invariant holds.
LEMMA PlatformInvHolds == PlatformSpec => []PlatformInv
<1>1. PlatformInv /\ [PlatformNext]_platformVars => PlatformInv'
  BY StepPlatformInv
<1>2. QED
  BY <1>1, InitPlatformInv, PTL DEF PlatformSpec

\* The state of each part is of its type, whatever requests, scans, purges and crashes do:
\* sessions, links and challenges are of registered users, a device stays with its user,
\* and what was delivered was recorded (auth.ts, notification-scheduler.ts, file-store.ts).
THEOREM PlatformIsTyped == PlatformSpec => []PlatformTypeOK
<1>1. PlatformInv => PlatformTypeOK
  BY DEF PlatformInv, PlatformTypeOK, AccessInv, ReminderInv, FileInv
<1>2. QED
  BY <1>1, PlatformInvHolds, PTL

\* The claim of the first user, an invitation, a challenge and a recovery code each let one
\* request in, though each is read in one transaction and used in another, and a Discord
\* account speaks for one user (auth.ts, passkeys.ts, discord.ts).
THEOREM OneTimeThingsLetOneIn == PlatformSpec => []OneTimeThings
<1>1. PlatformInv => OneTimeThings
  BY DEF PlatformInv, OneTimeThings, AccessInv
<1>2. QED
  BY <1>1, PlatformInvHolds, PTL

\* A revoked device has no live session but one whose attachment had already looked, and a
\* user with a passkey has recovery codes once no registration is under way, but for first
\* passkeys saved side by side and interrupted registrations (sync.ts, passkey-routes.ts).
THEOREM RevokedDevicesHaveNoSession == PlatformSpec => []DevicesAndPasskeys
<1>1. PlatformInv => DevicesAndPasskeys
  BY PasskeysHaveCodes DEF PlatformInv, DevicesAndPasskeys, AccessInv
<1>2. QED
  BY <1>1, PlatformInvHolds, PTL

\* Every file on the disk has a row that is not marked as purged, by which retention finds
\* it, unless its import is at work on it or left it behind (file-store.ts, retention.ts).
THEOREM FilesAccounted == PlatformSpec => []FilesAreAccounted
<1>1. PlatformInv => FilesAreAccounted
  BY DEF PlatformInv, FilesAreAccounted, FileInv
<1>2. QED
  BY <1>1, PlatformInvHolds, PTL

\* However many scans run side by side, a reminder is delivered once under its key, and
\* reminders of one thing keep their distance, unless two scans had decided about it
\* together (notification-scheduler.ts).
THEOREM RemindersSaidOnce == PlatformSpec => []RemindersAreSaidOnce
<1>1. PlatformInv => RemindersAreSaidOnce
  BY DEF PlatformInv, RemindersAreSaidOnce, ReminderInv
<1>2. QED
  BY <1>1, PlatformInvHolds, PTL

\* No step brings back a revoked device, an ended session or a used recovery code, or begins
\* a scan of reminders in the quiet hours (auth.ts, sync.ts, quiet-hours.ts).
THEOREM EndedNeverComesBack == PlatformSpec => NothingComesBack
<1>1. PlatformInv /\ [PlatformNext]_platformVars =>
        [/\ part = "access" => X!EndedStays
         /\ part = "reminders" => R!BeginsOutside]_platformVars
  BY StepPlatformInv
<1>2. QED
  BY <1>1, PlatformInvHolds, PTL DEF PlatformSpec, NothingComesBack

===============================================================================
