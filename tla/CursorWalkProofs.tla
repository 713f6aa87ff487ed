--------------------------- MODULE CursorWalkProofs ---------------------------
(***************************************************************************)
(* A walk with a cursor (CursorWalk) is complete for any number of         *)
(* connections, keys and duplicates.  The invariant says that a client has *)
(* been shown exactly the entries up to its cursor.                        *)
(***************************************************************************)
EXTENDS CursorWalk, DBRouterProofs

\* The entries of P up to the key k.
UpTo(P, k) == {j \in P : ~Before(k, j)}

\* No duplicate of k's key follows k in P.
Drained(P, k) == \A j \in P : j[1] = k[1] => ~Before(k, j)

\* First has found the least entry, the router's own key apart, and is on its
\* way to place the cursor there.
FirstOK ==
    \A c \in Conns :
      pc[c] \in {"cl", "incl"} /\ req[c].op = "First" =>
        /\ reply[c].st = "entry" /\ reply[c].key = target[c]
        /\ \A j \in Present(store[req[c].table]) \ {Sentinel} : ~Before(j, target[c])

\* The walk w of a cursor at k has shown what is up to k in the tables s.
WalkOK(s, w, k) ==
    w.on => LET P == Present(s[w.table])
            IN /\ k \in P
               /\ w.seen \ {Sentinel} = UpTo(P, k) \ {Sentinel}
               /\ w.drained => Drained(P, k)

WInv ==
    /\ walk \in [Cursors -> Walk]
    /\ ~alive => \A u \in Cursors : ~walk[u].on
    /\ FirstOK
    /\ \A u \in Cursors : WalkOK(store, walk[u], cursor[u])

-----------------------------------------------------------------------------
(* The byte order *)

LEMMA KeyTransitive ==
    ASSUME NEW i \in Bytes, NEW j \in Bytes, NEW k \in Bytes, Before(i, j), Before(j, k)
    PROVE  Before(i, k)
<1>1. \A b \in {i, j, k} : b[1] \in Nat /\ b[2] \in Nat
  BY KeyParts
<1>. QED
  BY <1>1 DEF Before

\* Once k is shown after cur, and no entry is between them, what has been shown
\* is what is up to k.
LEMMA Successor ==
    ASSUME NEW P \in SUBSET Bytes, NEW cur \in P, NEW k \in P, Before(cur, k),
           \A j \in P : Before(cur, j) => ~Before(j, k)
    PROVE  UpTo(P, k) = UpTo(P, cur) \cup {k}
<1>1. ASSUME NEW j \in P, ~Before(k, j) PROVE ~Before(cur, j) \/ j = k
  BY <1>1, KeyOrder
<1>2. ASSUME NEW j \in P, ~Before(cur, j) PROVE ~Before(k, j)
  BY <1>2, KeyTransitive
<1>3. ~Before(k, k)
  BY KeyOrder
<1>. QED
  BY <1>1, <1>2, <1>3 DEF UpTo

\* The first entry.
LEMMA FirstShown ==
    ASSUME NEW P \in SUBSET Bytes, NEW k \in P, \A j \in P \ {Sentinel} : ~Before(j, k)
    PROVE  {k} \ {Sentinel} = UpTo(P, k) \ {Sentinel}
BY KeyOrder DEF UpTo

\* The second entry of an iterator that starts at the entry cur is the next one.
LEMMA SecondFollows ==
    ASSUME NEW S \in SUBSET Bytes, NEW cur \in S, \A j \in S : ~Before(j, cur),
           NEW k, IsSecond(k, S)
    PROVE  k \in S /\ Before(cur, k) /\ \A j \in S : Before(cur, j) => ~Before(j, k)
<1>1. PICK f \in S : IsLeast(f, S) /\ IsLeast(k, S \ {f})
  BY DEF IsSecond
<1>2. f = cur
  BY <1>1, KeyOrder DEF IsLeast
<1>. QED
  BY <1>1, <1>2, KeyOrder DEF IsLeast

\* What Next, NextDup and NextNoDup answer for the entries P and a cursor at cur.
LEMMA NextShown ==
    ASSUME NEW P \in SUBSET Bytes, NEW cur \in P
    PROVE  /\ \A k : IsSecond(k, From(P, cur)) =>
                     k \in P /\ UpTo(P, k) = UpTo(P, cur) \cup {k}
           /\ ~HasSecond(From(P, cur)) => UpTo(P, cur) = P
<1>. DEFINE S == From(P, cur)
<1>1. S \in SUBSET Bytes /\ cur \in S /\ \A j \in S : ~Before(j, cur)
  BY KeyOrder DEF From
<1>2. \A j \in P : Before(cur, j) => j \in S
  BY KeyOrder DEF From
<1>3. ASSUME NEW k, IsSecond(k, S) PROVE k \in P /\ UpTo(P, k) = UpTo(P, cur) \cup {k}
  <2>1. k \in S /\ Before(cur, k) /\ \A j \in S : Before(cur, j) => ~Before(j, k)
    BY <1>1, <1>3, SecondFollows
  <2>2. k \in P
    BY <2>1 DEF From
  <2>. QED
    BY <1>2, <2>1, <2>2, Successor
<1>4. ASSUME ~HasSecond(S) PROVE UpTo(P, cur) = P
  BY <1>1, <1>2, <1>4, KeyOrder DEF HasSecond, UpTo
<1>. QED
  BY <1>3, <1>4

LEMMA NextDupShown ==
    ASSUME NEW P \in SUBSET Bytes, NEW cur \in P
    PROVE  /\ \A k : IsSecond(k, WithPrefix(From(P, cur), cur)) =>
                     k \in P /\ UpTo(P, k) = UpTo(P, cur) \cup {k}
           /\ ~HasSecond(WithPrefix(From(P, cur), cur)) => Drained(P, cur)
<1>. DEFINE S == WithPrefix(From(P, cur), cur)
<1>1. S \in SUBSET Bytes /\ cur \in S /\ \A j \in S : ~Before(j, cur)
  BY KeyOrder DEF From, WithPrefix
<1>2. \A j \in P : Before(cur, j) /\ j[1] = cur[1] => j \in S
  BY KeyOrder DEF From, WithPrefix
<1>3. ASSUME NEW k, IsSecond(k, S) PROVE k \in P /\ UpTo(P, k) = UpTo(P, cur) \cup {k}
  <2>1. k \in S /\ Before(cur, k) /\ \A j \in S : Before(cur, j) => ~Before(j, k)
    BY <1>1, <1>3, SecondFollows
  <2>2. k \in P /\ k[1] = cur[1]
    BY <2>1 DEF From, WithPrefix
  <2>3. ASSUME NEW j \in P, Before(cur, j), Before(j, k) PROVE j[1] = cur[1]
    BY <2>2, <2>3, KeyParts DEF Before
  <2>. QED
    BY <1>2, <2>1, <2>2, <2>3, Successor
<1>4. ASSUME ~HasSecond(S) PROVE Drained(P, cur)
  BY <1>1, <1>2, <1>4, KeyOrder DEF HasSecond, Drained
<1>. QED
  BY <1>3, <1>4

LEMMA NextNoDupShown ==
    ASSUME NEW P \in SUBSET Bytes, NEW cur \in P, Drained(P, cur)
    PROVE  /\ \A k : IsLeast(k, BeyondPrefix(P, cur)) =>
                     k \in P /\ UpTo(P, k) = UpTo(P, cur) \cup {k}
           /\ BeyondPrefix(P, cur) = {} => UpTo(P, cur) = P
<1>. DEFINE S == BeyondPrefix(P, cur)
<1>1. \A j \in P : Before(cur, j) <=> j \in S
  BY KeyParts DEF Before, BeyondPrefix, Drained
<1>2. ASSUME NEW k, IsLeast(k, S) PROVE k \in P /\ UpTo(P, k) = UpTo(P, cur) \cup {k}
  <2>1. k \in P /\ k \in S
    BY <1>2 DEF IsLeast, BeyondPrefix
  <2>. QED
    BY <1>1, <1>2, <2>1, Successor DEF IsLeast
<1>. QED
  BY <1>1, <1>2 DEF UpTo

-----------------------------------------------------------------------------
(* Steps *)

\* A step is one of one connection.
LEMMA OneMoves ==
    ASSUME IInv, NEW d \in Conns, Serve(d) \/ Client(d), NEW e \in Conns, e # d
    PROVE  pc'[e] = pc[e]
<1>. USE DEF IInv, TypeOK
<1>1. CASE LoopTop(d) \/ Lock(d) \/ Accept(d) \/ Disconnect(d)
  BY <1>1 DEF LoopTop, Lock, AcquireR, Announce, AcquireW, AcquireCursorLock, Entered,
     Accept, Disconnect
<1>2. CASE Receive(d)
  BY <1>2, Received DEF Dispatch
<1>3. CASE Recurse(d) \/ Nested(d)
  BY <1>3 DEF Recurse, Nested, Respond
<1>4. CASE Operates(d)
  BY <1>4, OperatesShape DEF Shape, Respond, WantCursor, Panic
<1>. QED
  BY <1>1, <1>2, <1>3, <1>4 DEF Serve, Client, InMap, Operates

\* Who answers in a step has taken it.
LEMMA AnswersSteps ==
    ASSUME IInv, Next, NEW c \in Conns, Answers(c)
    PROVE  Operates(c) \/ Nested(c)
<1>. USE DEF IInv, TypeOK
<1>1. ~Restart
  BY DEF Restart, Answers
<1>2. PICK d \in Conns : Serve(d) \/ Client(d)
  BY <1>1 DEF Next
<1>3. d = c
  BY <1>2, OneMoves DEF Answers
<1>4. ~Client(c) /\ ~LoopTop(c)
  BY DEF Client, Accept, Disconnect, Receive, LoopTop, Answers
<1>5. ~Lock(c)
  BY DEF Lock, AcquireR, Announce, AcquireW, AcquireCursorLock, Entered, Answers
<1>6. ~Recurse(c)
  BY DEF Recurse, Answers
<1>. QED
  BY <1>2, <1>3, <1>4, <1>5, <1>6 DEF Serve, InMap, Operates

\* Only an answer moves a cursor, the one its request names.
LEMMA CursorsMove ==
    ASSUME IInv, Next, alive', ~Restart, NEW u \in Cursors, cursor'[u] # cursor[u]
    PROVE  \E c \in Conns : Answers(c) /\ req[c].cur = u
<1>. USE DEF IInv, TypeOK
<1>1. PICK c \in Conns : Serve(c) \/ Client(c)
  BY DEF Next
<1>2. ~Client(c) /\ ~LoopTop(c) /\ ~Lock(c) /\ ~Recurse(c) /\ ~Nested(c)
  BY DEF Client, Accept, Disconnect, Receive, LoopTop, Lock, AcquireR, Announce, AcquireW,
     AcquireCursorLock, Recurse, Nested, tables
<1>3. ~InTable(c)
  BY DEF InTable, Get, Put, Delete, Write, First, Last, Seek, SeekExact, SeekByKeySubkey,
     Upsert, Insert, Append, AppendDup, DeleteCurrent, MapRace, Panic, tables
<1>4. ~Panic /\ ~Current(c)
  BY DEF Panic, Current, tables
<1>5. \/ PlaceCursor(c) \/ Next_(c) \/ Prev(c) \/ NextDup(c) \/ NextNoDup(c)
      \/ DeleteCurrentDuplicates(c)
  BY <1>1, <1>2, <1>3, <1>4 DEF Serve, InMap
<1>6. pc[c] = "incl"
  BY <1>5 DEF PlaceCursor, Next_, Prev, NextDup, NextNoDup, DeleteCurrentDuplicates,
     Positioned, Runs
<1>7. \E r, k : Respond(c, r) /\ cursor' = [cursor EXCEPT ![req[c].cur] = k]
  BY <1>4, <1>5 DEF PlaceCursor, Next_, Prev, NextDup, NextNoDup, DeleteCurrentDuplicates,
     MoveCursor, tables
<1>. QED
  BY <1>6, <1>7 DEF Respond, Answers

\* Which step of an operation answers it.
LEMMA ByOperation ==
    ASSUME IInv, NEW c \in Conns, Operates(c) \/ Nested(c)
    PROVE  /\ req[c].op = "First" => First(c) \/ PlaceCursor(c)
           /\ req[c].op = "Next" => Next_(c) \/ Nested(c)
           /\ req[c].op = "NextDup" => NextDup(c) \/ Nested(c)
           /\ req[c].op = "NextNoDup" => NextNoDup(c) \/ Nested(c)
           /\ req[c].op = "Current" => Current(c)
<1>. DEFINE o == req[c].op
<1>1. CASE InTable(c)
  <2>1. o \notin MapFirst /\ (o = "First" => First(c))
    BY <1>1 DEF InTable, Get, Put, Delete, Write, First, Last, Seek, SeekExact, SeekByKeySubkey,
       Upsert, Insert, Append, AppendDup, DeleteCurrent, MapRace, Runs, MapFirst, CursorMoves
  <2>. QED
    BY <2>1 DEF MapFirst, CursorMoves
<1>2. CASE Nested(c)
  BY <1>2 DEF Nested, IInv, RequestsOK, CursorMoves
<1>3. CASE PlaceCursor(c)
  <2>1. o \notin MapFirst
    BY <1>3, Zenon DEF PlaceCursor
  <2>. QED
    BY <1>3, <2>1 DEF MapFirst, CursorMoves
<1>4. CASE \/ Next_(c) \/ Prev(c) \/ NextDup(c) \/ NextNoDup(c)
           \/ Current(c) \/ DeleteCurrentDuplicates(c)
  BY <1>4 DEF Next_, Prev, NextDup, NextNoDup, Current, DeleteCurrentDuplicates,
     Positioned, Runs
<1>. QED
  BY <1>1, <1>2, <1>3, <1>4 DEF Operates

-----------------------------------------------------------------------------
(* The invariant *)

\* What First has found stays the least entry while it waits: it keeps its read
\* lock, and only the sentinel is stored without one.
LEMMA FirstKeeps ==
    ASSUME IInv, ReadInv, FirstOK, Next
    PROVE  FirstOK'
<1>. USE DEF IInv, TypeOK
<1>1. ASSUME NEW c \in Conns, Operates(c) PROVE FirstOK'
  <2>1. /\ AnswerShape(c) /\ req' = req /\ (store' = store \/ Write(c))
    BY <1>1, OperatesAnswers DEF ReadInv
  <2>2. \A d \in Conns \ {c} : pc'[d] = pc[d] /\ reply'[d] = reply[d] /\ target'[d] = target[d]
    <3>1. \/ \E r \in Reply : Respond(c, r)
          \/ \E r \in Reply, k \in Bytes \cup {Unset} : WantCursor(c, k, r)
          \/ Panic
      BY <1>1, OperatesShape DEF Shape
    <3>. QED
      BY <3>1 DEF Respond, WantCursor, Panic
  <2>3. CASE Write(c)
    <3>1. pc'[c] = "top"
      BY <2>3 DEF Write, Respond
    <3>. QED
      BY <2>1, <2>2, <2>3, <3>1, WriteRunsAlone DEF ReadInv, FirstOK
  <2>4. CASE store' = store
    <3>. SUFFICES ASSUME pc'[c] \in {"cl", "incl"}, req[c].op = "First"
                  PROVE  /\ reply'[c].st = "entry" /\ reply'[c].key = target'[c]
                         /\ \A j \in Present(store[req[c].table]) \ {Sentinel} :
                              ~Before(j, target'[c])
      BY <2>1, <2>2, <2>4 DEF FirstOK
    <3>1. First(c)
      BY <1>1, ByOperation DEF PlaceCursor, Respond
    <3>2. PICK k \in Present(store[req[c].table]) :
            /\ IsLeast(k, Present(store[req[c].table]))
            /\ WantCursor(c, k, Entry(store[req[c].table], k))
      BY <3>1 DEF First, Respond
    <3>. QED
      BY <3>2 DEF WantCursor, Entry, IsLeast
  <2>. QED
    BY <2>1, <2>3, <2>4
<1>2. ASSUME NEW c \in Conns, Lock(c) \/ Recurse(c) \/ Nested(c) \/ LoopTop(c)
                              \/ Accept(c) \/ Disconnect(c)
      PROVE  FirstOK'
  <2>1. /\ store' = store
        /\ \A d \in Conns \ {c} : /\ pc'[d] = pc[d] /\ req'[d] = req[d]
                                  /\ reply'[d] = reply[d] /\ target'[d] = target[d]
    BY <1>2 DEF Lock, AcquireR, Announce, AcquireW, AcquireCursorLock, Entered, Recurse,
       Nested, Respond, LoopTop, Accept, Disconnect, tables
  <2>2. \/ pc'[c] \notin {"cl", "incl"}
        \/ pc'[c] = "cl" /\ req'[c].op \in MapFirst
        \/ /\ pc[c] = "cl" /\ pc'[c] = "incl"
           /\ req' = req /\ reply' = reply /\ target' = target
    BY <1>2 DEF Lock, AcquireR, Announce, AcquireW, AcquireCursorLock, Entered, Recurse,
       Nested, Respond, LoopTop, Accept, Disconnect
  <2>. QED
    BY <2>1, <2>2 DEF FirstOK, MapFirst, CursorMoves
<1>3. ASSUME NEW c \in Conns, Receive(c) PROVE FirstOK'
  <2>1. /\ pc'[c] \in {"rw", "top"} /\ target' = target
        /\ \A d \in Conns \ {c} : /\ pc'[d] = pc[d] /\ req'[d] = req[d]
                                  /\ reply'[d] = reply[d]
    <3>1. PICK r \in Request : Dispatch(c, r)
      BY <1>3, Received
    <3>. QED
      BY <1>3, <3>1 DEF Dispatch, Receive
  <2>2. \A t \in Tables : Present(store'[t]) \ {Sentinel} = Present(store[t]) \ {Sentinel}
    BY <1>3 DEF Receive, SentinelSet, Present, Contents
  <2>3. \A d \in Conns : pc[d] \in {"cl", "incl"} => req[d].table \in Tables
    BY DEF RequestsOK, Busy
  <2>. QED
    BY <2>1, <2>2, <2>3 DEF FirstOK
<1>4. CASE Restart
  BY <1>4 DEF Restart, FirstOK
<1>. QED
  BY <1>1, <1>2, <1>3, <1>4 DEF Next, Serve, Client, InMap, Operates

\* What becomes of a walk when its cursor's request is answered with a.
LEMMA WalkedCases ==
    ASSUME NEW w, NEW r, NEW a,
           \/ r.op \notin {"First", "Next", "NextDup", "NextNoDup", "Current"}
           \/ a.st \notin {"ok", "entry"} /\ r.op # "Current"
           \/ r.op = "First" /\ a.st # "entry"
           \/ r.op # "First" /\ ~(w.on /\ w.table = r.table)
    PROVE  Walked(w, r, a) = NoWalk
BY DEF Walked

\* The walk w once the entry k is shown, and once the end of the duplicates is.
Shows(w, k) == [w EXCEPT !.seen = @ \cup {k}, !.drained = FALSE]
Ends(w) == [w EXCEPT !.drained = TRUE]

LEMMA WalkFields ==
    ASSUME NEW w \in Walk, NEW k \in Bytes
    PROVE  /\ Shows(w, k) \in Walk /\ Shows(w, k).on = w.on /\ Shows(w, k).table = w.table
           /\ Shows(w, k).seen = w.seen \cup {k} /\ Shows(w, k).drained = FALSE
           /\ Ends(w) \in Walk /\ Ends(w).on = w.on /\ Ends(w).table = w.table
           /\ Ends(w).seen = w.seen
BY DEF Shows, Ends, Walk

\* A walk that goes on.
LEMMA WalkedOn ==
    ASSUME NEW w \in Walk, NEW r, NEW a, w.on, w.table = r.table
    PROVE  /\ r.op \in {"Next", "NextDup"} /\ a.st = "entry" =>
                Walked(w, r, a) = Shows(w, a.key)
           /\ r.op = "NextNoDup" /\ a.st = "entry" /\ w.drained =>
                Walked(w, r, a) = Shows(w, a.key)
           /\ r.op = "NextNoDup" /\ a.st = "entry" /\ ~w.drained => Walked(w, r, a) = NoWalk
           /\ r.op = "NextDup" /\ a.st = "ok" => Walked(w, r, a) = Ends(w)
           /\ r.op \in {"Next", "NextNoDup"} /\ a.st = "ok" => Walked(w, r, a) = w
           /\ r.op = "Current" => Walked(w, r, a) = w
BY DEF Walked, Walk, Shows, Ends

\* One that starts.
LEMMA WalkedFirst ==
    ASSUME NEW w, NEW r, NEW a, r.op = "First", a.st = "entry"
    PROVE  Walked(w, r, a) =
             [on |-> TRUE, table |-> r.table, seen |-> {a.key}, drained |-> FALSE]
BY DEF Walked

\* The inner call of a move without a position answers only in an empty table,
\* where no walk is on.
LEMMA NestedAnswers ==
    ASSUME IInv, NEW c \in Conns, Nested(c), Answers(c)
    PROVE  Present(store[req[c].table]) = {} /\ UNCHANGED tables
BY DEF Nested, Answers, IInv, TypeOK

\* An answer leaves its cursor's walk showing what is up to the cursor.
LEMMA AnswerKeeps ==
    ASSUME IInv, ReadInv, WInv, NEW c \in Conns, Operates(c) \/ Nested(c), Answers(c),
           req[c].cur \in Cursors
    PROVE  LET w == Walked(walk[req[c].cur], req[c], reply'[c])
           IN w \in Walk /\ WalkOK(store, w, cursor'[req[c].cur])
<1>. DEFINE t == req[c].table
            u == req[c].cur
            P == Present(store[t])
            cur == cursor[u]
            a == reply'[c]
            w == walk[u]
            new == Walked(w, req[c], a)
<1>0. /\ t \in Tables /\ u \in Cursors /\ w \in Walk /\ WalkOK(store, w, cur)
      /\ cursor \in [Cursors -> Bytes \cup {Unset}] /\ reply \in [Conns -> Reply]
      /\ P \in SUBSET Bytes /\ pc \in [Conns -> Places]
      /\ pc[c] \in {"in", "incl", "rec"} /\ pc'[c] = "top"
  BY DEF IInv, TypeOK, RequestsOK, Busy, WInv, Answers, Present
<1>1. NoWalk \in Walk /\ \A s, k : WalkOK(s, NoWalk, k)
  BY DEF NoWalk, Walk, WalkOK, Tables
<1>2. CASE new = NoWalk
  BY <1>1, <1>2
<1>3. CASE req[c].op = "First" /\ a.st = "entry"
  <2>1. PlaceCursor(c)
    <3>1. ~First(c)
      BY <1>0, <1>3 DEF First, Respond, WantCursor, Success
    <3>. QED
      BY <1>3, <3>1, ByOperation
  <2>2. /\ a = reply[c] /\ pc[c] = "incl"
        /\ cursor' = IF reply[c].st \in Errors THEN cursor ELSE [cursor EXCEPT ![u] = target[c]]
    BY <1>0, <2>1 DEF PlaceCursor, Respond
  <2>3. cursor'[u] = target[c]
    BY <1>0, <1>3, <2>2 DEF Errors
  <2>4. a.key = target[c] /\ \A j \in P \ {Sentinel} : ~Before(j, target[c])
    BY <1>3, <2>2 DEF WInv, FirstOK
  <2>5. a.key \in P
    <3>1. store[t][a.key] = a.val
      BY <1>3, <2>2 DEF ReadInv, AnswersOK
    <3>2. a.key \in Bytes /\ a.val \in StoredValues
      BY <1>0, <1>3, <2>2 DEF Reply, Errors
    <3>. QED
      BY <3>1, <3>2, TablesAssumption DEF Present, StoredValues
  <2>6. new = [on |-> TRUE, table |-> t, seen |-> {a.key}, drained |-> FALSE]
    BY <1>3, WalkedFirst
  <2>7. new.seen \ {Sentinel} = UpTo(P, a.key) \ {Sentinel}
    BY <1>0, <2>4, <2>5, <2>6, FirstShown
  <2>8. new \in Walk
    BY <1>0, <2>5, <2>6 DEF Walk
  <2>. QED
    BY <2>3, <2>4, <2>5, <2>6, <2>7, <2>8 DEF WalkOK
<1>4. CASE /\ req[c].op \in {"Next", "NextDup", "NextNoDup", "Current"}
           /\ w.on /\ w.table = t
  <2>1. /\ cur \in P /\ cur \in Bytes /\ w.seen \ {Sentinel} = UpTo(P, cur) \ {Sentinel}
        /\ w.drained => Drained(P, cur)
    BY <1>0, <1>4 DEF WalkOK
  <2>0. /\ req[c].op \in {"Next", "NextDup"} /\ a.st = "entry" => new = Shows(w, a.key)
        /\ req[c].op = "NextNoDup" /\ a.st = "entry" /\ w.drained => new = Shows(w, a.key)
        /\ req[c].op = "NextNoDup" /\ a.st = "entry" /\ ~w.drained => new = NoWalk
        /\ req[c].op = "NextDup" /\ a.st = "ok" => new = Ends(w)
        /\ req[c].op \in {"Next", "NextNoDup"} /\ a.st = "ok" => new = w
        /\ req[c].op = "Current" => new = w
    <3>. HIDE DEF w, a
    <3>. QED
      BY <1>0, <1>4, WalkedOn
  <2>2. ~Nested(c)
    BY <2>1, NestedAnswers
  <2>3. ~Panic
    BY <1>0 DEF Panic
  <2>4. CASE new = w /\ cursor' = cursor
    BY <1>0, <2>4
  <2>5. ASSUME NEW k \in P, cursor'[u] = k, UpTo(P, k) = UpTo(P, cur) \cup {k},
               new = Shows(w, k)
        PROVE  new \in Walk /\ WalkOK(store, new, cursor'[u])
    <3>1. /\ new \in Walk /\ new.on = w.on /\ new.table = t
          /\ new.seen = w.seen \cup {k} /\ new.drained = FALSE
      <4>. HIDE DEF w, new, P
      <4>. QED
        BY <1>0, <1>4, <2>5, WalkFields
    <3>2. new.seen \ {Sentinel} = UpTo(P, k) \ {Sentinel}
      BY <2>1, <2>5, <3>1
    <3>. QED
      BY <2>5, <3>1, <3>2 DEF WalkOK
  <2>6. \A k : MoveCursor(c, k, Entry(store[t], k)) =>
                 cursor'[u] = k /\ a.st = "entry" /\ a.key = k
    BY <1>0 DEF MoveCursor, Respond, Entry
  <2>7. \A r : Respond(c, r) => a = r
    BY <1>0 DEF Respond
  <2>8. CASE req[c].op = "Next"
    <3>1. Next_(c)
      BY <2>2, <2>8, ByOperation
    <3>2. \/ Respond(c, Success) /\ cursor' = cursor
          \/ \E k \in From(P, cur) : /\ IsSecond(k, From(P, cur))
                                     /\ MoveCursor(c, k, Entry(store[t], k))
      BY <3>1 DEF Next_
    <3>3. CASE Respond(c, Success) /\ cursor' = cursor
      BY <2>0, <2>4, <2>7, <2>8, <3>3, <2>0 DEF Success
    <3>4. CASE \E k : IsSecond(k, From(P, cur)) /\ MoveCursor(c, k, Entry(store[t], k))
      <4>1. PICK k : IsSecond(k, From(P, cur)) /\ MoveCursor(c, k, Entry(store[t], k))
        BY <3>4
      <4>2. k \in P /\ UpTo(P, k) = UpTo(P, cur) \cup {k}
        BY <1>0, <2>1, <4>1, NextShown
      <4>3. new = Shows(w, k)
        BY <1>0, <1>4, <2>6, <2>8, <4>1, <2>0
      <4>. QED
        BY <2>5, <2>6, <4>1, <4>2, <4>3
    <3>. QED
      BY <3>2, <3>3, <3>4
  <2>9. CASE req[c].op = "NextDup"
    <3>. DEFINE S == WithPrefix(From(P, cur), cur)
    <3>1. NextDup(c)
      BY <2>2, <2>9, ByOperation
    <3>2. \/ Respond(c, Failure("ErrCurrentIteratorKeyIsInvalid"))
          \/ ~HasSecond(S) /\ Respond(c, Success) /\ cursor' = cursor
          \/ \E k : IsSecond(k, S) /\ MoveCursor(c, k, Entry(store[t], k))
      BY <2>3, <3>1 DEF NextDup
    <3>3. CASE Respond(c, Failure("ErrCurrentIteratorKeyIsInvalid"))
      BY <1>1, <2>7, <2>9, <3>3, WalkedCases DEF Failure
    <3>4. CASE ~HasSecond(S) /\ Respond(c, Success) /\ cursor' = cursor
      <4>1. new = Ends(w)
        BY <1>0, <1>4, <2>7, <2>9, <3>4, <2>0 DEF Success
      <4>2. new \in Walk /\ new.table = t /\ new.seen = w.seen
        <5>. HIDE DEF w, new
        <5>. QED
          BY <1>0, <1>4, <2>1, <4>1, WalkFields
      <4>3. Drained(P, cur)
        BY <1>0, <2>1, <3>4, NextDupShown
      <4>. QED
        BY <2>1, <3>4, <4>2, <4>3 DEF WalkOK
    <3>5. CASE \E k : IsSecond(k, S) /\ MoveCursor(c, k, Entry(store[t], k))
      <4>1. PICK k : IsSecond(k, S) /\ MoveCursor(c, k, Entry(store[t], k))
        BY <3>5
      <4>2. k \in P /\ UpTo(P, k) = UpTo(P, cur) \cup {k}
        BY <1>0, <2>1, <4>1, NextDupShown
      <4>3. new = Shows(w, k)
        BY <1>0, <1>4, <2>6, <2>9, <4>1, <2>0
      <4>. QED
        BY <2>5, <2>6, <4>1, <4>2, <4>3
    <3>. QED
      BY <3>2, <3>3, <3>4, <3>5
  <2>10. CASE req[c].op = "NextNoDup"
    <3>. DEFINE S == BeyondPrefix(P, cur)
    <3>1. NextNoDup(c)
      BY <2>2, <2>10, ByOperation
    <3>2. \/ Respond(c, Success) /\ cursor' = cursor
          \/ \E k : IsLeast(k, S) /\ MoveCursor(c, k, Entry(store[t], k))
      BY <2>3, <3>1 DEF NextNoDup
    <3>3. CASE Respond(c, Success) /\ cursor' = cursor
      BY <2>0, <2>4, <2>7, <2>10, <3>3, <2>0 DEF Success
    <3>4. CASE \E k : IsLeast(k, S) /\ MoveCursor(c, k, Entry(store[t], k))
      <4>1. PICK k : IsLeast(k, S) /\ MoveCursor(c, k, Entry(store[t], k))
        BY <3>4
      <4>2. CASE ~w.drained
        BY <1>0, <1>1, <1>4, <2>6, <2>10, <4>1, <4>2, <2>0
      <4>3. CASE w.drained
        <5>1. k \in P /\ UpTo(P, k) = UpTo(P, cur) \cup {k}
          BY <1>0, <2>1, <4>1, <4>3, NextNoDupShown
        <5>2. new = Shows(w, k)
          BY <1>0, <1>4, <2>6, <2>10, <4>1, <4>3, <2>0
        <5>. QED
          BY <2>5, <2>6, <4>1, <5>1, <5>2
      <4>. QED
        BY <4>2, <4>3
    <3>. QED
      BY <3>2, <3>3, <3>4
  <2>11. CASE req[c].op = "Current"
    <3>1. cursor' = cursor
      BY <2>11, ByOperation DEF Current, tables
    <3>. QED
      BY <2>0, <2>4, <2>11, <3>1, <2>0
  <2>. QED
    BY <1>4, <2>8, <2>9, <2>10, <2>11
<1>. QED
  BY <1>2, <1>3, <1>4, WalkedCases

\* One operation is answered at a time.
LEMMA OneAnswers ==
    ASSUME IInv, Next, NEW c \in Conns, NEW d \in Conns, Answers(c), Answers(d)
    PROVE  c = d
<1>1. ~Restart
  BY DEF Restart, Answers, IInv, TypeOK
<1>2. PICK e \in Conns : Serve(e) \/ Client(e)
  BY <1>1 DEF Next
<1>. QED
  BY <1>2, OneMoves DEF Answers

\* The invariant of walks is inductive, given the router's.
LEMMA WalkInductive ==
    IInv /\ ReadInv /\ WInv /\ [WNext]_wvars => WInv'
<1>. SUFFICES ASSUME IInv, ReadInv, WInv, [WNext]_wvars PROVE WInv'
  OBVIOUS
<1>1. CASE UNCHANGED wvars
  BY <1>1 DEF wvars, vars, WInv, FirstOK, WalkOK
<1>2. CASE WNext
  <2>1. Next
    BY <1>2 DEF WNext
  <2>2. FirstOK'
    BY <2>1, FirstKeeps DEF WInv
  <2>. DEFINE New(u) ==
         IF store' # store \/ ~alive' THEN NoWalk
         ELSE IF \E c \in Conns : Answers(c) /\ req[c].cur = u
              THEN Walked(walk[u], req[CHOOSE d \in Conns : Answers(d)],
                          reply'[CHOOSE d \in Conns : Answers(d)])
              ELSE walk[u]
  <2>3. walk' = [u \in Cursors |-> New(u)]
    BY <1>2, Zenon DEF WNext
  <2>4. NoWalk \in Walk /\ ~NoWalk.on
    BY DEF NoWalk, Walk, Tables
  <2>5. ASSUME NEW u \in Cursors
        PROVE  New(u) \in Walk /\ WalkOK(store', New(u), cursor'[u]) /\ (~alive' => ~New(u).on)
    <3>1. CASE store' # store \/ ~alive'
      BY <2>4, <3>1 DEF WalkOK
    <3>2. CASE store' = store /\ alive' /\ \E c \in Conns : Answers(c) /\ req[c].cur = u
      <4>1. PICK c \in Conns : Answers(c) /\ req[c].cur = u
        BY <3>2
      <4>2. (CHOOSE d \in Conns : Answers(d)) = c
        <5>1. \A d \in Conns : Answers(d) => d = c
          BY <2>1, <4>1, OneAnswers
        <5>. HIDE DEF New
        <5>. QED
          BY <4>1, <5>1, Zenon
      <4>3. New(u) = Walked(walk[u], req[c], reply'[c])
        BY <3>2, <4>2
      <4>4. Operates(c) \/ Nested(c)
        BY <2>1, <4>1, AnswersSteps
      <4>5. New(u) \in Walk /\ WalkOK(store, New(u), cursor'[u])
        <5>. HIDE DEF New
        <5>. QED
          BY <4>1, <4>3, <4>4, AnswerKeeps
      <4>. HIDE DEF New
      <4>. QED
        BY <3>2, <4>5 DEF WalkOK
    <3>3. CASE store' = store /\ alive' /\ ~\E c \in Conns : Answers(c) /\ req[c].cur = u
      <4>1. New(u) = walk[u]
        BY <3>3
      <4>2. CASE Restart
        BY <3>3, <4>1, <4>2 DEF Restart, WInv, WalkOK
      <4>3. CASE ~Restart
        <5>1. cursor'[u] = cursor[u]
          BY <2>1, <3>3, <4>3, CursorsMove
        <5>. QED
          BY <3>3, <4>1, <5>1 DEF WInv, WalkOK
      <4>. QED
        BY <4>2, <4>3
    <3>. QED
      BY <3>1, <3>2, <3>3
  <2>6. \A u \in Cursors : walk'[u] = New(u)
    BY <2>3
  <2>. HIDE DEF New
  <2>7. walk' \in [Cursors -> Walk]
    BY <2>3, <2>5
  <2>8. \A u \in Cursors : WalkOK(store', walk'[u], cursor'[u]) /\ (~alive' => ~walk'[u].on)
    BY <2>5, <2>6
  <2>. QED
    BY <2>2, <2>7, <2>8 DEF WInv
<1>. QED
  BY <1>1, <1>2

-----------------------------------------------------------------------------
(* The theorems *)

\* In every reachable state a client has been shown the entries up to its
\* cursor, in the table as it now is.
THEOREM WalkInvariance == WSpec => [](IInv /\ ReadInv /\ WInv)
<1>1. WInit => IInv /\ ReadInv
  BY StartSatisfies, ReadInit DEF WInit
<1>2. WInit => WInv
  <2>1. NoWalk \in Walk /\ ~NoWalk.on
    BY DEF NoWalk, Walk, Tables
  <2>. QED
    BY <2>1 DEF WInit, Init, WInv, FirstOK, WalkOK
<1>3. [WNext]_wvars => [Next]_vars
  BY DEF WNext, wvars
<1>4. IInv /\ ReadInv /\ WInv /\ [WNext]_wvars => (IInv /\ ReadInv /\ WInv)'
  BY <1>3, Inductive, ReadInductive, WalkInductive
<1>. QED
  BY <1>1, <1>2, <1>4, PTL DEF WSpec

\* When a walk ends, nothing is missing and nothing was shown that is not there,
\* for any number of connections that share the cursors and the tables.
THEOREM WalksComplete == WSpec => WalkComplete
<1>. DEFINE A == \A c \in Conns :
               LET w == walk[req[c].cur]
               IN ( /\ Answers(c) /\ reply'[c].st = "ok"
                    /\ req[c].op = "Next" \/ (req[c].op = "NextNoDup" /\ w.drained)
                    /\ w.on /\ w.table = req[c].table )
                  => w.seen \ {Sentinel} = Present(store[req[c].table]) \ {Sentinel}
<1>1. IInv /\ ReadInv /\ WInv /\ [WNext]_wvars => [A]_wvars
  <2>. SUFFICES ASSUME IInv, ReadInv, WInv, WNext, NEW c \in Conns,
                       Answers(c), reply'[c].st = "ok",
                       \/ req[c].op = "Next"
                       \/ req[c].op = "NextNoDup" /\ walk[req[c].cur].drained,
                       walk[req[c].cur].on, walk[req[c].cur].table = req[c].table
                PROVE  walk[req[c].cur].seen \ {Sentinel} =
                         Present(store[req[c].table]) \ {Sentinel}
    OBVIOUS
  <2>. DEFINE u == req[c].cur
              P == Present(store[req[c].table])
              cur == cursor[u]
  <2>1. Operates(c) \/ Nested(c)
    BY AnswersSteps DEF WNext
  <2>2. /\ u \in Cursors /\ pc \in [Conns -> Places] /\ reply \in [Conns -> Reply]
        /\ pc[c] \in {"in", "incl", "rec"} /\ pc'[c] = "top"
    BY DEF IInv, TypeOK, RequestsOK, Busy, Answers, CursorOps, OpCodes, Unhandled,
       CursorReads, DupMoves
  <2>3. /\ P \in SUBSET Bytes /\ cur \in P
        /\ walk[u].seen \ {Sentinel} = UpTo(P, cur) \ {Sentinel}
        /\ walk[u].drained => Drained(P, cur)
    BY <2>2 DEF WInv, WalkOK, Present
  <2>4. ~Nested(c)
    BY <2>3, NestedAnswers
  <2>5. UpTo(P, cur) = P
    <3>1. CASE req[c].op = "Next"
      <4>1. Next_(c)
        BY <2>1, <2>4, <3>1, ByOperation
      <4>2. ~HasSecond(From(P, cur))
        BY <2>2, <4>1 DEF Next_, MoveCursor, Respond, Entry
      <4>. QED
        BY <2>3, <4>2, NextShown
    <3>2. CASE req[c].op = "NextNoDup" /\ walk[u].drained
      <4>1. NextNoDup(c)
        BY <2>1, <2>4, <3>2, ByOperation
      <4>2. BeyondPrefix(P, cur) = {}
        BY <2>2, <4>1 DEF NextNoDup, MoveCursor, Respond, Entry, Panic
      <4>. QED
        BY <2>3, <3>2, <4>2, NextNoDupShown
    <3>. QED
      BY <3>1, <3>2
  <2>. QED
    BY <2>3, <2>5
<1>. QED
  BY <1>1, WalkInvariance, PTL DEF WSpec, WalkComplete
=============================================================================
