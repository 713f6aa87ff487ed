--------------------------- MODULE DBRouterProofs ---------------------------
(***************************************************************************)
(* Proofs about DBRouter for any number of connections, cursors, keys,     *)
(* subkeys and values.  The inductive invariant IInv says of both mutexes  *)
(* exactly who holds them, and of every pending write where the goroutine  *)
(* that made it is.                                                        *)
(***************************************************************************)
EXTENDS DBRouter, TLAPS

\* Places of a goroutine that serves a decoded request.
Busy == {"rw", "pend", "in", "cl", "incl", "rec", "stuck"}

\* What the switch has established about a request that is being served, and
\* which operations get where.
RequestsOK ==
    \A c \in Conns :
      /\ pc[c] \in Busy => /\ req[c].table \in Tables
                           /\ req[c].op \in ReadOps \cup WriteOps
                           /\ req[c].op \in CursorOps => req[c].cur \in Cursors
      /\ pc[c] = "pend" => req[c].op \in WriteOps
      /\ pc[c] = "in" => req[c].op \notin MapFirst
      /\ pc[c] \in {"rec", "stuck"} => req[c].op \in CursorMoves

\* rwMutex is held by exactly the goroutines between its lock and unlock.
TableLockOK ==
    /\ \A c \in Conns :
         /\ rw.writer = c <=> InTables(c) /\ req[c].op \in WriteOps
         /\ c \in rw.readers <=> InTables(c) /\ req[c].op \in ReadOps
         /\ rw.announced = c <=> pc[c] = "pend"
    /\ rw.writer # NoConn => rw.readers = {}

\* So is the cursor lock.
CursorLockOK ==
    /\ \A c \in Conns :
         /\ cl.writer = c <=> InCursors(c) /\ req[c].op # "Current"
         /\ c \in cl.readers <=> InCursors(c) /\ req[c].op = "Current"
    /\ cl.writer # NoConn => cl.readers = {}

\* The writer of a pending entry is about to place its cursor or at the head
\* of its loop.
PendingOK ==
    \A t \in Tables, k \in Bytes :
      cache[t][k].by # NoConn =>
        LET c == cache[t][k].by
        IN pc[c] = "top" \/ (pc[c] \in {"cl", "incl"} /\ req[c].op \notin MapFirst)

IInv == TypeOK /\ RequestsOK /\ TableLockOK /\ CursorLockOK /\ PendingOK

-----------------------------------------------------------------------------
(* Facts about the operators the steps are built from *)

\* The replies that carry no entry are replies.
LEMMA PlainReplies ==
    /\ NoReply \in Reply
    /\ Success \in Reply
    /\ \A e \in Errors : Failure(e) \in Reply
BY DEF NoReply, Success, Failure, Reply

\* An entry that an iterator stands on makes a reply.
LEMMA EntryReply ==
    ASSUME NEW m \in Contents, NEW k \in Present(m)
    PROVE  Entry(m, k) \in Reply /\ k \in Bytes
BY DEF Entry, Reply, Present, Contents

\* A key is a pair of numbers.
LEMMA KeyParts ==
    ASSUME NEW i \in Bytes
    PROVE  i[1] \in Nat /\ i[2] \in Nat /\ i = <<i[1], i[2]>>
<1>1. CASE i = <<0, 0>>
  BY <1>1
<1>2. CASE i \in KeyIds \X {0}
  <2>1. PICK a \in KeyIds, b \in {0} : i = <<a, b>>
    BY <1>2
  <2>. QED
    BY <2>1, TablesAssumption
<1>3. CASE i \in KeyIds \X SubkeyIds
  <2>1. PICK a \in KeyIds, b \in SubkeyIds : i = <<a, b>>
    BY <1>3
  <2>. QED
    BY <2>1, TablesAssumption
<1>. QED
  BY <1>1, <1>2, <1>3 DEF Bytes, Sentinel, BareKeys, FullKeys

\* The byte order is total.
LEMMA KeyOrder ==
    ASSUME NEW i \in Bytes, NEW j \in Bytes
    PROVE  /\ Before(i, j) \/ Before(j, i) \/ i = j
           /\ Before(i, j) => ~Before(j, i) /\ i # j
<1>1. /\ i[1] \in Nat /\ i[2] \in Nat /\ i = <<i[1], i[2]>>
      /\ j[1] \in Nat /\ j[2] \in Nat /\ j = <<j[1], j[2]>>
  BY KeyParts
<1>2. i[1] = j[1] /\ i[2] = j[2] => i = j
  BY <1>1
<1>. QED
  BY <1>1, <1>2 DEF Before

\* Every range of an iterator is a part of the entries it ranges over.
LEMMA Ranges ==
    ASSUME NEW S, NEW k
    PROVE  /\ From(S, k) \subseteq S /\ Below(S, k) \subseteq S
           /\ WithPrefix(S, k) \subseteq S /\ BeyondPrefix(S, k) \subseteq S
BY DEF From, Below, WithPrefix, BeyondPrefix

\* Writing to the cache changes the entries in S, and marks them with c.
LEMMA CachedWrites ==
    ASSUME TypeOK, NEW c \in Conns, NEW t, NEW S, NEW v \in StoredValues \cup {NoValue}
    PROVE  /\ Cached(c, t, S, v) \in [Tables -> [Bytes -> CacheEntry]]
           /\ \A u \in Tables, k \in Bytes :
                Cached(c, t, S, v)[u][k].by \in {c, cache[u][k].by}
BY DEF TypeOK, Cached, CacheEntry

\* A replaced cache holds nothing.
LEMMA CleanIsEmpty ==
    /\ CleanCache \in [Tables -> [Bytes -> CacheEntry]]
    /\ \A t \in Tables, k \in Bytes : CleanCache[t][k].by = NoConn
BY DEF CleanCache, CleanEntry, CacheEntry

\* The states of a mutex are closed under its operations.
LEMMA MutexStates ==
    ASSUME NEW m \in Mutex, NEW c \in Conns
    PROVE  /\ Announced(m, c) \in Mutex /\ Locked(m, c) \in Mutex
           /\ RLocked(m, c) \in Mutex /\ Released(m, c) \in Mutex
           /\ Unlocked \in Mutex
BY DEF Mutex, Announced, Locked, RLocked, Released, Unlocked

\* A request that the switch accepts names a table and a handled operation.
LEMMA AcceptedRequest ==
    ASSUME NEW r \in Request, Status(r) = "ok"
    PROVE  r.table \in Tables /\ r.op \in ReadOps \cup WriteOps
<1>1. r.n \in Nat /\ r.op \in OpCodes
  BY DEF Request
<1>2. r.n > 1 /\ r.op \notin Unhandled
  BY <1>1 DEF Status, Decode, Unhandled, CursorReads, KeySeeks, CursorPuts, DupMoves
<1>. QED
  BY <1>1, <1>2 DEF Status, ReadOps

-----------------------------------------------------------------------------
(* The shape of an operation's step *)

\* A step ends the operation, goes on to the cursor lock, or ends the process;
\* it leaves the tables well-typed, and any new entry of the cache is its own.
Shape(c) ==
    /\ pc[c] \in {"in", "incl", "rec"}
    /\ \/ \E r \in Reply : Respond(c, r)
       \/ /\ pc[c] = "in" /\ req[c].op \notin MapFirst
          /\ \E r \in Reply, k \in Bytes \cup {Unset} : WantCursor(c, k, r)
       \/ Panic
    /\ store' \in [Tables -> Contents]
    /\ cache' \in [Tables -> [Bytes -> CacheEntry]]
    /\ cursor' \in [Cursors -> Bytes \cup {Unset}]
    /\ \A t \in Tables, k \in Bytes : cache'[t][k].by \in {NoConn, c, cache[t][k].by}

\* What every operation starts from.
LEMMA Served ==
    ASSUME TypeOK, RequestsOK, NEW c \in Conns, pc[c] \in {"in", "incl", "rec"}
    PROVE  /\ req[c] \in Request /\ req[c].table \in Tables
           /\ req[c].key \in Bytes \cup {Unset}
           /\ req[c].val \in StoredValues \cup {NoValue}
           /\ store[req[c].table] \in Contents
           /\ store \in [Tables -> Contents]
           /\ cache \in [Tables -> [Bytes -> CacheEntry]]
           /\ cursor \in [Cursors -> Bytes \cup {Unset}]
           /\ reply[c] \in Reply /\ target[c] \in Bytes \cup {Unset}
           /\ pc[c] = "in" => req[c].op \notin MapFirst
BY DEF TypeOK, RequestsOK, Request, Busy, StoredValues

\* Get, Put, Delete and Write end at once.
LEMMA TableOpsShape ==
    ASSUME TypeOK, RequestsOK, NEW c \in Conns,
           Get(c) \/ Put(c) \/ Delete(c) \/ Write(c)
    PROVE  Shape(c)
<1>0. pc[c] = "in"
  BY DEF Get, Put, Delete, Write, Runs
<1>1. CASE Get(c)
  <2>. DEFINE m == store[req[c].table]
              S == IF DupSorted(req[c].table) THEN WithPrefix(Present(m), req[c].key)
                   ELSE Present(m) \cap {req[c].key}
  <2>1. \/ Respond(c, Success)
        \/ \E k \in S : Respond(c, Entry(m, k))
    BY <1>1 DEF Get
  <2>2. \A k \in S : Entry(m, k) \in Reply
    BY <1>0, Served, Ranges, EntryReply
  <2>3. UNCHANGED tables
    BY <1>1 DEF Get
  <2>. HIDE DEF S, m
  <2>. QED
    BY <1>0, <2>1, <2>2, <2>3, PlainReplies, Served DEF Shape, tables
<1>2. CASE Put(c)
  BY <1>0, <1>2, PlainReplies, Served, CachedWrites DEF Put, Shape
<1>3. CASE Delete(c)
  BY <1>0, <1>3, PlainReplies, Served, CachedWrites DEF Delete, Shape
<1>4. CASE Write(c)
  <2>1. PICK lost \in SUBSET Racing(c) : store' = Flushed(lost)
    BY <1>4 DEF Write
  <2>2. Flushed(lost) \in [Tables -> Contents]
    BY <1>0, Served DEF Flushed, View, Contents, CacheEntry
  <2>. QED
    BY <1>0, <1>4, <2>1, <2>2, PlainReplies, Served, CleanIsEmpty DEF Write, Shape
<1>. QED
  BY <1>1, <1>2, <1>3, <1>4

\* First, Last and the seeks, which find a position and go on to place it.
LEMMA SeekOpsShape ==
    ASSUME TypeOK, RequestsOK, NEW c \in Conns,
           First(c) \/ Last(c) \/ Seek(c) \/ SeekExact(c) \/ SeekByKeySubkey(c)
    PROVE  Shape(c)
<1>. DEFINE m == store[req[c].table]
<1>0. pc[c] = "in"
  BY DEF First, Last, Seek, SeekExact, SeekByKeySubkey, Runs
<1>1. UNCHANGED tables
  BY DEF First, Last, Seek, SeekExact, SeekByKeySubkey
<1>2. \A k \in Present(m) : Entry(m, k) \in Reply /\ k \in Bytes
  BY <1>0, Served, EntryReply
<1>3. \/ Respond(c, Success)
      \/ WantCursor(c, Unset, Success)
      \/ \E k \in Present(m) : WantCursor(c, k, Entry(m, k)) \/ WantCursor(c, k, Success)
  <2>1. CASE First(c) \/ Last(c)
    BY <2>1 DEF First, Last
  <2>2. CASE Seek(c)
    BY <2>2, Ranges DEF Seek
  <2>3. CASE SeekExact(c)
    BY <2>3, Ranges DEF SeekExact
  <2>4. CASE SeekByKeySubkey(c)
    BY <2>4, Ranges DEF SeekByKeySubkey
  <2>. QED
    BY <2>1, <2>2, <2>3, <2>4
<1>. HIDE DEF m
<1>. QED
  BY <1>0, <1>1, <1>2, <1>3, PlainReplies, Served DEF Shape, tables

\* The operations that store an entry or delete one and go on to the cursor.
LEMMA WriteOpsShape ==
    ASSUME TypeOK, RequestsOK, NEW c \in Conns,
           Upsert(c) \/ Insert(c) \/ Append(c) \/ AppendDup(c) \/ DeleteCurrent(c) \/ MapRace(c)
    PROVE  Shape(c)
<1>0. pc[c] = "in"
  BY DEF Upsert, Insert, Append, AppendDup, DeleteCurrent, MapRace, Runs
<1>1. SetAndPlace(c) /\ UNCHANGED <<store, cursor>> => Shape(c)
  BY <1>0, PlainReplies, Served, CachedWrites DEF SetAndPlace, Shape
<1>2. \A e \in Errors : Respond(c, Failure(e)) /\ UNCHANGED tables => Shape(c)
  BY <1>0, PlainReplies, Served DEF Shape, tables
<1>3. CASE Upsert(c)
  BY <1>1, <1>3 DEF Upsert
<1>4. CASE Insert(c)
  BY <1>1, <1>2, <1>4 DEF Insert, Errors, tables
<1>5. CASE Append(c)
  <2>1. CASE /\ cache' = Cached(c, req[c].table, {req[c].key}, req[c].val)
             /\ Respond(c, Success)
             /\ UNCHANGED <<store, cursor>>
    BY <1>0, <2>1, PlainReplies, Served, CachedWrites DEF Shape
  <2>2. CASE Panic
    BY <1>0, <2>2, Served DEF Shape, Panic
  <2>3. CASE Respond(c, Failure("ErrCannotAppend")) /\ UNCHANGED tables
    BY <1>2, <2>3 DEF Errors
  <2>4. CASE SetAndPlace(c) /\ UNCHANGED <<store, cursor>>
    BY <1>1, <2>4
  <2>. QED
    BY <1>5, <2>1, <2>2, <2>3, <2>4 DEF Append
<1>6. CASE AppendDup(c)
  <2>1. CASE /\ WantCursor(c, Unset, Failure("ErrCannotAppendDup"))
             /\ UNCHANGED tables
    BY <1>0, <2>1, PlainReplies, Served DEF Shape, Errors, tables
  <2>. QED
    BY <1>1, <1>6, <2>1 DEF AppendDup, tables
<1>7. CASE DeleteCurrent(c)
  <2>. DEFINE cur == cursor[req[c].cur]
              S == From(Present(View(req[c].table)), cur)
  <2>1. \A k \in S : k \in Bytes
    BY Ranges DEF Present
  <2>2. CASE /\ cache' = Cached(c, req[c].table, {cur}, NoValue)
             /\ \E k \in S \cup {Unset} : WantCursor(c, k, Success)
             /\ UNCHANGED <<store, cursor>>
    <3>. HIDE DEF S, cur
    <3>. QED
      BY <1>0, <2>1, <2>2, PlainReplies, Served, CachedWrites DEF Shape
  <2>. QED
    BY <1>2, <1>7, <2>2 DEF DeleteCurrent, Errors, tables
<1>8. CASE MapRace(c)
  BY <1>0, <1>8, Served DEF MapRace, Shape, Panic
<1>. QED
  BY <1>3, <1>4, <1>5, <1>6, <1>7, <1>8

\* The operations that run inside the cursor lock, the inner call of an
\* operation without a position excepted.
LEMMA MapOpsShape ==
    ASSUME TypeOK, RequestsOK, NEW c \in Conns,
           \/ PlaceCursor(c) \/ Next_(c) \/ Prev(c) \/ NextDup(c) \/ NextNoDup(c)
           \/ Current(c) \/ DeleteCurrentDuplicates(c)
    PROVE  Shape(c)
<1>. DEFINE m == store[req[c].table]
            cur == cursor[req[c].cur]
<1>0. pc[c] = "incl"
  BY DEF PlaceCursor, Next_, Prev, NextDup, NextNoDup, Current,
         DeleteCurrentDuplicates, Positioned, Runs
<1>1. \A k \in Present(m) : Entry(m, k) \in Reply /\ k \in Bytes
  BY <1>0, Served, EntryReply
<1>2. \A r \in Reply : Respond(c, r) /\ UNCHANGED tables => Shape(c)
  BY <1>0, Served DEF Shape, tables
<1>3. ASSUME NEW r \in Reply, NEW k \in Bytes \cup {Unset},
             MoveCursor(c, k, r), UNCHANGED <<store, cache>>
      PROVE  Shape(c)
  <2>1. cursor' \in [Cursors -> Bytes \cup {Unset}]
    BY <1>0, <1>3, Served DEF MoveCursor
  <2>2. Respond(c, r)
    BY <1>3 DEF MoveCursor
  <2>. QED
    BY <1>0, <1>3, <2>1, <2>2, Served DEF Shape
<1>4. Panic => Shape(c)
  BY <1>0, Served DEF Shape, Panic
<1>5. CASE PlaceCursor(c)
  BY <1>0, <1>5, Served DEF PlaceCursor, Shape
<1>6. CASE Next_(c)
  <2>1. \/ Respond(c, Success) /\ UNCHANGED tables
        \/ /\ \E k \in Present(m) : MoveCursor(c, k, Entry(m, k))
           /\ UNCHANGED <<store, cache>>
    BY <1>6, Ranges DEF Next_, tables
  <2>. HIDE DEF m
  <2>. QED
    BY <1>1, <1>2, <1>3, <2>1, PlainReplies
<1>7. CASE Prev(c)
  <2>1. \/ Respond(c, Success) /\ UNCHANGED tables
        \/ /\ \E k \in Present(m) : MoveCursor(c, k, Entry(m, k))
           /\ UNCHANGED <<store, cache>>
    BY <1>7, Ranges DEF Prev, tables
  <2>. HIDE DEF m
  <2>. QED
    BY <1>1, <1>2, <1>3, <2>1, PlainReplies
<1>8. CASE NextDup(c)
  <2>1. \/ Panic
        \/ Respond(c, Failure("ErrCurrentIteratorKeyIsInvalid")) /\ UNCHANGED tables
        \/ Respond(c, Success) /\ UNCHANGED tables
        \/ /\ \E k \in Present(m) : MoveCursor(c, k, Entry(m, k))
           /\ UNCHANGED <<store, cache>>
    BY <1>8, Ranges DEF NextDup, tables
  <2>. HIDE DEF m
  <2>. QED
    BY <1>1, <1>2, <1>3, <1>4, <2>1, PlainReplies DEF Errors
<1>9. CASE NextNoDup(c)
  <2>1. \/ Panic
        \/ Respond(c, Success) /\ UNCHANGED tables
        \/ /\ \E k \in Present(m) : MoveCursor(c, k, Entry(m, k))
           /\ UNCHANGED <<store, cache>>
    BY <1>9, Ranges DEF NextNoDup, tables
  <2>. HIDE DEF m
  <2>. QED
    BY <1>1, <1>2, <1>3, <1>4, <2>1, PlainReplies
<1>10. CASE Current(c)
  BY <1>1, <1>2, <1>10, PlainReplies DEF Current, Errors
<1>11. CASE DeleteCurrentDuplicates(c)
  <2>. DEFINE t == req[c].table
              S == WithPrefix(Present(View(t)), cur)
              R == BeyondPrefix(Present(View(t)), cur)
  <2>1. \A k \in R : k \in Bytes
    BY Ranges DEF Present
  <2>2. CASE /\ cache' = Cached(c, t, S, NoValue)
             /\ \E k \in R \cup {Unset} : MoveCursor(c, k, Success)
             /\ UNCHANGED store
    <3>. HIDE DEF R, S, t
    <3>1. PICK k \in R \cup {Unset} : MoveCursor(c, k, Success)
      BY <2>2
    <3>2. cursor' \in [Cursors -> Bytes \cup {Unset}] /\ Respond(c, Success)
      BY <1>0, <2>1, <3>1, Served DEF MoveCursor
    <3>. QED
      BY <1>0, <2>2, <3>2, PlainReplies, Served, CachedWrites DEF Shape
  <2>. QED
    BY <1>2, <1>4, <1>11, <2>2, PlainReplies DEF DeleteCurrentDuplicates, Errors
<1>. QED
  BY <1>5, <1>6, <1>7, <1>8, <1>9, <1>10, <1>11

-----------------------------------------------------------------------------
(* The invariant and the steps of an operation *)

\* One of the operations' own steps: all of InTable and InMap but the entry
\* into, and the end of, the inner call of a move without a position.
Operates(c) ==
    \/ InTable(c) \/ PlaceCursor(c)
    \/ Next_(c) \/ Prev(c) \/ NextDup(c) \/ NextNoDup(c)
    \/ Current(c) \/ DeleteCurrentDuplicates(c)

LEMMA OperatesShape ==
    ASSUME TypeOK, RequestsOK, NEW c \in Conns, Operates(c)
    PROVE  Shape(c)
BY TableOpsShape, SeekOpsShape, WriteOpsShape, MapOpsShape DEF Operates, InTable

\* Returning from an operation.
LEMMA RespondKeeps ==
    ASSUME IInv, NEW c \in Conns, pc[c] \in {"in", "incl", "rec"},
           NEW r \in Reply, Respond(c, r)
    PROVE  RequestsOK' /\ TableLockOK' /\ CursorLockOK'
<1>. USE DEF IInv, TypeOK, Respond
<1>1. pc' = [pc EXCEPT ![c] = "top"] /\ req' = req
  OBVIOUS
<1>2. RequestsOK'
  BY <1>1 DEF RequestsOK, Busy
<1>3. /\ rw'.writer = (IF rw.writer = c THEN NoConn ELSE rw.writer)
      /\ rw'.readers = rw.readers \ {c} /\ rw'.announced = rw.announced
      /\ cl'.writer = (IF cl.writer = c THEN NoConn ELSE cl.writer)
      /\ cl'.readers = cl.readers \ {c} /\ cl'.announced = cl.announced
  BY DEF Released, Mutex
<1>4. TableLockOK'
  BY <1>1, <1>3, NoConnAssumption DEF TableLockOK, InTables
<1>5. CursorLockOK'
  BY <1>1, <1>3, NoConnAssumption DEF CursorLockOK, InCursors
<1>. QED
  BY <1>2, <1>4, <1>5

\* Going on to the cursor lock.
LEMMA WantCursorKeeps ==
    ASSUME IInv, NEW c \in Conns, pc[c] = "in", req[c].op \notin MapFirst,
           NEW r \in Reply, NEW k \in Bytes \cup {Unset}, WantCursor(c, k, r)
    PROVE  RequestsOK' /\ TableLockOK' /\ CursorLockOK'
<1>. USE DEF IInv, TypeOK, WantCursor
<1>1. pc' = [pc EXCEPT ![c] = "cl"] /\ req' = req /\ cl' = cl
  OBVIOUS
<1>2. RequestsOK'
  BY <1>1 DEF RequestsOK, Busy
<1>3. CursorLockOK'
  BY <1>1 DEF CursorLockOK, InCursors
<1>4. CASE req[c].op = "Upsert"
  <2>1. /\ rw'.writer = (IF rw.writer = c THEN NoConn ELSE rw.writer)
        /\ rw'.readers = rw.readers \ {c} /\ rw'.announced = rw.announced
    BY <1>4 DEF Released, Mutex
  <2>. QED
    BY <1>1, <1>2, <1>3, <1>4, <2>1, NoConnAssumption DEF TableLockOK, InTables
<1>5. CASE req[c].op # "Upsert"
  BY <1>1, <1>2, <1>3, <1>5 DEF TableLockOK, InTables
<1>. QED
  BY <1>4, <1>5

\* An operation's step preserves the invariant.
LEMMA OperatesKeeps ==
    ASSUME IInv, NEW c \in Conns, Shape(c)
    PROVE  IInv'
<1>1. CASE \E r \in Reply : Respond(c, r)
  <2>1. PICK r \in Reply : Respond(c, r)
    BY <1>1
  <2>2. RequestsOK' /\ TableLockOK' /\ CursorLockOK'
    BY <2>1, RespondKeeps DEF Shape
  <2>3. TypeOK'
    BY <2>1, MutexStates DEF IInv, TypeOK, Shape, Respond, Places
  <2>4. PendingOK'
    <3>1. pc' = [pc EXCEPT ![c] = "top"] /\ req' = req
      BY <2>1 DEF Respond
    <3>. SUFFICES ASSUME NEW t \in Tables, NEW k \in Bytes, cache'[t][k].by # NoConn
                  PROVE  LET d == cache'[t][k].by
                         IN pc'[d] = "top" \/ (pc'[d] \in {"cl", "incl"} /\ req'[d].op \notin MapFirst)
      BY DEF PendingOK
    <3>2. cache'[t][k].by = c \/ cache'[t][k].by = cache[t][k].by
      BY DEF Shape
    <3>3. cache'[t][k].by \in Conns
      BY DEF Shape, CacheEntry
    <3>. QED
      BY <3>1, <3>2, <3>3 DEF IInv, TypeOK, PendingOK
  <2>. QED
    BY <2>2, <2>3, <2>4 DEF IInv
<1>2. CASE /\ pc[c] = "in" /\ req[c].op \notin MapFirst
           /\ \E r \in Reply, k \in Bytes \cup {Unset} : WantCursor(c, k, r)
  <2>1. PICK r \in Reply, p \in Bytes \cup {Unset} : WantCursor(c, p, r)
    BY <1>2
  <2>2. RequestsOK' /\ TableLockOK' /\ CursorLockOK'
    BY <1>2, <2>1, WantCursorKeeps
  <2>3. TypeOK'
    BY <2>1, MutexStates DEF IInv, TypeOK, Shape, WantCursor, Places
  <2>4. PendingOK'
    <3>1. pc' = [pc EXCEPT ![c] = "cl"] /\ req' = req
      BY <2>1 DEF WantCursor
    <3>. SUFFICES ASSUME NEW t \in Tables, NEW k \in Bytes, cache'[t][k].by # NoConn
                  PROVE  LET d == cache'[t][k].by
                         IN pc'[d] = "top" \/ (pc'[d] \in {"cl", "incl"} /\ req'[d].op \notin MapFirst)
      BY DEF PendingOK
    <3>2. cache'[t][k].by = c \/ cache'[t][k].by = cache[t][k].by
      BY DEF Shape
    <3>3. cache'[t][k].by \in Conns
      BY DEF Shape, CacheEntry
    <3>. QED
      BY <1>2, <3>1, <3>2, <3>3 DEF IInv, TypeOK, PendingOK
  <2>. QED
    BY <2>2, <2>3, <2>4 DEF IInv
<1>3. CASE Panic
  BY <1>3 DEF Panic, IInv, TypeOK, RequestsOK, TableLockOK, CursorLockOK, PendingOK,
     InTables, InCursors
<1>. QED
  BY <1>1, <1>2, <1>3 DEF Shape

-----------------------------------------------------------------------------
(* The invariant and the other steps *)

\* A goroutine gets or announces for a lock, or enters the inner call.
LEMMA LockKeeps ==
    ASSUME IInv, NEW c \in Conns, Lock(c) \/ Recurse(c)
    PROVE  IInv'
<1>. USE DEF IInv, TypeOK
<1>1. CASE AcquireR(c)
  <2>1. /\ pc' = [pc EXCEPT ![c] = IF req[c].op \in MapFirst THEN "cl" ELSE "in"]
        /\ req' = req /\ cl' = cl /\ cache' = cache
        /\ pc[c] = "rw" /\ req[c].op \in ReadOps
    BY <1>1 DEF AcquireR, Entered
  <2>2. /\ rw.writer = NoConn /\ rw'.writer = NoConn
        /\ rw'.readers = rw.readers \cup {c} /\ rw'.announced = rw.announced
    BY <1>1 DEF AcquireR, CanRLock, RLocked, Mutex
  <2>3. TypeOK'
    BY <1>1, <2>1, MutexStates DEF AcquireR, Places
  <2>4. RequestsOK'
    BY <2>1 DEF RequestsOK, Busy
  <2>5. TableLockOK'
    BY <2>1, <2>2, NoConnAssumption DEF TableLockOK, InTables, RequestsOK, Busy, ReadOps, WriteOps
  <2>6. CursorLockOK'
    BY <2>1 DEF CursorLockOK, InCursors
  <2>7. PendingOK'
    BY <2>1 DEF PendingOK, CacheEntry
  <2>. QED
    BY <2>3, <2>4, <2>5, <2>6, <2>7
<1>2. CASE Announce(c)
  <2>1. /\ pc' = [pc EXCEPT ![c] = "pend"]
        /\ req' = req /\ cl' = cl /\ cache' = cache
        /\ pc[c] = "rw" /\ req[c].op \in WriteOps
    BY <1>2 DEF Announce
  <2>2. /\ rw'.writer = rw.writer /\ rw'.readers = rw.readers
        /\ rw.announced = NoConn /\ rw'.announced = c
    BY <1>2 DEF Announce, CanAnnounce, Announced, Mutex
  <2>3. TypeOK'
    BY <1>2, <2>1, MutexStates DEF Announce, Places
  <2>4. RequestsOK'
    BY <2>1 DEF RequestsOK, Busy
  <2>5. TableLockOK'
    BY <2>1, <2>2, NoConnAssumption DEF TableLockOK, InTables
  <2>6. CursorLockOK'
    BY <2>1 DEF CursorLockOK, InCursors
  <2>7. PendingOK'
    BY <2>1 DEF PendingOK, CacheEntry
  <2>. QED
    BY <2>3, <2>4, <2>5, <2>6, <2>7
<1>3. CASE AcquireW(c)
  <2>1. /\ pc' = [pc EXCEPT ![c] = IF req[c].op \in MapFirst THEN "cl" ELSE "in"]
        /\ req' = req /\ cl' = cl /\ cache' = cache
        /\ pc[c] = "pend" /\ req[c].op \in WriteOps
    BY <1>3 DEF AcquireW, Entered, RequestsOK
  <2>2. /\ rw.writer = NoConn /\ rw.readers = {} /\ rw'.writer = c
        /\ rw'.readers = {} /\ rw.announced = c /\ rw'.announced = NoConn
    BY <1>3, <2>1 DEF AcquireW, CanLock, Locked, Mutex, TableLockOK
  <2>3. TypeOK'
    BY <1>3, <2>1, MutexStates DEF AcquireW, Places
  <2>4. RequestsOK'
    BY <2>1 DEF RequestsOK, Busy
  <2>5. TableLockOK'
    BY <2>1, <2>2, NoConnAssumption
       DEF TableLockOK, InTables, RequestsOK, Busy, ReadOps, WriteOps, MapFirst, CursorMoves
  <2>6. CursorLockOK'
    BY <2>1 DEF CursorLockOK, InCursors
  <2>7. PendingOK'
    BY <2>1 DEF PendingOK, CacheEntry
  <2>. QED
    BY <2>3, <2>4, <2>5, <2>6, <2>7
<1>4. CASE AcquireCursorLock(c)
  <2>1. /\ pc' = [pc EXCEPT ![c] = "incl"] /\ pc[c] = "cl"
        /\ req' = req /\ rw' = rw /\ cache' = cache
    BY <1>4 DEF AcquireCursorLock
  <2>2. \/ /\ req[c].op = "Current" /\ cl.writer = NoConn /\ cl'.writer = NoConn
           /\ cl'.readers = cl.readers \cup {c}
        \/ /\ req[c].op # "Current" /\ cl.writer = NoConn /\ cl'.writer = c
           /\ cl.readers = {} /\ cl'.readers = {}
    BY <1>4 DEF AcquireCursorLock, CanRLock, RLocked, CanLock, Locked, Mutex
  <2>3. TypeOK'
    BY <1>4, <2>1, MutexStates DEF AcquireCursorLock, Places
  <2>4. RequestsOK'
    BY <2>1 DEF RequestsOK, Busy
  <2>5. TableLockOK'
    BY <2>1 DEF TableLockOK, InTables
  <2>6. CursorLockOK'
    BY <2>1, <2>2, NoConnAssumption DEF CursorLockOK, InCursors
  <2>7. PendingOK'
    BY <2>1 DEF PendingOK, CacheEntry
  <2>. QED
    BY <2>3, <2>4, <2>5, <2>6, <2>7
<1>5. CASE Recurse(c)
  <2>1. /\ pc' = [pc EXCEPT ![c] = "rec"] /\ pc[c] = "incl"
        /\ req[c].op \in CursorMoves
        /\ req' = req /\ rw' = rw /\ cl' = cl /\ cache' = cache
    BY <1>5 DEF Recurse
  <2>3. TypeOK'
    BY <1>5, <2>1 DEF Recurse, Places
  <2>4. RequestsOK'
    BY <2>1 DEF RequestsOK, Busy
  <2>5. TableLockOK'
    BY <2>1 DEF TableLockOK, InTables, CursorMoves
  <2>6. CursorLockOK'
    BY <2>1 DEF CursorLockOK, InCursors
  <2>7. PendingOK'
    BY <2>1 DEF PendingOK, CacheEntry, MapFirst
  <2>. QED
    BY <2>3, <2>4, <2>5, <2>6, <2>7
<1>. QED
  BY <1>1, <1>2, <1>3, <1>4, <1>5 DEF Lock

\* The inner call ends the operation or gets stuck.
LEMMA NestedKeeps ==
    ASSUME IInv, NEW c \in Conns, Nested(c)
    PROVE  IInv'
<1>1. CASE Respond(c, Success)
  <2>1. Shape(c)
    BY <1>1, Served, PlainReplies DEF IInv, Nested, Shape, tables
  <2>. QED
    BY <2>1, OperatesKeeps
<1>2. CASE ~Respond(c, Success)
  <2>. USE DEF IInv, TypeOK
  <2>1. /\ pc' = [pc EXCEPT ![c] = "stuck"] /\ pc[c] = "rec"
        /\ UNCHANGED <<store, cache, cursor, req, target, reply, rw, cl, alive>>
    BY <1>2 DEF Nested, tables
  <2>3. TypeOK'
    BY <2>1 DEF Places
  <2>4. RequestsOK'
    BY <2>1 DEF RequestsOK, Busy
  <2>5. TableLockOK'
    BY <2>1 DEF TableLockOK, InTables
  <2>6. CursorLockOK'
    BY <2>1 DEF CursorLockOK, InCursors
  <2>7. PendingOK'
    BY <2>1 DEF PendingOK, CacheEntry
  <2>. QED
    BY <2>3, <2>4, <2>5, <2>6, <2>7
<1>. QED
  BY <1>1, <1>2

\* What a message that arrives decodes to.  Its key is never the sentinel.
LEMMA Received ==
    ASSUME NEW c \in Conns, Receive(c)
    PROVE  \E r \in Request : /\ Dispatch(c, r)
                              /\ IF r.op \in CursorOps THEN r.cur \in Cursors
                                 ELSE r.cur = NoCursor
                              /\ r.key # Sentinel
                              /\ r.op \in ValueOps => r.key \in Bytes
<1>. DEFINE R(o, t, k, v, u, n) ==
       [op |-> o, table |-> t, key |-> k, val |-> v, cur |-> u, n |-> n]
<1>1. PICK o \in Ops, t \in ReqTables :
      \E k \in KeyArgs(o, t),
         v \in IF o \in ValueOps THEN Values ELSE {NoValue},
         u \in IF o \in CursorOps THEN Uses[c] ELSE {NoCursor} :
      \E n \in {WireLen(o, k)} \cup OddLens :
        /\ n = WireLen(o, k) \/ Status(R(o, t, k, v, u, n)) # "ok"
        /\ PositionedClients /\ o \in CursorMoves => cursor[u] # Unset
        /\ Dispatch(c, R(o, t, k, v, u, n))
  BY Zenon DEF Receive
<1>2. PICK k \in KeyArgs(o, t),
           v \in IF o \in ValueOps THEN Values ELSE {NoValue},
           u \in IF o \in CursorOps THEN Uses[c] ELSE {NoCursor} :
      \E n \in {WireLen(o, k)} \cup OddLens : Dispatch(c, R(o, t, k, v, u, n))
  BY <1>1, Zenon
<1>3. PICK n \in {WireLen(o, k)} \cup OddLens : Dispatch(c, R(o, t, k, v, u, n))
  BY <1>2
<1>4. k \in Bytes \cup {Unset}
  BY DEF KeyArgs, Bytes
<1>5. k # Sentinel
  BY TablesAssumption, UnsetAssumption DEF KeyArgs, Sentinel, BareKeys, FullKeys, Bytes
<1>6. o \in ValueOps => k \in Bytes
  BY DEF KeyArgs, Bytes, ValueOps, CursorPuts
<1>7. n \in Nat
  BY RouterAssumption DEF WireLen, FieldBytes, CursorIDBytes, KeyBytes, SubKeyBytes
<1>8. /\ u \in Cursors \cup {NoCursor}
      /\ IF o \in CursorOps THEN u \in Cursors ELSE u = NoCursor
  BY RouterAssumption
<1>9. o \in OpCodes /\ t \in Nat /\ v \in Values \cup {NoValue}
  BY RouterAssumption
<1>10. /\ R(o, t, k, v, u, n) \in Request
       /\ R(o, t, k, v, u, n).op = o /\ R(o, t, k, v, u, n).cur = u
       /\ R(o, t, k, v, u, n).key = k
  BY <1>4, <1>7, <1>8, <1>9 DEF Request
<1>. HIDE DEF R
<1>. QED
  BY <1>3, <1>5, <1>6, <1>8, <1>10

\* A request arrives.
LEMMA ReceiveKeeps ==
    ASSUME IInv, NEW c \in Conns, Receive(c)
    PROVE  IInv'
<1>. USE DEF IInv, TypeOK
<1>1. PICK r \in Request : Dispatch(c, r) /\ (r.op \in CursorOps => r.cur \in Cursors)
  BY Received
<1>2. /\ pc[c] = "read" /\ store' = SentinelSet
      /\ UNCHANGED <<cache, cursor, target, rw, cl>>
  BY DEF Receive
<1>3. /\ req' = [req EXCEPT ![c] = r]
      /\ \/ pc' = [pc EXCEPT ![c] = "rw"] /\ Status(r) = "ok"
         \/ pc' = [pc EXCEPT ![c] = "top"]
      /\ alive' \in BOOLEAN
  BY <1>1 DEF Dispatch
<1>4. reply' \in [Conns -> Reply]
  <2>1. Failure("ErrTableNotFound") \in Reply /\ Failure("ErrInvalidRequestData") \in Reply
        /\ Failure("ErrInvalidOperationCode") \in Reply /\ NoReply \in Reply
    BY PlainReplies DEF Errors
  <2>. QED
    BY <1>1, <2>1 DEF Dispatch
<1>5. TypeOK'
  <2>1. SentinelSet \in [Tables -> Contents]
    BY DEF SentinelSet, Contents, StoredValues, Bytes
  <2>. QED
    BY <1>2, <1>3, <1>4, <2>1 DEF Places
<1>6. RequestsOK'
  BY <1>1, <1>3, AcceptedRequest DEF RequestsOK, Busy
<1>7. TableLockOK'
  BY <1>2, <1>3 DEF TableLockOK, InTables
<1>8. CursorLockOK'
  BY <1>2, <1>3 DEF CursorLockOK, InCursors
<1>9. PendingOK'
  BY <1>2, <1>3 DEF PendingOK, CacheEntry
<1>. QED
  BY <1>5, <1>6, <1>7, <1>8, <1>9

\* A connection opens, closes, or comes back to the head of its loop.
LEMMA LoopKeeps ==
    ASSUME IInv, NEW c \in Conns, Accept(c) \/ Disconnect(c) \/ LoopTop(c)
    PROVE  IInv'
<1>. USE DEF IInv, TypeOK
<1>1. CASE Accept(c) \/ Disconnect(c)
  <2>1. /\ \E p \in {"top", "closed"} : pc' = [pc EXCEPT ![c] = p]
        /\ pc[c] \in {"closed", "read"}
        /\ UNCHANGED <<store, cache, cursor, req, target, reply, rw, cl, alive>>
    BY <1>1 DEF Accept, Disconnect
  <2>2. TypeOK'
    BY <2>1 DEF Places
  <2>3. RequestsOK' /\ TableLockOK' /\ CursorLockOK'
    BY <2>1 DEF RequestsOK, Busy, TableLockOK, CursorLockOK, InTables, InCursors
  <2>4. PendingOK'
    BY <2>1 DEF PendingOK, CacheEntry
  <2>. QED
    BY <2>2, <2>3, <2>4
<1>2. CASE LoopTop(c)
  <2>1. NoRequest \in Request
    BY DEF NoRequest, Request, OpCodes
  <2>2. TypeOK'
    BY <1>2, <2>1, PlainReplies, CleanIsEmpty DEF LoopTop, Places
  <2>3. RequestsOK'
    BY <1>2 DEF LoopTop, RequestsOK, Busy
  <2>4. TableLockOK' /\ CursorLockOK'
    BY <1>2 DEF LoopTop, TableLockOK, CursorLockOK, InTables, InCursors
  <2>5. PendingOK'
    BY <1>2, CleanIsEmpty DEF LoopTop, PendingOK
  <2>. QED
    BY <2>2, <2>3, <2>4, <2>5
<1>. QED
  BY <1>1, <1>2

\* The states the process starts in, and starts again in.
LEMMA StartSatisfies ==
    /\ Init => IInv
    /\ Restart => IInv'
<1>1. NoRequest \in Request
  BY DEF NoRequest, Request, OpCodes
<1>2. Unlocked \in Mutex
  BY DEF Unlocked, Mutex
<1>3. Init => IInv
  <2>. SUFFICES ASSUME Init PROVE IInv
    OBVIOUS
  <2>1. TypeOK
    BY <1>1, <1>2, PlainReplies, CleanIsEmpty, RouterAssumption DEF Init, TypeOK, Places
  <2>2. RequestsOK
    BY DEF Init, RequestsOK, Busy
  <2>3. TableLockOK /\ CursorLockOK
    BY NoConnAssumption DEF Init, TableLockOK, CursorLockOK, InTables, InCursors, Unlocked
  <2>4. PendingOK
    BY CleanIsEmpty DEF Init, PendingOK
  <2>. QED
    BY <2>1, <2>2, <2>3, <2>4 DEF IInv
<1>4. Restart => IInv'
  <2>. SUFFICES ASSUME Restart PROVE IInv'
    OBVIOUS
  <2>1. TypeOK'
    BY <1>1, <1>2, PlainReplies, CleanIsEmpty, RouterAssumption DEF Restart, TypeOK, Places
  <2>2. RequestsOK'
    BY DEF Restart, RequestsOK, Busy
  <2>3. TableLockOK' /\ CursorLockOK'
    BY NoConnAssumption DEF Restart, TableLockOK, CursorLockOK, InTables, InCursors, Unlocked
  <2>4. PendingOK'
    BY CleanIsEmpty DEF Restart, PendingOK
  <2>. QED
    BY <2>1, <2>2, <2>3, <2>4 DEF IInv
<1>. QED
  BY <1>3, <1>4

-----------------------------------------------------------------------------
(* The theorems *)

\* The invariant is inductive.
LEMMA Inductive ==
    IInv /\ [Next]_vars => IInv'
<1>. SUFFICES ASSUME IInv, [Next]_vars PROVE IInv'
  OBVIOUS
<1>1. CASE \E c \in Conns : Serve(c)
  <2>1. PICK c \in Conns : Serve(c)
    BY <1>1
  <2>2. \/ LoopTop(c) \/ Lock(c) \/ Recurse(c) \/ Nested(c) \/ Operates(c)
    BY <2>1 DEF Serve, InMap, Operates
  <2>3. CASE Operates(c)
    BY <2>3, OperatesShape, OperatesKeeps DEF IInv
  <2>. QED
    BY <2>2, <2>3, LoopKeeps, LockKeeps, NestedKeeps
<1>2. CASE \E c \in Conns : Client(c)
  BY <1>2, LoopKeeps, ReceiveKeeps DEF Client
<1>3. CASE Restart
  BY <1>3, StartSatisfies
<1>4. CASE UNCHANGED vars
  BY <1>4 DEF vars, IInv, TypeOK, RequestsOK, TableLockOK, CursorLockOK, PendingOK,
     InTables, InCursors
<1>. QED
  BY <1>1, <1>2, <1>3, <1>4 DEF Next

\* The invariant holds in every reachable state.
THEOREM Invariance == Spec => []IInv
<1>1. Init => IInv
  BY StartSatisfies
<1>. QED
  BY <1>1, Inductive, PTL DEF Spec

\* Every variable keeps its type, whatever clients send and however their
\* requests interleave.
THEOREM TypeCorrect == Spec => []TypeOK
<1>1. IInv => TypeOK
  BY DEF IInv
<1>. QED
  BY <1>1, Invariance, PTL

\* No two operations of which one writes the tables are inside rwMutex
\* together, for any number of connections.
THEOREM TablesExclusive == Spec => []Exclusion
<1>1. IInv => Exclusion
  <2>. SUFFICES ASSUME IInv, NEW c \in Conns, NEW d \in Conns,
                       c # d, InTables(c), InTables(d)
                PROVE  req[c].op \in ReadOps /\ req[d].op \in ReadOps
    BY DEF Exclusion
  <2>1. \A e \in {c, d} : req[e].op \in ReadOps \cup WriteOps
    BY DEF IInv, RequestsOK, Busy, InTables
  <2>. QED
    BY <2>1, NoConnAssumption DEF IInv, TableLockOK
<1>. QED
  BY <1>1, Invariance, PTL

\* The cursor lock is as exclusive.
THEOREM CursorsExclusive == Spec => []MapExclusion
<1>1. IInv => MapExclusion
  BY NoConnAssumption DEF IInv, CursorLockOK, MapExclusion
<1>. QED
  BY <1>1, Invariance, PTL

\* Every pending write belongs to a goroutine that has not come back to the
\* head of its loop since it made it.
THEOREM PendingWrites == Spec => []PendingBelongsToUnfinished
<1>1. IInv => PendingBelongsToUnfinished
  BY DEF IInv, PendingOK, PendingBelongsToUnfinished, Dirty
<1>. QED
  BY <1>1, Invariance, PTL

\* The steps that change the committed tables, the sentinel apart.
LEMMA StoreChanges ==
    ASSUME IInv, [Next]_vars, alive, NEW t \in Tables, NEW k \in Bytes \ {Sentinel},
           store'[t][k] # store[t][k]
    PROVE  \E c \in Conns : Write(c)
<1>1. ~Restart /\ ~UNCHANGED vars
  BY DEF Restart, vars
<1>2. PICK c \in Conns : Serve(c) \/ Client(c)
  BY <1>1 DEF Next
<1>3. ~Client(c)
  <2>1. SentinelSet[t][k] = store[t][k]
    BY DEF SentinelSet, IInv, TypeOK, Contents
  <2>. QED
    BY <2>1 DEF Client, Accept, Disconnect, Receive
<1>4. ~LoopTop(c) /\ ~Lock(c)
  BY DEF LoopTop, Lock, AcquireR, Announce, AcquireW, AcquireCursorLock
<1>5. ~InMap(c)
  BY DEF InMap, PlaceCursor, Recurse, Nested, Next_, Prev, NextDup, NextNoDup, Current,
     DeleteCurrentDuplicates, Panic, tables
<1>6. InTable(c)
  BY <1>2, <1>3, <1>4, <1>5 DEF Serve
<1>7. ~(Get(c) \/ Put(c) \/ Delete(c) \/ First(c) \/ Last(c) \/ Seek(c)
        \/ SeekExact(c) \/ SeekByKeySubkey(c))
  BY DEF Get, Put, Delete, First, Last, Seek, SeekExact, SeekByKeySubkey, tables
<1>8. ~(Upsert(c) \/ Insert(c) \/ Append(c) \/ AppendDup(c) \/ DeleteCurrent(c) \/ MapRace(c))
  BY DEF Upsert, Insert, Append, AppendDup, DeleteCurrent, MapRace, Panic, tables
<1>. QED
  BY <1>6, <1>7, <1>8 DEF InTable

\* Nothing a connection writes gets into the committed tables through its own
\* OP_WRITE: a flush commits only the pending writes of other connections.
THEOREM ForeignFlush == Spec => FlushIsForeign
<1>. DEFINE A == alive => \A t \in Tables : \A k \in Bytes \ {Sentinel} :
               store'[t][k] # store[t][k] =>
                 \E c \in Conns : Runs(c, "in", "Write") /\ cache[t][k].by \in Conns \ {c}
<1>1. IInv /\ [Next]_vars => [A]_vars
  <2>. SUFFICES ASSUME IInv, [Next]_vars, alive, NEW t \in Tables,
                       NEW k \in Bytes \ {Sentinel}, store'[t][k] # store[t][k]
                PROVE  \E c \in Conns : Runs(c, "in", "Write") /\ cache[t][k].by \in Conns \ {c}
    OBVIOUS
  <2>1. PICK c \in Conns : Write(c)
    BY StoreChanges
  <2>2. Runs(c, "in", "Write")
    BY <2>1 DEF Write
  <2>3. cache[t][k].by # NoConn
    <3>1. PICK lost \in SUBSET Racing(c) : store' = Flushed(lost)
      BY <2>1 DEF Write
    <3>2. store'[t][k] \in {store[t][k], View(t)[k]}
      BY <3>1 DEF Flushed
    <3>. QED
      BY <3>2 DEF View
  <2>4. cache[t][k].by \in Conns
    BY <2>3 DEF IInv, TypeOK, CacheEntry
  <2>5. cache[t][k].by # c
    BY <2>2, <2>3 DEF IInv, PendingOK, Runs
  <2>. QED
    BY <2>2, <2>4, <2>5
<1>. QED
  BY <1>1, Invariance, PTL DEF Spec, FlushIsForeign

\* A goroutine stuck at its own cursor lock holds both locks for ever, so the
\* committed tables and the cursors no longer change.
THEOREM StuckFreezes == Spec => StuckFreezesDatabase
<1>. DEFINE A == alive /\ (\E c \in Conns : pc[c] = "stuck") =>
               /\ cursor' = cursor
               /\ \A t \in Tables : \A k \in Bytes \ {Sentinel} : store'[t][k] = store[t][k]
<1>1. IInv /\ [Next]_vars => [A]_vars
  <2>. SUFFICES ASSUME IInv, [Next]_vars, alive, NEW s \in Conns, pc[s] = "stuck"
                PROVE  /\ cursor' = cursor
                       /\ \A t \in Tables : \A k \in Bytes \ {Sentinel} :
                            store'[t][k] = store[t][k]
    OBVIOUS
  <2>1. req[s].op \in CursorMoves
    BY DEF IInv, RequestsOK
  <2>2. rw.writer = NoConn
    <3>1. s \in rw.readers
      BY <2>1 DEF IInv, TableLockOK, InTables, CursorMoves, ReadOps, OpCodes, WriteOps,
         CursorReads, DupMoves, Unhandled
    <3>. QED
      BY <3>1 DEF IInv, TableLockOK
  <2>3. cl.writer = s /\ cl.readers = {}
    BY <2>1, NoConnAssumption DEF IInv, CursorLockOK, InCursors, CursorMoves
  <2>4. \A c \in Conns : ~Write(c)
    BY <2>2, NoConnAssumption DEF Write, Runs, IInv, TableLockOK, InTables, WriteOps
  <2>5. ASSUME NEW c \in Conns PROVE pc[c] # "incl"
    BY <2>3 DEF IInv, CursorLockOK, InCursors
  <2>6. cursor' = cursor
    <3>1. CASE UNCHANGED vars
      BY <3>1 DEF vars
    <3>2. ASSUME NEW c \in Conns, Client(c) \/ LoopTop(c) \/ Lock(c) PROVE cursor' = cursor
      BY <3>2 DEF Client, Accept, Disconnect, Receive, LoopTop, Lock, AcquireR, Announce,
         AcquireW, AcquireCursorLock
    <3>3. ASSUME NEW c \in Conns, InTable(c) PROVE cursor' = cursor
      BY <3>3 DEF InTable, Get, Put, Delete, Write, First, Last, Seek, SeekExact,
         SeekByKeySubkey, Upsert, Insert, Append, AppendDup, DeleteCurrent, MapRace,
         Panic, tables
    <3>4. ASSUME NEW c \in Conns, InMap(c) PROVE cursor' = cursor
      BY <2>5, <3>4 DEF InMap, PlaceCursor, Recurse, Nested, Next_, Prev, NextDup,
         NextNoDup, Current, DeleteCurrentDuplicates, Positioned, Runs, tables
    <3>. QED
      BY <3>1, <3>2, <3>3, <3>4 DEF Next, Serve, Restart
  <2>. QED
    BY <2>4, <2>6, StoreChanges
<1>. QED
  BY <1>1, Invariance, PTL DEF Spec, StuckFreezesDatabase

-----------------------------------------------------------------------------
(* What First, Last and the seeks have read *)

\* The operations that read an entry before they ask for the cursor lock.
FindOps == {"First", "Last", "Seek", "SeekExact", "SeekByKeySubkey"}

\* No message names the sentinel, so nothing but the sentinel's own value is
\* ever stored there, in the cache or in the table.
SentinelOK ==
    /\ \A c \in Conns : req[c].key # Sentinel
    /\ store[HashedAccounts][Sentinel] \in {SentinelValue, NoValue}
    /\ cache[HashedAccounts][Sentinel].val \in {SentinelValue, NoValue}

\* A goroutine on its way to its operation has no entry in hand; one on its way
\* to the cursor has the one that is in the table, and has kept the read lock.
AnswersOK ==
    \A c \in Conns :
      /\ pc[c] \in {"rw", "pend", "in"} => reply[c].st # "entry"
      /\ pc[c] \in {"cl", "incl"} /\ reply[c].st = "entry" =>
           /\ req[c].op \in FindOps
           /\ store[req[c].table][reply[c].key] = reply[c].val

ReadInv == SentinelOK /\ AnswersOK

\* How a step of an operation leaves the answer: c is done, or goes on to the
\* cursor lock with no entry or with one that is in the table, or nothing moves.
AnswerShape(c) ==
    \/ pc' = [pc EXCEPT ![c] = "top"] /\ \E r : reply' = [reply EXCEPT ![c] = r]
    \/ /\ pc' = [pc EXCEPT ![c] = "cl"]
       /\ \E r \in Reply :
            /\ reply' = [reply EXCEPT ![c] = r]
            /\ r.st = "entry" => req[c].op \in FindOps /\ store[req[c].table][r.key] = r.val
    \/ UNCHANGED <<pc, reply>>

\* A step of an operation writes the table only in Write, changes the sentinel
\* in the cache at most to NoValue, and leaves the requests alone.
LEMMA OperatesAnswers ==
    ASSUME TypeOK, RequestsOK, SentinelOK, NEW c \in Conns, Operates(c)
    PROVE  /\ AnswerShape(c)
           /\ req' = req
           /\ store' = store \/ Write(c)
           /\ cache'[HashedAccounts][Sentinel].val \in {SentinelValue, NoValue}
<1>. DEFINE t == req[c].table
            CacheOK == cache'[HashedAccounts][Sentinel].val \in {SentinelValue, NoValue}
<1>0. /\ cache \in [Tables -> [Bytes -> CacheEntry]] /\ HashedAccounts \in Tables
      /\ Sentinel \in Bytes
  BY DEF TypeOK, Tables, Bytes
<1>1. \A k, v : k # Sentinel /\ cache' = Cached(c, t, {k}, v) => CacheOK
  BY <1>0 DEF Cached, SentinelOK
<1>2. \A S : cache' = Cached(c, t, S, NoValue) => CacheOK
  BY <1>0 DEF Cached, SentinelOK
<1>3. cache' = cache => CacheOK
  BY DEF SentinelOK
<1>4. cache' = CleanCache => CacheOK
  BY <1>0 DEF CleanCache, CleanEntry
<1>5. \A r : Respond(c, r) => AnswerShape(c) /\ req' = req
  BY DEF Respond, AnswerShape
<1>6. \A r \in Reply : \A k :
        WantCursor(c, k, r)
          /\ (r.st = "entry" => req[c].op \in FindOps /\ store[t][r.key] = r.val)
        => AnswerShape(c) /\ req' = req
  BY DEF WantCursor, AnswerShape
<1>7. Panic => AnswerShape(c) /\ req' = req /\ store' = store /\ CacheOK
  BY <1>3 DEF Panic, AnswerShape
<1>8. \A r \in {Success, Failure("ErrCannotAppendDup")} :
        r \in Reply /\ r.st # "entry"
  BY PlainReplies DEF Success, Failure, Errors
<1>9. req[c].key # Sentinel
  BY DEF SentinelOK
<1>10. CASE Get(c) \/ Put(c) \/ Delete(c) \/ Write(c)
  <2>1. \E r : Respond(c, r)
    BY <1>10 DEF Get, Put, Delete, Write
  <2>2. store' = store \/ Write(c)
    BY <1>10 DEF Get, Put, Delete, tables
  <2>3. CacheOK
    BY <1>1, <1>2, <1>3, <1>4, <1>9, <1>10 DEF Get, Put, Delete, Write, tables
  <2>. QED
    BY <1>5, <2>1, <2>2, <2>3
<1>11. CASE First(c) \/ Last(c) \/ Seek(c) \/ SeekExact(c) \/ SeekByKeySubkey(c)
  <2>1. pc[c] = "in" /\ req[c].op \in FindOps
    BY <1>11 DEF First, Last, Seek, SeekExact, SeekByKeySubkey, Runs, FindOps
  <2>2. UNCHANGED tables
    BY <1>11 DEF First, Last, Seek, SeekExact, SeekByKeySubkey
  <2>3. \/ Respond(c, Success)
        \/ WantCursor(c, Unset, Success)
        \/ \E k \in Present(store[t]) :
             WantCursor(c, k, Entry(store[t], k)) \/ WantCursor(c, k, Success)
    <3>1. CASE First(c) \/ Last(c)
      BY <3>1 DEF First, Last
    <3>2. CASE Seek(c)
      BY <3>2, Ranges DEF Seek
    <3>3. CASE SeekExact(c)
      BY <3>3, Ranges DEF SeekExact
    <3>4. CASE SeekByKeySubkey(c)
      BY <3>4, Ranges DEF SeekByKeySubkey
    <3>. QED
      BY <1>11, <3>1, <3>2, <3>3, <3>4
  <2>4. \A k \in Present(store[t]) :
          Entry(store[t], k) \in Reply /\ store[t][Entry(store[t], k).key] = Entry(store[t], k).val
    BY <2>1, Served, EntryReply DEF Entry
  <2>5. AnswerShape(c) /\ req' = req
    <3>. HIDE DEF t
    <3>. QED
      BY <1>5, <1>6, <1>8, <2>1, <2>3, <2>4
  <2>. QED
    BY <1>3, <2>2, <2>5 DEF tables
<1>12. CASE Upsert(c) \/ Insert(c) \/ Append(c) \/ AppendDup(c) \/ DeleteCurrent(c) \/ MapRace(c)
  <2>1. store' = store
    BY <1>12 DEF Upsert, Insert, Append, AppendDup, DeleteCurrent, MapRace, Panic, tables
  <2>2. \/ Panic
        \/ \E r : Respond(c, r)
        \/ \E k : WantCursor(c, k, Success) \/ WantCursor(c, k, Failure("ErrCannotAppendDup"))
    BY <1>12 DEF Upsert, Insert, Append, AppendDup, DeleteCurrent, MapRace, SetAndPlace
  <2>3. AnswerShape(c) /\ req' = req
    BY <1>5, <1>6, <1>7, <1>8, <2>2
  <2>4. \/ cache' = cache
        \/ cache' = Cached(c, t, {req[c].key}, req[c].val)
        \/ \E S : cache' = Cached(c, t, S, NoValue)
    BY <1>12 DEF Upsert, Insert, Append, AppendDup, DeleteCurrent, MapRace, SetAndPlace,
       Panic, tables
  <2>5. CacheOK
    <3>. HIDE DEF t, CacheOK
    <3>. QED
      BY <1>1, <1>2, <1>3, <1>9, <2>4
  <2>. QED
    BY <2>1, <2>3, <2>5
<1>13. CASE \/ PlaceCursor(c) \/ Next_(c) \/ Prev(c) \/ NextDup(c) \/ NextNoDup(c)
            \/ Current(c) \/ DeleteCurrentDuplicates(c)
  <2>1. store' = store
    BY <1>13, SMTT(30) DEF PlaceCursor, Next_, Prev, NextDup, NextNoDup, Current,
       DeleteCurrentDuplicates, Panic, tables
  <2>2. Panic \/ \E r : Respond(c, r)
    BY <1>13, SMTT(30) DEF PlaceCursor, Next_, Prev, NextDup, NextNoDup, Current,
       DeleteCurrentDuplicates, MoveCursor
  <2>3. cache' = cache \/ \E S : cache' = Cached(c, t, S, NoValue)
    BY <1>13, SMTT(30) DEF PlaceCursor, Next_, Prev, NextDup, NextNoDup, Current,
       DeleteCurrentDuplicates, Panic, tables
  <2>4. CacheOK
    <3>. HIDE DEF t, CacheOK
    <3>. QED
      BY <1>2, <1>3, <2>3
  <2>. QED
    BY <1>5, <1>7, <2>1, <2>2, <2>4
<1>. QED
  BY <1>10, <1>11, <1>12, <1>13 DEF Operates, InTable

\* While Write runs, nobody is between the halves of a read: it holds rwMutex.
LEMMA WriteRunsAlone ==
    ASSUME IInv, AnswersOK, NEW c \in Conns, Write(c), NEW d \in Conns,
           pc[d] \in {"cl", "incl"}
    PROVE  reply[d].st # "entry"
<1>1. rw.writer = c
  BY DEF IInv, TableLockOK, InTables, Write, Runs, WriteOps
<1>2. d \notin rw.readers
  BY <1>1, NoConnAssumption DEF IInv, TableLockOK
<1>3. req[d].op \notin FindOps
  BY <1>2 DEF IInv, TableLockOK, InTables, FindOps, ReadOps, WriteOps, Unhandled, OpCodes,
     KeySeeks, CursorReads, DupMoves
<1>. QED
  BY <1>3 DEF AnswersOK

\* At the start nobody has read anything.
LEMMA ReadInit == Init => ReadInv
BY RouterAssumption, UnsetAssumption
   DEF Init, ReadInv, SentinelOK, AnswersOK, CleanCache, CleanEntry, NoRequest, Tables, Bytes

\* The part of the invariant about reads is inductive, given the rest.
LEMMA ReadInductive ==
    IInv /\ ReadInv /\ [Next]_vars => ReadInv'
<1>. SUFFICES ASSUME IInv, ReadInv, [Next]_vars PROVE ReadInv'
  OBVIOUS
<1>. USE DEF ReadInv
<1>0. /\ store \in [Tables -> Contents] /\ pc \in [Conns -> Places]
      /\ req \in [Conns -> Request] /\ reply \in [Conns -> Reply]
      /\ HashedAccounts \in Tables /\ Sentinel \in Bytes /\ IInv'
  BY Inductive DEF IInv, TypeOK, Tables, Bytes
<1>1. ASSUME NEW c \in Conns, Operates(c) PROVE ReadInv'
  <2>1. /\ AnswerShape(c) /\ req' = req /\ (store' = store \/ Write(c))
        /\ cache'[HashedAccounts][Sentinel].val \in {SentinelValue, NoValue}
    BY <1>1, OperatesAnswers DEF IInv
  <2>2. CASE Write(c)
    <3>1. pc' = [pc EXCEPT ![c] = "top"] /\ \E r : reply' = [reply EXCEPT ![c] = r]
      BY <2>2 DEF Write, Respond
    <3>2. AnswersOK'
      BY <1>0, <2>1, <2>2, <3>1, WriteRunsAlone DEF AnswersOK
    <3>3. store'[HashedAccounts][Sentinel] \in {SentinelValue, NoValue}
      <4>1. PICK lost \in SUBSET Racing(c) : store' = Flushed(lost)
        BY <2>2 DEF Write
      <4>. QED
        BY <1>0, <4>1 DEF Flushed, View, SentinelOK
    <3>. QED
      BY <2>1, <3>2, <3>3 DEF SentinelOK
  <2>3. CASE store' = store
    <3>1. AnswersOK'
      BY <1>0, <2>1, <2>3 DEF AnswerShape, AnswersOK
    <3>. QED
      BY <2>1, <2>3, <3>1 DEF SentinelOK
  <2>. QED
    BY <2>1, <2>2, <2>3
<1>2. ASSUME NEW c \in Conns, Lock(c) \/ Recurse(c) \/ Nested(c) PROVE ReadInv'
  <2>1. UNCHANGED <<store, cache, cursor, req>>
    BY <1>2 DEF Lock, AcquireR, Announce, AcquireW, AcquireCursorLock, Recurse, Nested,
       Respond, tables
  <2>2. \/ /\ \/ pc[c] = "rw" /\ pc'[c] = "pend"
              \/ pc[c] \in {"rw", "pend"} /\ pc'[c] \in {"in", "cl"}
              \/ pc[c] = "cl" /\ pc'[c] = "incl"
              \/ pc'[c] \in {"rec", "stuck", "top"}
           /\ reply' = reply
        \/ pc'[c] = "top" /\ \E r : reply' = [reply EXCEPT ![c] = r]
    BY <1>0, <1>2 DEF Lock, AcquireR, Announce, AcquireW, AcquireCursorLock, Recurse,
       Nested, Respond, Entered
  <2>3. \A d \in Conns \ {c} : pc'[d] = pc[d]
    BY <1>0, <1>2 DEF Lock, AcquireR, Announce, AcquireW, AcquireCursorLock, Recurse,
       Nested, Respond, Entered
  <2>4. AnswersOK'
    BY <1>0, <2>1, <2>2, <2>3 DEF AnswersOK
  <2>. QED
    BY <2>1, <2>4 DEF SentinelOK
<1>3. ASSUME NEW c \in Conns, LoopTop(c) \/ Accept(c) \/ Disconnect(c) PROVE ReadInv'
  <2>1. store' = store /\ (cache' = cache \/ cache' = CleanCache)
    BY <1>3 DEF LoopTop, Accept, Disconnect
  <2>2. req' = req \/ req' = [req EXCEPT ![c] = NoRequest]
    BY <1>3 DEF LoopTop, Accept, Disconnect
  <2>3. /\ \E p \in {"top", "read", "closed"} : pc' = [pc EXCEPT ![c] = p]
        /\ reply' = reply \/ reply' = [reply EXCEPT ![c] = NoReply]
    BY <1>3 DEF LoopTop, Accept, Disconnect
  <2>4. SentinelOK'
    BY <1>0, <2>1, <2>2, UnsetAssumption DEF SentinelOK, CleanCache, CleanEntry, NoRequest
  <2>5. AnswersOK'
    BY <1>0, <2>1, <2>2, <2>3 DEF AnswersOK
  <2>. QED
    BY <2>4, <2>5
<1>4. ASSUME NEW c \in Conns, Receive(c) PROVE ReadInv'
  <2>2. PICK r : Dispatch(c, r) /\ r.key # Sentinel
    BY <1>4, Received
  <2>3. /\ req' = [req EXCEPT ![c] = r] /\ store' = SentinelSet /\ cache' = cache
        /\ \E p \in {"rw", "top"} : pc' = [pc EXCEPT ![c] = p]
    BY <1>4, <2>2 DEF Receive, Dispatch
  <2>4. \E a : reply' = [reply EXCEPT ![c] = a] /\ a.st # "entry"
    <3>1. PICK a \in {Failure("ErrTableNotFound"), Failure("ErrInvalidRequestData"),
                      Failure("ErrInvalidOperationCode"), NoReply} :
            reply' = [reply EXCEPT ![c] = a]
      BY <2>2 DEF Dispatch
    <3>2. a.st # "entry"
      BY DEF Failure, NoReply
    <3>. QED
      BY <3>1, <3>2
  <2>5. SentinelOK'
    BY <1>0, <2>2, <2>3 DEF SentinelOK, SentinelSet, Contents
  <2>6. AnswersOK'
    <3>. SUFFICES ASSUME NEW d \in Conns
                  PROVE  /\ pc'[d] \in {"rw", "pend", "in"} => reply'[d].st # "entry"
                         /\ pc'[d] \in {"cl", "incl"} /\ reply'[d].st = "entry" =>
                              /\ req'[d].op \in FindOps
                              /\ store'[req'[d].table][reply'[d].key] = reply'[d].val
      BY DEF AnswersOK
    <3>1. CASE d = c
      BY <1>0, <2>3, <2>4, <3>1
    <3>2. CASE d # c
      <4>1. pc'[d] = pc[d] /\ req'[d] = req[d] /\ reply'[d] = reply[d]
        BY <1>0, <2>3, <2>4, <3>2
      <4>. SUFFICES ASSUME pc[d] \in {"cl", "incl"}, reply[d].st = "entry"
                    PROVE  store'[req[d].table][reply[d].key] = reply[d].val
        BY <4>1 DEF AnswersOK
      <4>2. /\ store[req[d].table][reply[d].key] = reply[d].val /\ req[d].table \in Tables
            /\ reply[d].key \in Bytes /\ reply[d].val # NoValue
        BY <1>0, TablesAssumption DEF AnswersOK, IInv, RequestsOK, Busy, Reply, Errors,
           StoredValues
      <4>. QED
        BY <1>0, <2>3, <4>2 DEF SentinelOK, SentinelSet, Contents
    <3>. QED
      BY <3>1, <3>2
  <2>. QED
    BY <2>5, <2>6
<1>5. CASE Restart
  BY <1>0, <1>5, RouterAssumption, UnsetAssumption
     DEF Restart, SentinelOK, AnswersOK, CleanCache, CleanEntry, NoRequest
<1>6. CASE UNCHANGED vars
  BY <1>6 DEF vars, SentinelOK, AnswersOK
<1>. QED
  BY <1>1, <1>2, <1>3, <1>4, <1>5, <1>6 DEF Next, Serve, Client, InMap, Operates

\* However long First, Last or a seek waits for the cursor lock, the entry it
\* is going to answer is still in the table: it has kept its read lock, and the
\* sentinel, which is stored without one, never changes its value.
THEOREM ReadsStable == Spec => []StableReads
<1>1. ReadInv => StableReads
  BY DEF ReadInv, AnswersOK, StableReads
<1>2. Init => ReadInv
  BY ReadInit
<1>. QED
  BY <1>1, <1>2, ReadInductive, Invariance, PTL DEF Spec
=============================================================================
