------------------------------- MODULE DBRouter -------------------------------
(***************************************************************************)
(* The database router: the execution client's connections to the node's   *)
(* unix socket, each served by a goroutine of its own                      *)
(* (ethHandleDatabaseConnection, app/db_eth.go).  All goroutines share the *)
(* committed store, one write cache in front of it, the map from cursor    *)
(* ids to keys, and two RWMutexes: app.rwMutex over the tables and         *)
(* ethIteratorsCurrentKeyLock over the cursor map.                         *)
(*                                                                         *)
(* A step is what a goroutine does between two points where it can wait or *)
(* be overtaken: acquiring a lock, one critical section, an unlocked       *)
(* access to shared state, a read from the socket.                         *)
(***************************************************************************)
EXTENDS RouterMessages, RWMutex

CONSTANTS Uses,               \* Uses[c]: the cursors the client of c names
          Ops,                \* the operations clients send
          ReqTables,          \* the table codes they send, known or not
          OddLens,            \* lengths of malformed messages they send
          Loadable,           \* the tables app.Load may find on disk
          PositionedClients   \* clients move a cursor only after placing it

ASSUME RouterAssumption ==
    /\ NoCursor \notin Cursors
    /\ Uses \in [Conns -> SUBSET Cursors]
    /\ Ops \subseteq OpCodes
    /\ ReqTables \subseteq Nat
    /\ OddLens \subseteq Nat \ {0}
    /\ Loadable \subseteq [Tables -> Contents]
    /\ \A m \in Loadable : m[HashedAccounts][Sentinel] \in {SentinelValue, NoValue}
    /\ PositionedClients \in BOOLEAN

VARIABLES store,    \* CommitMultiStore(): what readers read
          cache,    \* executionCacheMultistore: the writes not flushed yet
          cursor,   \* ethIteratorsCurrentKey
          pc,       \* where each goroutine is
          req,      \* the request it serves
          target,   \* the position it found for the request's cursor
          reply,    \* its response
          rw,       \* app.rwMutex
          cl,       \* ethIteratorsCurrentKeyLock
          alive     \* a panic in any goroutine ends the process

tables == <<store, cache, cursor>>
vars == <<store, cache, cursor, pc, req, target, reply, rw, cl, alive>>

\* closed: no connection            in:    inside rwMutex
\* top:    at the head of the loop  cl:    at the cursor lock
\* read:   in conn.Read             incl:  inside the cursor lock
\* rw:     at rwMutex               rec:   inside both, at rwMutex again
\* pend:   announced as its writer  stuck: at a cursor lock it holds itself
Places == {"closed", "top", "read", "rw", "pend", "in", "cl", "incl", "rec", "stuck"}

-----------------------------------------------------------------------------
(* Requests *)

KeyArgs(op, t) ==
    CASE op = "Delete" /\ DupSorted(t) -> BareKeys \cup FullKeys
      [] op # "Delete" /\ NamesSubkey(op, DupSorted(t)) -> FullKeys
      [] ~NamesSubkey(op, DupSorted(t)) /\
           op \in ValueOps \cup KeySeeks \cup {"Get", "Delete", "SeekByKeySubkey"} -> BareKeys
      [] OTHER -> {Unset}

\* The length of the message a client builds.
WireLen(op, k) ==
    FieldBytes(op, k \in FullKeys) + (IF op \in ValueOps THEN 1 ELSE 0)

\* The early exits of the handler up to and including the switch.
Status(r) ==
    IF r.n > 1 /\ r.table \notin Tables THEN "notable"
    ELSE Decode(r.op, DupSorted(r.table), r.n)

-----------------------------------------------------------------------------
(* The write cache *)

CleanEntry == [val |-> NoValue, by |-> NoConn]
CleanCache == [t \in Tables |-> [k \in Bytes |-> CleanEntry]]
Dirty(t) == {k \in Bytes : cache[t][k].by # NoConn}

\* executionCacheMultistore.GetKVStore(t) read through to the store.
View(t) == [k \in Bytes |-> IF cache[t][k].by = NoConn THEN store[t][k]
                            ELSE cache[t][k].val]

\* Set v, or Delete when v is NoValue, in the cache; by remembers the
\* goroutine (the code does not).
Cached(c, t, S, v) ==
    [cache EXCEPT ![t] = [k \in Bytes |->
        IF k \in S THEN [val |-> v, by |-> c] ELSE cache[t][k]]]

-----------------------------------------------------------------------------
(* How a step of an operation ends *)

\* Faulty variant: an error return without the deferred unlocks.
RespondKeepsLocks(c, r) ==
    /\ reply' = [reply EXCEPT ![c] = r]
    /\ pc' = [pc EXCEPT ![c] = "top"]
    /\ rw' = IF r.st \in Errors THEN rw ELSE Released(rw, c)
    /\ cl' = IF r.st \in Errors THEN cl ELSE Released(cl, c)
    /\ UNCHANGED <<req, target, alive>>

\* Return: the deferred unlocks run, the response goes out.
Respond(c, r) ==
    /\ reply' = [reply EXCEPT ![c] = r]
    /\ pc' = [pc EXCEPT ![c] = "top"]
    /\ rw' = Released(rw, c)
    /\ cl' = Released(cl, c)
    /\ UNCHANGED <<req, target, alive>>

\* Faulty variant: rwMutex is unlocked before the cursor is placed.
WantCursorUnlocked(c, k, r) ==
    /\ target' = [target EXCEPT ![c] = k]
    /\ reply' = [reply EXCEPT ![c] = r]
    /\ pc' = [pc EXCEPT ![c] = "cl"]
    /\ rw' = Released(rw, c)
    /\ UNCHANGED <<req, cl, alive>>

\* Go on to the cursor lock with a position and a response in hand.  Upsert
\* alone has left rwMutex by then, since Put returned.
WantCursor(c, k, r) ==
    /\ target' = [target EXCEPT ![c] = k]
    /\ reply' = [reply EXCEPT ![c] = r]
    /\ pc' = [pc EXCEPT ![c] = "cl"]
    /\ rw' = IF req[c].op = "Upsert" THEN Released(rw, c) ELSE rw
    /\ UNCHANGED <<req, cl, alive>>

\* Return from inside the cursor lock with the cursor at k.
MoveCursor(c, k, r) ==
    /\ cursor' = [cursor EXCEPT ![req[c].cur] = k]
    /\ Respond(c, r)

\* No goroutine recovers: a panic ends the process.
Panic ==
    /\ alive' = FALSE
    /\ UNCHANGED <<store, cache, cursor, pc, req, target, reply, rw, cl>>

-----------------------------------------------------------------------------
(* Connections *)

Accept(c) ==
    /\ pc[c] = "closed"
    /\ pc' = [pc EXCEPT ![c] = "top"]
    /\ UNCHANGED <<store, cache, cursor, req, target, reply, rw, cl, alive>>

\* Faulty variant: the cache of the previous request is kept.
LoopTopKeepsCache(c) ==
    /\ pc[c] = "top"
    /\ pc' = [pc EXCEPT ![c] = "read"]
    /\ req' = [req EXCEPT ![c] = NoRequest]
    /\ target' = [target EXCEPT ![c] = Unset]
    /\ reply' = [reply EXCEPT ![c] = NoReply]
    /\ UNCHANGED <<store, cache, cursor, rw, cl, alive>>

\* The head of the loop replaces the cache that all connections share,
\* whatever it holds, without a lock.
LoopTop(c) ==
    /\ pc[c] = "top"
    /\ cache' = CleanCache
    /\ pc' = [pc EXCEPT ![c] = "read"]
    /\ req' = [req EXCEPT ![c] = NoRequest]
    /\ target' = [target EXCEPT ![c] = Unset]
    /\ reply' = [reply EXCEPT ![c] = NoReply]
    /\ UNCHANGED <<store, cursor, rw, cl, alive>>

Disconnect(c) ==
    /\ pc[c] = "read"
    /\ pc' = [pc EXCEPT ![c] = "closed"]
    /\ UNCHANGED <<store, cache, cursor, req, target, reply, rw, cl, alive>>

\* Every request first stores the sentinel in hashed_accounts, unlocked and
\* past the cache.
SentinelSet == [store EXCEPT ![HashedAccounts][Sentinel] = SentinelValue]

\* The rest of the handler before the operation, by the outcome of decoding.
Dispatch(c, r) ==
    /\ req' = [req EXCEPT ![c] = r]
    /\ pc' = [pc EXCEPT ![c] = IF Status(r) = "ok" THEN "rw" ELSE "top"]
    /\ reply' = [reply EXCEPT ![c] =
         CASE Status(r) = "notable" -> Failure("ErrTableNotFound")
           [] Status(r) = "invalid" -> Failure("ErrInvalidRequestData")
           [] Status(r) = "unknown" -> Failure("ErrInvalidOperationCode")
           [] OTHER -> NoReply]
    /\ alive' = (Status(r) # "panic")

CursorMoves == {"Next", "Prev", "NextDup", "NextNoDup"}

Receive(c) ==
    /\ pc[c] = "read"
    /\ \E o \in Ops, t \in ReqTables :
       \E k \in KeyArgs(o, t),
          v \in IF o \in ValueOps THEN Values ELSE {NoValue},
          u \in IF o \in CursorOps THEN Uses[c] ELSE {NoCursor} :
       \E n \in {WireLen(o, k)} \cup OddLens :
          LET r == [op |-> o, table |-> t, key |-> k, val |-> v, cur |-> u, n |-> n]
          IN /\ n = WireLen(o, k) \/ Status(r) # "ok"
             /\ PositionedClients /\ o \in CursorMoves => cursor[u] # Unset
             /\ Dispatch(c, r)
    /\ store' = SentinelSet
    /\ UNCHANGED <<cache, cursor, target, rw, cl>>

-----------------------------------------------------------------------------
(* Locks *)

\* The operations that lock the cursor map before they touch the table.
MapFirst == CursorMoves \cup {"Current", "DeleteCurrentDuplicates"}

Entered(c) == [pc EXCEPT ![c] = IF req[c].op \in MapFirst THEN "cl" ELSE "in"]

\* Faulty variant: Write takes the read lock.
AcquireRForWrite(c) ==
    /\ pc[c] = "rw" /\ req[c].op \in ReadOps \cup {"Write"}
    /\ CanRLock(rw)
    /\ rw' = RLocked(rw, c)
    /\ pc' = Entered(c)
    /\ UNCHANGED <<store, cache, cursor, req, target, reply, cl, alive>>

AcquireR(c) ==
    /\ pc[c] = "rw" /\ req[c].op \in ReadOps
    /\ CanRLock(rw)
    /\ rw' = RLocked(rw, c)
    /\ pc' = Entered(c)
    /\ UNCHANGED <<store, cache, cursor, req, target, reply, cl, alive>>

Announce(c) ==
    /\ pc[c] = "rw" /\ req[c].op \in WriteOps
    /\ CanAnnounce(rw)
    /\ rw' = Announced(rw, c)
    /\ pc' = [pc EXCEPT ![c] = "pend"]
    /\ UNCHANGED <<store, cache, cursor, req, target, reply, cl, alive>>

AcquireW(c) ==
    /\ pc[c] = "pend"
    /\ CanLock(rw)
    /\ rw' = Locked(rw, c)
    /\ pc' = Entered(c)
    /\ UNCHANGED <<store, cache, cursor, req, target, reply, cl, alive>>

\* Faulty variant: the operations that only read the tables take the cursor
\* lock for reading, although they move the cursor.
AcquireCursorLockShared(c) ==
    /\ pc[c] = "cl"
    /\ \/ req[c].op \in ReadOps /\ CanRLock(cl) /\ cl' = RLocked(cl, c)
       \/ req[c].op \notin ReadOps /\ CanLock(cl) /\ cl' = Locked(cl, c)
    /\ pc' = [pc EXCEPT ![c] = "incl"]
    /\ UNCHANGED <<store, cache, cursor, req, target, reply, rw, alive>>

\* Nobody asks for the cursor lock twice except through Nested below, so its
\* writers' announcement is left out.
AcquireCursorLock(c) ==
    /\ pc[c] = "cl"
    /\ \/ req[c].op = "Current" /\ CanRLock(cl) /\ cl' = RLocked(cl, c)
       \/ req[c].op # "Current" /\ CanLock(cl) /\ cl' = Locked(cl, c)
    /\ pc' = [pc EXCEPT ![c] = "incl"]
    /\ UNCHANGED <<store, cache, cursor, req, target, reply, rw, alive>>

\* c runs the body of operation o, inside rwMutex or inside both locks.
Runs(c, place, o) == pc[c] = place /\ req[c].op = o

-----------------------------------------------------------------------------
(* Operations on the table alone *)

Get(c) ==
    LET t == req[c].table
        S == IF DupSorted(t) THEN WithPrefix(Present(store[t]), req[c].key)
             ELSE Present(store[t]) \cap {req[c].key}
    IN /\ Runs(c, "in", "Get")
       /\ \/ S = {} /\ Respond(c, Success)
          \/ \E k \in S : IsLeast(k, S) /\ Respond(c, Entry(store[t], k))
       /\ UNCHANGED tables

Put(c) ==
    /\ Runs(c, "in", "Put")
    /\ cache' = Cached(c, req[c].table, {req[c].key}, req[c].val)
    /\ Respond(c, Success)
    /\ UNCHANGED <<store, cursor>>

\* A bare key in the dup-sorted table deletes what the committed store, not
\* the cache, has under it.
Delete(c) ==
    LET t == req[c].table
        S == IF DupSorted(t) /\ req[c].key \in BareKeys
             THEN WithPrefix(Present(store[t]), req[c].key) ELSE {req[c].key}
    IN /\ Runs(c, "in", "Delete")
       /\ cache' = Cached(c, t, S, NoValue)
       /\ Respond(c, Success)
       /\ UNCHANGED <<store, cursor>>

\* The writes of c's flush that the unlocked Set of another connection's
\* request may undo: both replace the root of the hashed_accounts tree.
Racing(c) ==
    IF \E d \in Conns \ {c} : pc[d] = "read" THEN Dirty(HashedAccounts) ELSE {}

Flushed(lost) ==
    [t \in Tables |-> [k \in Bytes |->
        IF t = HashedAccounts /\ k \in lost THEN store[t][k] ELSE View(t)[k]]]

Write(c) ==
    /\ Runs(c, "in", "Write")
    /\ \E lost \in SUBSET Racing(c) : store' = Flushed(lost)
    /\ cache' = CleanCache
    /\ Respond(c, Success)
    /\ UNCHANGED cursor

-----------------------------------------------------------------------------
(* Operations that look at the table first and then place the cursor *)

First(c) ==
    LET S == Present(store[req[c].table])
    IN /\ Runs(c, "in", "First")
       /\ \/ S = {} /\ Respond(c, Success)
          \/ \E k \in S : IsLeast(k, S) /\ WantCursor(c, k, Entry(store[req[c].table], k))
       /\ UNCHANGED tables

Last(c) ==
    LET S == Present(store[req[c].table])
    IN /\ Runs(c, "in", "Last")
       /\ \/ S = {} /\ Respond(c, Success)
          \/ \E k \in S : IsGreatest(k, S) /\ WantCursor(c, k, Entry(store[req[c].table], k))
       /\ UNCHANGED tables

Seek(c) ==
    LET S == From(Present(store[req[c].table]), req[c].key)
    IN /\ Runs(c, "in", "Seek")
       /\ \/ S = {} /\ Respond(c, Success)
          \/ \E k \in S : IsLeast(k, S) /\ WantCursor(c, k, Entry(store[req[c].table], k))
       /\ UNCHANGED tables

\* A miss moves the cursor to the next greater key and answers nil.
SeekExact(c) ==
    LET t == req[c].table
        S == From(Present(store[t]), req[c].key)
        Hit(k) == IF DupSorted(t) THEN k[1] = req[c].key[1] ELSE k = req[c].key
    IN /\ Runs(c, "in", "SeekExact")
       /\ \/ S = {} /\ Respond(c, Success)
          \/ \E k \in S : /\ IsLeast(k, S)
                          /\ WantCursor(c, k, IF Hit(k) THEN Entry(store[t], k) ELSE Success)
       /\ UNCHANGED tables

\* The only seek that unsets the cursor when there is nothing to find.
SeekByKeySubkey(c) ==
    LET t == req[c].table
        S == From(Present(store[t]), req[c].key)
        Hit(k) == k[1] = req[c].key[1]
    IN /\ Runs(c, "in", "SeekByKeySubkey")
       /\ \/ S = {} /\ WantCursor(c, Unset, Success)
          \/ \E k \in S : /\ IsLeast(k, S)
                          /\ WantCursor(c, k, IF Hit(k) THEN Entry(store[t], k) ELSE Success)
       /\ UNCHANGED tables

\* Store the request's entry in the cache and go on to place the cursor.
SetAndPlace(c) ==
    /\ cache' = Cached(c, req[c].table, {req[c].key}, req[c].val)
    /\ WantCursor(c, req[c].key, Success)

Upsert(c) ==
    /\ Runs(c, "in", "Upsert")
    /\ SetAndPlace(c)
    /\ UNCHANGED <<store, cursor>>

Insert(c) ==
    LET t == req[c].table
        S == IF DupSorted(t) THEN WithPrefix(Present(View(t)), req[c].key)
             ELSE Present(View(t)) \cap {req[c].key}
    IN /\ Runs(c, "in", "Insert")
       /\ \/ S # {} /\ Respond(c, Failure("ErrKeyAlreadyPresent")) /\ UNCHANGED cache
          \/ S = {} /\ SetAndPlace(c)
       /\ UNCHANGED <<store, cursor>>

\* In an empty table the entry is stored and the cursor stays where it was.
Append(c) ==
    LET t == req[c].table
        S == Present(View(t))
    IN /\ Runs(c, "in", "Append")
       /\ \/ /\ S = {}
             /\ cache' = Cached(c, t, {req[c].key}, req[c].val)
             /\ Respond(c, Success)
             /\ UNCHANGED <<store, cursor>>
          \/ \E g \in S :
               /\ IsGreatest(g, S)
               /\ \/ Short(g) /\ Panic
                  \/ /\ ~Short(g) /\ req[c].key[1] < g[1]
                     /\ Respond(c, Failure("ErrCannotAppend"))
                     /\ UNCHANGED tables
                  \/ /\ ~Short(g) /\ req[c].key[1] >= g[1]
                     /\ SetAndPlace(c)
                     /\ UNCHANGED <<store, cursor>>

\* The refusal, too, waits for the cursor lock.
AppendDup(c) ==
    LET S == WithPrefix(Present(View(req[c].table)), req[c].key)
        refused == \E j \in S : req[c].key[2] < j[2]
    IN /\ Runs(c, "in", "AppendDup")
       /\ \/ refused /\ WantCursor(c, Unset, Failure("ErrCannotAppendDup")) /\ UNCHANGED cache
          \/ ~refused /\ SetAndPlace(c)
       /\ UNCHANGED <<store, cursor>>

\* Reads the cursor map outside its lock.  The key is deleted in the cache;
\* the iterator, opened before, steps past whatever it stands on.
DeleteCurrent(c) ==
    LET t == req[c].table
        cur == cursor[req[c].cur]
        S == From(Present(View(t)), cur)
    IN /\ Runs(c, "in", "DeleteCurrent")
       /\ \/ /\ cur = Unset
             /\ Respond(c, Failure("ErrCurrentKeyIsNotSet"))
             /\ UNCHANGED cache
          \/ /\ cur # Unset /\ S = {}
             /\ Respond(c, Failure("ErrCurrentIteratorKeyIsInvalid"))
             /\ UNCHANGED cache
          \/ /\ cur # Unset /\ S # {}
             /\ cache' = Cached(c, t, {cur}, NoValue)
             /\ \/ ~HasSecond(S) /\ WantCursor(c, Unset, Success)
                \/ \E k \in S : IsSecond(k, S) /\ WantCursor(c, k, Success)
       /\ UNCHANGED <<store, cursor>>

\* Go ends the process when it sees a map read during a map write: here, an
\* Upsert that is placing its cursor.
MapRace(c) ==
    /\ Runs(c, "in", "DeleteCurrent")
    /\ \E d \in Conns \ {c} : Runs(d, "incl", "Upsert")
    /\ Panic

\* Under the cursor lock, the second half of the operations above.
PlaceCursor(c) ==
    /\ pc[c] = "incl" /\ req[c].op \notin MapFirst
    /\ cursor' = IF reply[c].st \in Errors THEN cursor
                 ELSE [cursor EXCEPT ![req[c].cur] = target[c]]
    /\ Respond(c, reply[c])
    /\ UNCHANGED <<store, cache>>

-----------------------------------------------------------------------------
(* Operations inside both locks *)

\* Faulty variant: the cursor lock is given up before the inner call.
RecurseUnlocked(c) ==
    /\ pc[c] = "incl" /\ req[c].op \in CursorMoves
    /\ cursor[req[c].cur] = Unset
    /\ pc' = [pc EXCEPT ![c] = "rec"]
    /\ cl' = Released(cl, c)
    /\ UNCHANGED <<store, cache, cursor, req, target, reply, rw, alive>>

\* Without a position these call First or Last, which lock both mutexes again.
Recurse(c) ==
    /\ pc[c] = "incl" /\ req[c].op \in CursorMoves
    /\ cursor[req[c].cur] = Unset
    /\ pc' = [pc EXCEPT ![c] = "rec"]
    /\ UNCHANGED <<store, cache, cursor, req, target, reply, rw, cl, alive>>

\* The inner call: a second RLock, which a writer announced meanwhile blocks;
\* an empty table ends the call; otherwise the goroutine asks for the cursor
\* lock it holds, and never runs again.
Nested(c) ==
    /\ pc[c] = "rec"
    /\ CanRLock(rw)
    /\ \/ /\ Present(store[req[c].table]) = {}
          /\ Respond(c, Success)
       \/ /\ Present(store[req[c].table]) # {}
          /\ pc' = [pc EXCEPT ![c] = "stuck"]
          /\ UNCHANGED <<req, target, reply, rw, cl, alive>>
    /\ UNCHANGED tables

\* The operations below run with the cursor at cur.
Positioned(c, o) == Runs(c, "incl", o) /\ cursor[req[c].cur] # Unset

Next_(c) ==
    LET S == From(Present(store[req[c].table]), cursor[req[c].cur])
    IN /\ Positioned(c, "Next")
       /\ \/ ~HasSecond(S) /\ Respond(c, Success) /\ UNCHANGED cursor
          \/ \E k \in S : IsSecond(k, S) /\ MoveCursor(c, k, Entry(store[req[c].table], k))
       /\ UNCHANGED <<store, cache>>

Prev(c) ==
    LET S == Below(Present(store[req[c].table]), cursor[req[c].cur])
    IN /\ Positioned(c, "Prev")
       /\ \/ S = {} /\ Respond(c, Success) /\ UNCHANGED cursor
          \/ \E k \in S : IsGreatest(k, S) /\ MoveCursor(c, k, Entry(store[req[c].table], k))
       /\ UNCHANGED <<store, cache>>

NextDup(c) ==
    LET cur == cursor[req[c].cur]
        S == WithPrefix(From(Present(store[req[c].table]), cur), cur)
    IN /\ Positioned(c, "NextDup")
       /\ \/ Short(cur) /\ Panic
          \/ /\ ~Short(cur)
             /\ \/ /\ S = {} /\ UNCHANGED cursor
                   /\ Respond(c, Failure("ErrCurrentIteratorKeyIsInvalid"))
                \/ /\ S # {} /\ ~HasSecond(S) /\ UNCHANGED cursor
                   /\ Respond(c, Success)
                \/ \E k \in S : /\ IsSecond(k, S)
                                /\ MoveCursor(c, k, Entry(store[req[c].table], k))
             /\ UNCHANGED <<store, cache>>

\* Faulty variant: the next key is looked for one entry past the prefix.
NextNoDupSkipping(c) ==
    LET cur == cursor[req[c].cur]
        S == BeyondPrefix(Present(store[req[c].table]), cur)
    IN /\ Positioned(c, "NextNoDup")
       /\ \/ Short(cur) /\ Panic
          \/ /\ ~Short(cur)
             /\ \/ ~HasSecond(S) /\ Respond(c, Success) /\ UNCHANGED cursor
                \/ \E k \in S : /\ IsSecond(k, S)
                                /\ MoveCursor(c, k, Entry(store[req[c].table], k))
             /\ UNCHANGED <<store, cache>>

NextNoDup(c) ==
    LET cur == cursor[req[c].cur]
        S == BeyondPrefix(Present(store[req[c].table]), cur)
    IN /\ Positioned(c, "NextNoDup")
       /\ \/ Short(cur) /\ Panic
          \/ /\ ~Short(cur)
             /\ \/ S = {} /\ Respond(c, Success) /\ UNCHANGED cursor
                \/ \E k \in S : /\ IsLeast(k, S)
                                /\ MoveCursor(c, k, Entry(store[req[c].table], k))
             /\ UNCHANGED <<store, cache>>

\* Faulty variant: the value is returned without asking whether it exists.
CurrentUnchecked(c) ==
    LET cur == cursor[req[c].cur]
    IN /\ Runs(c, "incl", "Current")
       /\ Respond(c, IF cur = Unset THEN Failure("ErrCurrentKeyIsNotSet")
                     ELSE Entry(store[req[c].table], cur))
       /\ UNCHANGED tables

Current(c) ==
    LET cur == cursor[req[c].cur]
        m == store[req[c].table]
    IN /\ Runs(c, "incl", "Current")
       /\ \/ cur = Unset /\ Respond(c, Failure("ErrCurrentKeyIsNotSet"))
          \/ cur # Unset /\ cur \notin Present(m) /\ Respond(c, Success)
          \/ cur \in Present(m) /\ Respond(c, Entry(m, cur))
       /\ UNCHANGED tables

DeleteCurrentDuplicates(c) ==
    LET t == req[c].table
        cur == cursor[req[c].cur]
        S == WithPrefix(Present(View(t)), cur)
        R == BeyondPrefix(Present(View(t)), cur)
    IN /\ Runs(c, "incl", "DeleteCurrentDuplicates")
       /\ \/ cur = Unset /\ Respond(c, Failure("ErrCurrentKeyIsNotSet")) /\ UNCHANGED tables
          \/ cur # Unset /\ Short(cur) /\ Panic
          \/ /\ cur # Unset /\ ~Short(cur) /\ S = {}
             /\ Respond(c, Failure("ErrCurrentIteratorKeyIsInvalid"))
             /\ UNCHANGED tables
          \/ /\ cur # Unset /\ ~Short(cur) /\ S # {}
             /\ cache' = Cached(c, t, S, NoValue)
             /\ \/ R = {} /\ MoveCursor(c, Unset, Success)
                \/ \E k \in R : IsLeast(k, R) /\ MoveCursor(c, k, Success)
             /\ UNCHANGED store

-----------------------------------------------------------------------------

Init ==
    /\ store \in Loadable
    /\ cache = CleanCache
    /\ cursor = [u \in Cursors |-> Unset]
    /\ pc = [c \in Conns |-> "closed"]
    /\ req = [c \in Conns |-> NoRequest]
    /\ target = [c \in Conns |-> Unset]
    /\ reply = [c \in Conns |-> NoReply]
    /\ rw = Unlocked
    /\ cl = Unlocked
    /\ alive = TRUE

\* The supervisor starts the node again; app.Load finds the last commit.
Restart ==
    /\ ~alive
    /\ store' \in Loadable
    /\ cache' = CleanCache
    /\ cursor' = [u \in Cursors |-> Unset]
    /\ pc' = [c \in Conns |-> "closed"]
    /\ req' = [c \in Conns |-> NoRequest]
    /\ target' = [c \in Conns |-> Unset]
    /\ reply' = [c \in Conns |-> NoReply]
    /\ rw' = Unlocked
    /\ cl' = Unlocked
    /\ alive' = TRUE

Lock(c) == AcquireR(c) \/ Announce(c) \/ AcquireW(c) \/ AcquireCursorLock(c)

InTable(c) ==
    \/ Get(c) \/ Put(c) \/ Delete(c) \/ Write(c)
    \/ First(c) \/ Last(c) \/ Seek(c) \/ SeekExact(c) \/ SeekByKeySubkey(c)
    \/ Upsert(c) \/ Insert(c) \/ Append(c) \/ AppendDup(c)
    \/ DeleteCurrent(c) \/ MapRace(c)

InMap(c) ==
    \/ PlaceCursor(c) \/ Recurse(c) \/ Nested(c)
    \/ Next_(c) \/ Prev(c) \/ NextDup(c) \/ NextNoDup(c)
    \/ Current(c) \/ DeleteCurrentDuplicates(c)

\* What the goroutine of c does by itself, up to its next conn.Read.
Serve(c) == alive /\ (LoopTop(c) \/ Lock(c) \/ InTable(c) \/ InMap(c))

\* What the client of c does.
Client(c) == alive /\ (Accept(c) \/ Disconnect(c) \/ Receive(c))

Next == (\E c \in Conns : Serve(c) \/ Client(c)) \/ Restart

Spec == Init /\ [][Next]_vars

\* A goroutine in a critical section gets on with it; whoever waits for a lock
\* gets it if it is free again and again, as Go's mutexes promise: a reader is
\* let in when the writer it waited for leaves, a writer no later than 1 ms
\* after it starts to starve.  Nothing makes a client send or a node restart.
Fairness ==
    \A c \in Conns :
      /\ WF_vars(Serve(c))
      /\ SF_vars(alive /\ (AcquireR(c) \/ Announce(c)))
      /\ SF_vars(alive /\ AcquireCursorLock(c))

FairSpec == Spec /\ Fairness

-----------------------------------------------------------------------------
(* Properties *)

CacheEntry == [val : StoredValues \cup {NoValue}, by : Conns \cup {NoConn}]

\* Every variable holds a value of its kind.
TypeOK ==
    /\ store \in [Tables -> Contents]
    /\ cache \in [Tables -> [Bytes -> CacheEntry]]
    /\ cursor \in [Cursors -> Bytes \cup {Unset}]
    /\ pc \in [Conns -> Places]
    /\ req \in [Conns -> Request]
    /\ target \in [Conns -> Bytes \cup {Unset}]
    /\ reply \in [Conns -> Reply]
    /\ rw \in Mutex
    /\ cl \in Mutex
    /\ alive \in BOOLEAN

\* c is between its rwMutex.Lock or RLock and the unlock.
InTables(c) ==
    \/ pc[c] \in {"in", "rec", "stuck"}
    \/ pc[c] \in {"cl", "incl"} /\ req[c].op # "Upsert"

\* c is between its ethIteratorsCurrentKeyLock.Lock or RLock and the unlock.
InCursors(c) == pc[c] \in {"incl", "rec", "stuck"}

\* An operation that writes the tables runs alone: none of the many exits of
\* an operation leaves rwMutex held or takes it from somebody else.  Only
\* Upsert, which has unlocked it before it places its cursor, may overlap.
Exclusion ==
    \A c, d \in Conns :
      c # d /\ InTables(c) /\ InTables(d) => {req[c].op, req[d].op} \subseteq ReadOps

\* The cursor map is accessed under its lock by one goroutine at a time, or
\* by Current alone.  (DeleteCurrent's first read of it is outside the lock.)
MapExclusion ==
    \A c, d \in Conns :
      c # d /\ InCursors(c) /\ InCursors(d) => req[c].op = "Current" /\ req[d].op = "Current"

\* The entry that First, Last and the seeks have read is still in the table,
\* with that value, however long they wait for the cursor lock: no Write gets
\* between the two halves of a read.
StableReads ==
    \A c \in Conns :
      pc[c] \in {"cl", "incl"} /\ reply[c].st = "entry"
        => store[req[c].table][reply[c].key] = reply[c].val

\* A write waits in the cache only as long as the goroutine that made it has
\* not come back to the head of its loop.
PendingBelongsToUnfinished ==
    \A t \in Tables : \A k \in Dirty(t) :
      pc[cache[t][k].by] \in {"top", "cl", "incl"}

\* The committed tables change only when OP_WRITE of one connection flushes a
\* write of another one: what a connection puts and then writes itself is gone
\* by the time its own Write runs.  The sentinel apart, and a restart.
FlushIsForeign ==
    [][alive => \A t \in Tables : \A k \in Bytes \ {Sentinel} :
         store'[t][k] # store[t][k] =>
           \E c \in Conns : Runs(c, "in", "Write") /\ cache[t][k].by \in Conns \ {c}]_vars

\* Once a goroutine has asked for the cursor lock that it holds, neither the
\* committed tables nor any cursor changes until the process is restarted,
\* whatever the other connections do.
StuckFreezesDatabase ==
    [][alive /\ (\E c \in Conns : pc[c] = "stuck") =>
         /\ cursor' = cursor
         /\ \A t \in Tables : \A k \in Bytes \ {Sentinel} : store'[t][k] = store[t][k]]_vars

\* Every request that reaches an operation is answered, unless the process
\* dies, when clients move only cursors that they have placed.
EveryRequestAnswered ==
    \A c \in Conns : pc[c] = "rw" ~> (pc[c] = "top" \/ ~alive)

\* Append compares its key with the greatest one in the table and stores it or
\* refuses it; the process survives it.
AppendSurvives == \A c \in Conns : Runs(c, "in", "Append") => alive

\* "if current key is not set of the cursor then first entry is returned":
\* Next is answered, wherever its cursor is.
NextIsAnswered ==
    \A c \in Conns :
      (pc[c] = "rw" /\ req[c].op = "Next") ~> (pc[c] = "top" \/ ~alive)
=============================================================================
