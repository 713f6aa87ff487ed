----------------------- MODULE DBRouterRefinesProofs -----------------------
(***************************************************************************)
(* DBRouter implements TableService, for any number of connections,        *)
(* cursors, keys, subkeys and values.  Beside the invariants of            *)
(* DBRouterProofs the mapping needs RInv: what a search carries to the     *)
(* cursor lock is what it would find there, and what a goroutine that has  *)
(* found nothing yet may not have set.                                     *)
(***************************************************************************)
EXTENDS DBRouterRefines, DBRouterProofs

\* First, Last or a seek r has found the position k and the answer a in m.
Finds(r, m, k, a) ==
    LET S == Present(m)
        T == From(S, r.key)
        Hit == IF DupSorted(r.table) THEN k[1] = r.key[1] ELSE k = r.key
    IN \/ r.op = "First" /\ IsLeast(k, S) /\ a = Entry(m, k)
       \/ r.op = "Last" /\ IsGreatest(k, S) /\ a = Entry(m, k)
       \/ r.op = "Seek" /\ IsLeast(k, T) /\ a = Entry(m, k)
       \/ r.op = "SeekExact" /\ IsLeast(k, T) /\ a = IF Hit THEN Entry(m, k) ELSE Success
       \/ r.op = "SeekByKeySubkey" /\ IsLeast(k, T) /\ a = IF Hit THEN Entry(m, k) ELSE Success
       \/ r.op = "SeekByKeySubkey" /\ T = {} /\ k = Unset /\ a = Success

\* Until its operation has found something, a goroutine has no answer.
NoReplyYet ==
    \A c \in Conns :
      \/ pc[c] \in {"read", "rw", "pend", "in", "rec", "stuck"}
      \/ pc[c] \in {"cl", "incl"} /\ req[c].op \in MapFirst
      => reply[c] = NoReply

\* Only operations on cursors name one, only hashed_storages has subkeys to
\* seek, what is stored has a key, and only operations on cursors ask for
\* their lock.
ArgumentsOK ==
    \A c \in Conns :
      /\ pc[c] \in Busy =>
           /\ req[c].op \notin CursorOps => req[c].cur = NoCursor
           /\ req[c].op = "SeekByKeySubkey" => DupSorted(req[c].table)
           /\ req[c].op \in ValueOps => req[c].key \in Bytes
      /\ pc[c] \in {"cl", "incl"} => req[c].op \in CursorOps

\* Nobody places the cursor whose move has entered the inner call.
UnsetOK ==
    \A c \in Conns : pc[c] \in {"rec", "stuck"} => cursor[req[c].cur] = Unset

\* Table t as a reader may see it when s are the tables: the router's own key
\* may be missing.
SeenAs(s, t) ==
    {s[t]} \cup (IF t = HashedAccounts THEN {[s[t] EXCEPT ![Sentinel] = NoValue]} ELSE {})

\* What First, Last or a seek has found, it would find now, but that it may
\* have missed the router's own key.
FoundOK ==
    \A c \in Conns :
      pc[c] \in {"cl", "incl"} /\ req[c].op \in FindOps =>
        \E m \in SeenAs(store, req[c].table) : Finds(req[c], m, target[c], reply[c])

RInv == NoReplyYet /\ ArgumentsOK /\ UnsetOK /\ FoundOK

-----------------------------------------------------------------------------
(* The service's operators *)

\* The service's tables, orders and replies are the router's.
LEMMA SameTables ==
    /\ Service!Tables = Tables /\ Service!Bytes = Bytes /\ Service!Sentinel = Sentinel
    /\ Service!BareKeys = BareKeys /\ Service!HashedAccounts = HashedAccounts
    /\ Service!Success = Success /\ Service!NoReply = NoReply
    /\ Service!Request = Request /\ Service!NoRequest = NoRequest
    /\ Service!Errors = Errors /\ Service!ReadOps = ReadOps /\ Service!WriteOps = WriteOps
BY DEF Service!Tables, Tables, Service!Bytes, Bytes, Service!Sentinel, Sentinel,
   Service!BareKeys, BareKeys, Service!FullKeys, FullKeys, Service!HashedAccounts,
   HashedAccounts, Service!HashedStorages, HashedStorages, Service!Success, Success,
   Service!NoReply, NoReply, Service!Request, Request, Service!NoRequest, NoRequest,
   Service!Errors, Errors, Service!ReadOps, ReadOps, Service!WriteOps, WriteOps,
   Service!OpCodes, OpCodes, Service!Unhandled, Unhandled, Service!CursorReads, CursorReads,
   Service!KeySeeks, KeySeeks, Service!CursorPuts, CursorPuts, Service!DupMoves, DupMoves

\* So are its operators on keys and entries.
LEMMA SameOrders ==
    /\ \A t : Service!DupSorted(t) <=> DupSorted(t)
    /\ \A m, k : Service!Entry(m, k) = Entry(m, k)
    /\ \A e : Service!Failure(e) = Failure(e)
    /\ \A m : Service!Present(m) = Present(m)
    /\ \A k, S : Service!IsLeast(k, S) <=> IsLeast(k, S)
    /\ \A k, S : Service!IsGreatest(k, S) <=> IsGreatest(k, S)
    /\ \A k, S : Service!From(S, k) = From(S, k)
    /\ \A k, S : Service!Below(S, k) = Below(S, k)
    /\ \A k, S : Service!WithPrefix(S, k) = WithPrefix(S, k)
    /\ \A k, S : Service!BeyondPrefix(S, k) = BeyondPrefix(S, k)
BY SameTables DEF Service!DupSorted, DupSorted, Service!HashedStorages, HashedStorages, 
   Service!Entry, Entry, Service!Failure, Failure, Service!Present, Present,
   Service!IsLeast, IsLeast, Service!IsGreatest, IsGreatest, Service!From, From,
   Service!Before, Before,
   Service!Below, Below, Service!WithPrefix, WithPrefix, Service!BeyondPrefix, BeyondPrefix

-----------------------------------------------------------------------------
(* What the service finds *)

\* The entry an iterator stands on is the one the service chooses.
LEMMA Chosen ==
    ASSUME NEW S \in SUBSET Bytes
    PROVE  /\ \A k : IsLeast(k, S) => Service!LeastOf(S) = k
           /\ \A k : IsGreatest(k, S) => Service!GreatestOf(S) = k
           /\ S = {} => Service!LeastOf(S) = Unset /\ Service!GreatestOf(S) = Unset
<1>1. ASSUME NEW k, IsLeast(k, S) PROVE Service!LeastOf(S) = k
  <2>1. k \in S /\ S # {}
    BY <1>1 DEF IsLeast
  <2>2. \A j \in S : IsLeast(j, S) => j = k
    BY <1>1, <2>1, KeyOrder DEF IsLeast
  <2>. QED
    BY <1>1, <2>1, <2>2, SameOrders DEF Service!LeastOf
<1>2. ASSUME NEW k, IsGreatest(k, S) PROVE Service!GreatestOf(S) = k
  <2>1. k \in S /\ S # {}
    BY <1>2 DEF IsGreatest
  <2>2. \A j \in S : IsGreatest(j, S) => j = k
    BY <1>2, <2>1, KeyOrder DEF IsGreatest
  <2>. QED
    BY <1>2, <2>1, <2>2, SameOrders DEF Service!GreatestOf
<1>3. S = {} => Service!LeastOf(S) = Unset /\ Service!GreatestOf(S) = Unset
  BY DEF Service!LeastOf, Service!GreatestOf
<1>. QED
  BY <1>1, <1>2, <1>3

\* The same for the second entry of a range.
LEMMA ChosenSecond ==
    ASSUME NEW S \in SUBSET Bytes
    PROVE  /\ \A k : IsSecond(k, S) => Service!SecondOf(S) = k
           /\ ~HasSecond(S) => Service!SecondOf(S) = Unset
<1>1. ASSUME NEW k, IsSecond(k, S) PROVE Service!SecondOf(S) = k
  <2>1. PICK f \in S : IsLeast(f, S) /\ IsLeast(k, S \ {f})
    BY <1>1 DEF IsSecond
  <2>2. Service!LeastOf(S) = f /\ S \ {f} \in SUBSET Bytes
    BY <2>1, Chosen
  <2>3. Service!LeastOf(S \ {f}) = k
    BY <2>1, <2>2, Chosen
  <2>. QED
    BY <2>2, <2>3 DEF Service!SecondOf
<1>2. ASSUME ~HasSecond(S) PROVE Service!SecondOf(S) = Unset
  <2>1. S \ {Service!LeastOf(S)} = {}
    <3>1. CASE S = {}
      BY <3>1
    <3>2. CASE S # {}
      <4>1. PICK f \in S : S = {f}
        BY <1>2, <3>2 DEF HasSecond
      <4>2. IsLeast(f, S)
        BY <4>1, KeyOrder DEF IsLeast
      <4>. QED
        BY <4>1, <4>2, Chosen
    <3>. QED
      BY <3>1, <3>2
  <2>. QED
    BY <2>1 DEF Service!SecondOf, Service!LeastOf
<1>. QED
  BY <1>1, <1>2

\* Every set of entries that an operation looks at is a set of keys.
LEMMA KeySets ==
    ASSUME NEW m, NEW k
    PROVE  LET P == Present(m)
           IN /\ P \in SUBSET Bytes /\ From(P, k) \in SUBSET Bytes
              /\ Below(P, k) \in SUBSET Bytes /\ WithPrefix(P, k) \in SUBSET Bytes
              /\ WithPrefix(From(P, k), k) \in SUBSET Bytes
              /\ BeyondPrefix(P, k) \in SUBSET Bytes
              /\ P \cap {k} \in SUBSET Bytes
BY DEF Present, From, Below, WithPrefix, BeyondPrefix

\* A move that finds the entry k, or none.
LEMMA MoveResult ==
    ASSUME NEW r, NEW m, NEW cur, NEW k, r.op \in {"First", "Last"} \cup CursorMoves,
           Service!MoveTarget(r.op, Present(m), cur) = k,
           r.op = "NextDup" => cur = Unset \/ WithPrefix(From(Present(m), cur), cur) # {}
    PROVE  Service!ReadResult(r, m, cur) =
             IF k = Unset THEN [to |-> cur, ans |-> Success]
             ELSE [to |-> k, ans |-> Entry(m, k)]
BY SameTables, SameOrders DEF Service!ReadResult, Service!Found, CursorMoves

\* What First, Last or a seek has found is the service's result.
LEMMA FindResult ==
    ASSUME NEW r, NEW m, NEW cur, NEW k, NEW a, Finds(r, m, k, a)
    PROVE  Service!ReadResult(r, m, cur) = [to |-> k, ans |-> a]
<1>. DEFINE S == Present(m)
            T == From(S, r.key)
            near == Service!LeastOf(T)
            Hit == IF DupSorted(r.table) THEN k[1] = r.key[1] ELSE k = r.key
<1>1. S \in SUBSET Bytes /\ T \in SUBSET Bytes /\ Unset \notin S /\ Unset \notin T
  BY KeySets, UnsetAssumption
<1>2. CASE r.op = "First" /\ IsLeast(k, S) /\ a = Entry(m, k)
  <2>1. Service!MoveTarget(r.op, S, cur) = k /\ k # Unset
    BY <1>1, <1>2, Chosen DEF Service!MoveTarget, IsLeast
  <2>. QED
    BY <1>2, <2>1, MoveResult
<1>3. CASE r.op = "Last" /\ IsGreatest(k, S) /\ a = Entry(m, k)
  <2>1. Service!MoveTarget(r.op, S, cur) = k /\ k # Unset
    BY <1>1, <1>3, Chosen DEF Service!MoveTarget, IsGreatest
  <2>. QED
    BY <1>3, <2>1, MoveResult
<1>4. ASSUME r.op \in {"Seek", "SeekExact", "SeekByKeySubkey"}, IsLeast(k, T),
             a = IF r.op = "Seek" \/ Hit THEN Entry(m, k) ELSE Success
      PROVE  Service!ReadResult(r, m, cur) = [to |-> k, ans |-> a]
  <2>1. near = k /\ k # Unset
    BY <1>1, <1>4, Chosen DEF IsLeast
  <2>2. Service!LeastOf(Service!From(Service!Present(m), r.key)) = k
    BY <2>1, SameOrders
  <2>. HIDE DEF S, T, near
  <2>. QED
    BY <1>4, <2>1, <2>2, SameTables, SameOrders DEF Service!ReadResult, Service!Found
<1>5. CASE r.op = "SeekByKeySubkey" /\ T = {} /\ k = Unset /\ a = Success
  <2>1. Service!LeastOf(Service!From(Service!Present(m), r.key)) = Unset
    BY <1>1, <1>5, Chosen, SameOrders
  <2>. HIDE DEF S, T, near
  <2>. QED
    BY <1>5, <2>1, SameTables DEF Service!ReadResult
<1>. QED
  BY <1>2, <1>3, <1>4, <1>5 DEF Finds

\* A search that finds nothing leaves the cursor where it is.
LEMMA NothingResult ==
    ASSUME NEW r, NEW m, NEW cur,
           \/ r.op \in {"First", "Last"} /\ Present(m) = {}
           \/ r.op \in {"Seek", "SeekExact"} /\ From(Present(m), r.key) = {}
           \/ r.op \in CursorMoves /\ cur = Unset /\ Present(m) = {}
    PROVE  Service!ReadResult(r, m, cur) = [to |-> cur, ans |-> Success]
<1>1. Service!LeastOf({}) = Unset /\ Service!GreatestOf({}) = Unset
  BY DEF Service!LeastOf, Service!GreatestOf
<1>2. CASE r.op \in {"First", "Last"} \cup CursorMoves
  <2>1. Present(m) = {} /\ (r.op \in CursorMoves => cur = Unset)
    BY <1>2 DEF CursorMoves
  <2>2. Service!MoveTarget(r.op, Present(m), cur) = Unset
    BY <1>1, <1>2, <2>1 DEF Service!MoveTarget, CursorMoves
  <2>. QED
    BY <1>2, <2>1, <2>2, MoveResult DEF CursorMoves
<1>3. CASE r.op \in {"Seek", "SeekExact"}
  <2>1. Service!LeastOf(Service!From(Service!Present(m), r.key)) = Unset
    BY <1>1, <1>3, SameOrders DEF CursorMoves
  <2>. QED
    BY <1>3, <2>1, SameTables DEF Service!ReadResult, Service!Found
<1>. QED
  BY <1>2, <1>3

\* Get and Current leave the cursor where it is, whatever they find.
LEMMA GetResult ==
    ASSUME NEW r, NEW m, NEW cur, r.op = "Get", NEW S,
           S = IF DupSorted(r.table) THEN WithPrefix(Present(m), r.key)
               ELSE Present(m) \cap {r.key}
    PROVE  /\ S = {} => Service!ReadResult(r, m, cur) = [to |-> cur, ans |-> Success]
           /\ \A k : IsLeast(k, S) =>
                Service!ReadResult(r, m, cur) = [to |-> cur, ans |-> Entry(m, k)]
<1>1. Service!Named(r.table, Service!Present(m), r.key) = S
  BY SameOrders DEF Service!Named
<1>2. S \in SUBSET Bytes /\ Unset \notin S
  BY KeySets, UnsetAssumption
<1>3. ASSUME S = {} PROVE Service!ReadResult(r, m, cur) = [to |-> cur, ans |-> Success]
  BY <1>1, <1>2, <1>3, Chosen, SameTables DEF Service!ReadResult, Service!Found
<1>4. ASSUME NEW k, IsLeast(k, S)
      PROVE  Service!ReadResult(r, m, cur) = [to |-> cur, ans |-> Entry(m, k)]
  <2>1. Service!LeastOf(S) = k /\ k # Unset
    BY <1>2, <1>4, Chosen DEF IsLeast
  <2>. QED
    BY <1>1, <2>1, SameOrders DEF Service!ReadResult, Service!Found
<1>. QED
  BY <1>3, <1>4

\* Current answers with the entry under its cursor, if there is one.
LEMMA CurrentResult ==
    ASSUME NEW r, NEW m, NEW cur, r.op = "Current"
    PROVE  Service!ReadResult(r, m, cur) =
             [to |-> cur, ans |-> IF cur = Unset THEN Failure("ErrCurrentKeyIsNotSet")
                                  ELSE IF cur \in Present(m) THEN Entry(m, cur) ELSE Success]
<1>. DEFINE S == Present(m) \cap {cur}
<1>1. S \in SUBSET Bytes
  BY KeySets
<1>2. cur \in Present(m) => Service!LeastOf(S) = cur
  <2>1. cur \in Present(m) => IsLeast(cur, S)
    BY <1>1, KeyOrder DEF IsLeast
  <2>. QED
    BY <1>1, <2>1, Chosen
<1>3. cur \notin Present(m) => Service!LeastOf(S) = Unset
  BY <1>1, Chosen
<1>4. Service!Present(m) = Present(m)
  BY SameOrders
<1>. QED
  BY <1>2, <1>3, <1>4, SameTables, SameOrders DEF Service!ReadResult, Service!Found

\* A NextDup whose cursor is behind all duplicates is refused.
LEMMA NextDupRefused ==
    ASSUME NEW r, NEW m, NEW cur, r.op = "NextDup", cur # Unset,
           WithPrefix(From(Present(m), cur), cur) = {}
    PROVE  Service!ReadResult(r, m, cur) =
             [to |-> cur, ans |-> Failure("ErrCurrentIteratorKeyIsInvalid")]
<1>1. Service!WithPrefix(Service!From(Service!Present(m), cur), cur) = {}
  BY SameOrders
<1>. QED
  BY <1>1, SameOrders DEF Service!ReadResult

-----------------------------------------------------------------------------
(* The invariant *)

\* The operations by the lock they take, and the cursor they have.
LEMMA ReadKinds ==
    /\ FindOps \cup CursorMoves \cup {"Get", "Current"} \subseteq ReadOps
    /\ FindOps \cup CursorMoves \cup {"Current"} \subseteq CursorOps
    /\ {"Put", "Delete", "Upsert", "Insert", "Append", "AppendDup", "DeleteCurrent",
        "DeleteCurrentDuplicates"} \subseteq WriteOps \ {"Write"}
    /\ {"Upsert", "Insert", "Append", "AppendDup", "DeleteCurrent", "DeleteCurrentDuplicates"}
         \subseteq CursorOps
    /\ {"Get", "Put", "Delete", "Write"} \cap CursorOps = {}
BY DEF FindOps, CursorMoves, ReadOps, WriteOps, OpCodes, Unhandled, CursorReads, KeySeeks,
   CursorPuts, DupMoves, CursorOps

\* A seek by subkey that is accepted is in the table that has subkeys.
LEMMA AcceptedSeek ==
    ASSUME NEW r \in Request, Status(r) = "ok", r.op = "SeekByKeySubkey"
    PROVE  DupSorted(r.table)
BY DEF Request, Status, Decode, DecodeSeekByKeySubkey, CursorReads, KeySeeks, CursorPuts, DupMoves

\* The outcomes of decoding.
LEMMA StatusValues ==
    ASSUME NEW r \in Request
    PROVE  Status(r) \in {"ok", "panic", "notable", "invalid", "unknown"}
<1>1. r.op \in OpCodes /\ r.n \in Nat
  BY DEF Request
<1>. DEFINE V == {"ok", "panic", "notable", "invalid", "unknown"}
            d == DupSorted(r.table)
            n == r.n
<1>2. /\ DecodeGet(n) \in V /\ DecodePut(d, n) \in V /\ DecodeDelete(d, n) \in V
      /\ DecodeCursorRead(n) \in V /\ DecodeKeySeek(n) \in V
      /\ DecodeDupMove(d, n) \in V /\ DecodeSeekByKeySubkey(d, n) \in V
      /\ DecodeAppendDup(d, n) \in V
  BY DEF DecodeGet, DecodePut, DecodeDelete, DecodeCursorRead, DecodeKeySeek, DecodeDupMove,
     DecodeSeekByKeySubkey, DecodeAppendDup
<1>3. DecodeCursorPut(d, n) \in V
  BY <1>1 DEF DecodeCursorPut, CursorIDBytes, KeyBytes, SubKeyBytes
<1>. HIDE DEF d
<1>4. Decode(r.op, d, n) \in V
  BY <1>1, <1>2, <1>3 DEF Decode, OpCodes, CursorReads, KeySeeks, CursorPuts, DupMoves, Unhandled
<1>. QED
  BY <1>4 DEF Status, d

\* What a reader may see stays when a request leaves its mark.
LEMMA SeenAfterMark ==
    ASSUME TypeOK, SentinelOK, NEW t \in Tables, NEW m \in SeenAs(store, t)
    PROVE  m \in SeenAs(SentinelSet, t)
<1>. DEFINE h == HashedAccounts
            s == SentinelSet
<1>0. /\ store[t] \in [Bytes -> StoredValues \cup {NoValue}] /\ Sentinel \in Bytes
      /\ h \in Tables /\ DOMAIN store = Tables
  BY DEF TypeOK, Contents, Bytes, Tables
<1>1. CASE t # h
  BY <1>0, <1>1 DEF SentinelSet, SeenAs
<1>2. CASE t = h
  <2>1. s[h] = [store[h] EXCEPT ![Sentinel] = SentinelValue]
    BY <1>0 DEF SentinelSet
  <2>2. [s[h] EXCEPT ![Sentinel] = NoValue] = [store[h] EXCEPT ![Sentinel] = NoValue]
    BY <1>0, <1>2, <2>1
  <2>3. store[h] = s[h] \/ store[h] = [s[h] EXCEPT ![Sentinel] = NoValue]
    BY <1>0, <1>2, <2>1 DEF SentinelOK
  <2>. QED
    BY <1>2, <2>2, <2>3 DEF SeenAs
<1>. QED
  BY <1>1, <1>2

\* How a step of an operation leaves its finding: it ends, goes on to the
\* cursor lock with what the table says, or ends the process.
LEMMA OperatesFinds ==
    ASSUME IInv, ArgumentsOK, NEW c \in Conns, Operates(c)
    PROVE  /\ \/ \E a : Respond(c, a)
              \/ \E k, a : /\ WantCursor(c, k, a) /\ req[c].op \in CursorOps \ MapFirst
                           /\ req[c].op \in FindOps => Finds(req[c], store[req[c].table], k, a)
              \/ Panic
           /\ cursor' = cursor \/ (pc[c] = "incl" /\ req[c].op # "Current")
           /\ store' = store \/ Write(c)
<1>. DEFINE r == req[c]
            m == store[r.table]
            Ends == \/ \E a : Respond(c, a)
                    \/ \E k, a : /\ WantCursor(c, k, a) /\ r.op \in CursorOps \ MapFirst
                                 /\ r.op \in FindOps => Finds(r, m, k, a)
                    \/ Panic
<1>1. CASE Get(c) \/ Put(c) \/ Delete(c) \/ Write(c)
  <2>1. \E a : Respond(c, a)
    BY <1>1 DEF Get, Put, Delete, Write
  <2>2. cursor' = cursor /\ (store' = store \/ Write(c))
    BY <1>1 DEF Get, Put, Delete, Write, tables
  <2>. QED
    BY <2>1, <2>2
<1>2. CASE First(c) \/ Last(c) \/ Seek(c) \/ SeekExact(c) \/ SeekByKeySubkey(c)
  <2>1. UNCHANGED tables
    BY <1>2 DEF First, Last, Seek, SeekExact, SeekByKeySubkey
  <2>2. r.op \in CursorOps \ MapFirst
    BY <1>2, ReadKinds DEF First, Last, Seek, SeekExact, SeekByKeySubkey, Runs, MapFirst,
       CursorMoves, FindOps
  <2>3. CASE First(c)
    <3>1. \/ Respond(c, Success)
          \/ \E k : WantCursor(c, k, Entry(m, k)) /\ r.op = "First" /\ IsLeast(k, Present(m))
      BY <2>3 DEF First, Runs
    <3>. QED
      BY <2>1, <2>2, <3>1 DEF Finds, tables
  <2>4. CASE Last(c)
    <3>1. \/ Respond(c, Success)
          \/ \E k : WantCursor(c, k, Entry(m, k)) /\ r.op = "Last" /\ IsGreatest(k, Present(m))
      BY <2>4 DEF Last, Runs
    <3>. QED
      BY <2>1, <2>2, <3>1 DEF Finds, tables
  <2>. DEFINE T == From(Present(m), r.key)
              Hit(k) == IF DupSorted(r.table) THEN k[1] = r.key[1] ELSE k = r.key
  <2>5. CASE Seek(c)
    <3>1. \/ Respond(c, Success)
          \/ \E k : WantCursor(c, k, Entry(m, k)) /\ r.op = "Seek" /\ IsLeast(k, T)
      BY <2>5 DEF Seek, Runs
    <3>. QED
      BY <2>1, <2>2, <3>1 DEF Finds, tables
  <2>6. CASE SeekExact(c)
    <3>1. \/ Respond(c, Success)
          \/ \E k : /\ WantCursor(c, k, IF Hit(k) THEN Entry(m, k) ELSE Success)
                    /\ r.op = "SeekExact" /\ IsLeast(k, T)
      BY <2>6 DEF SeekExact, Runs
    <3>. QED
      BY <2>1, <2>2, <3>1 DEF Finds, tables
  <2>7. CASE SeekByKeySubkey(c)
    <3>1. r.op = "SeekByKeySubkey" /\ DupSorted(r.table)
      BY <2>7 DEF SeekByKeySubkey, Runs, ArgumentsOK, Busy
    <3>2. \/ T = {} /\ WantCursor(c, Unset, Success)
          \/ \E k : /\ WantCursor(c, k, IF k[1] = r.key[1] THEN Entry(m, k) ELSE Success)
                    /\ IsLeast(k, T)
      BY <2>7 DEF SeekByKeySubkey
    <3>. QED
      BY <2>1, <2>2, <3>1, <3>2 DEF Finds, tables
  <2>. QED
    BY <1>2, <2>3, <2>4, <2>5, <2>6, <2>7
<1>3. CASE Upsert(c) \/ Insert(c) \/ Append(c) \/ AppendDup(c) \/ DeleteCurrent(c) \/ MapRace(c)
  <2>1. UNCHANGED <<store, cursor>>
    BY <1>3 DEF Upsert, Insert, Append, AppendDup, DeleteCurrent, MapRace, Panic, tables
  <2>2. Panic \/ (\E a : Respond(c, a)) \/ \E k, a : WantCursor(c, k, a)
    BY <1>3 DEF Upsert, Insert, Append, AppendDup, DeleteCurrent, MapRace, SetAndPlace
  <2>3. r.op \in CursorOps \ MapFirst /\ r.op \notin FindOps
    BY <1>3, ReadKinds DEF Upsert, Insert, Append, AppendDup, DeleteCurrent, MapRace, Runs, MapFirst,
       CursorMoves, FindOps
  <2>. QED
    BY <2>1, <2>2, <2>3
<1>4. CASE \/ PlaceCursor(c) \/ Next_(c) \/ Prev(c) \/ NextDup(c) \/ NextNoDup(c)
           \/ DeleteCurrentDuplicates(c)
  <2>1. pc[c] = "incl" /\ r.op # "Current"
    BY <1>4, Zenon DEF PlaceCursor, Next_, Prev, NextDup, NextNoDup, DeleteCurrentDuplicates,
       Positioned, Runs, MapFirst
  <2>2. Panic \/ \E a : Respond(c, a)
    BY <1>4, SMTT(30) DEF PlaceCursor, Next_, Prev, NextDup, NextNoDup, DeleteCurrentDuplicates,
       MoveCursor
  <2>3. store' = store
    BY <1>4, SMTT(30) DEF PlaceCursor, Next_, Prev, NextDup, NextNoDup, DeleteCurrentDuplicates,
       Panic, tables
  <2>. QED
    BY <2>1, <2>2, <2>3
<1>5. CASE Current(c)
  BY <1>5 DEF Current, tables
<1>. QED
  BY <1>1, <1>2, <1>3, <1>4, <1>5 DEF Operates, InTable

\* A flush is alone with the tables, so nobody is between finding and placing.
LEMMA WriteFindsNobody ==
    ASSUME IInv, NEW c \in Conns, Write(c), NEW d \in Conns, pc[d] \in {"cl", "incl"}
    PROVE  req[d].op \notin FindOps
<1>1. rw.writer = c
  BY DEF IInv, TableLockOK, InTables, Write, Runs, WriteOps
<1>2. d \notin rw.readers
  BY <1>1, NoConnAssumption DEF IInv, TableLockOK
<1>. QED
  BY <1>2 DEF IInv, TableLockOK, InTables, FindOps, ReadOps, WriteOps, Unhandled, OpCodes,
     KeySeeks, CursorReads, DupMoves

\* A step of an operation.
LEMMA OperatesKeepsR ==
    ASSUME IInv, RInv, NEW c \in Conns, Operates(c)
    PROVE  RInv'
<1>. USE DEF RInv
<1>0. /\ pc \in [Conns -> Places] /\ reply \in [Conns -> Reply]
      /\ target \in [Conns -> Bytes \cup {Unset}] /\ req \in [Conns -> Request]
  BY DEF IInv, TypeOK
<1>1. /\ cursor' = cursor \/ (pc[c] = "incl" /\ req[c].op # "Current")
      /\ store' = store \/ Write(c)
      /\ pc[c] \in {"in", "incl", "rec"}
  BY OperatesFinds, OperatesShape DEF Shape, IInv
<1>2. /\ req' = req
      /\ \/ pc' = [pc EXCEPT ![c] = "top"] /\ target' = target /\ \E a : reply' = [reply EXCEPT ![c] = a]
         \/ /\ pc' = [pc EXCEPT ![c] = "cl"] /\ req[c].op \in CursorOps \ MapFirst
            /\ \E k, a : /\ target' = [target EXCEPT ![c] = k] /\ reply' = [reply EXCEPT ![c] = a]
                         /\ req[c].op \in FindOps => Finds(req[c], store[req[c].table], k, a)
         \/ UNCHANGED <<pc, target, reply>>
  <2>1. CASE \E a : Respond(c, a)
    BY <2>1 DEF Respond
  <2>2. CASE \E k, a : /\ WantCursor(c, k, a) /\ req[c].op \in CursorOps \ MapFirst
                       /\ req[c].op \in FindOps => Finds(req[c], store[req[c].table], k, a)
    BY <2>2 DEF WantCursor
  <2>3. CASE Panic
    BY <2>3 DEF Panic
  <2>. QED
    BY <2>1, <2>2, <2>3, OperatesFinds
<1>3. NoReplyYet'
  BY <1>0, <1>1, <1>2 DEF NoReplyYet
<1>4. ArgumentsOK'
  BY <1>0, <1>1, <1>2 DEF ArgumentsOK, Busy
<1>5. UnsetOK'
  <2>. SUFFICES ASSUME NEW d \in Conns, pc'[d] \in {"rec", "stuck"}
                PROVE  cursor'[req[d].cur] = Unset
    BY <1>2 DEF UnsetOK
  <2>1. pc[d] = pc'[d]
    BY <1>0, <1>2
  <2>2. cursor' = cursor
    BY <1>1, <2>1, NoConnAssumption DEF IInv, CursorLockOK, InCursors, RequestsOK, CursorMoves
  <2>. QED
    BY <2>1, <2>2 DEF UnsetOK
<1>6. FoundOK'
  <2>. SUFFICES ASSUME NEW d \in Conns, pc'[d] \in {"cl", "incl"}, req[d].op \in FindOps
                PROVE  \E m \in SeenAs(store', req[d].table) : Finds(req[d], m, target'[d], reply'[d])
    BY <1>2 DEF FoundOK
  <2>1. CASE d = c /\ pc' = [pc EXCEPT ![c] = "cl"]
    <3>1. Finds(req[d], store[req[d].table], target'[d], reply'[d])
      BY <1>0, <1>1, <1>2, <2>1
    <3>2. store' = store
      BY <1>0, <1>1, <2>1 DEF Write, Respond
    <3>. QED
      BY <3>1, <3>2 DEF SeenAs
  <2>2. CASE ~(d = c /\ pc' = [pc EXCEPT ![c] = "cl"])
    <3>1. pc'[d] = pc[d] /\ target'[d] = target[d] /\ reply'[d] = reply[d]
      BY <1>0, <1>2, <2>2
    <3>2. store' = store
      BY <1>1, <3>1, WriteFindsNobody
    <3>. QED
      BY <3>1, <3>2 DEF FoundOK
  <2>. QED
    BY <2>1, <2>2
<1>. QED
  BY <1>3, <1>4, <1>5, <1>6

\* The invariant the mapping needs is inductive, given the router's own.
LEMMA RInductive ==
    IInv /\ ReadInv /\ RInv /\ [Next]_vars => RInv'
<1>. SUFFICES ASSUME IInv, ReadInv, RInv, [Next]_vars PROVE RInv'
  OBVIOUS
<1>. USE DEF RInv
<1>0. /\ pc \in [Conns -> Places] /\ reply \in [Conns -> Reply]
      /\ target \in [Conns -> Bytes \cup {Unset}] /\ req \in [Conns -> Request]
  BY DEF IInv, TypeOK
<1>1. ASSUME NEW c \in Conns, Operates(c) PROVE RInv'
  BY <1>1, OperatesKeepsR
<1>2. ASSUME NEW c \in Conns, Lock(c) \/ Recurse(c) \/ Nested(c) PROVE RInv'
  <2>1. UNCHANGED <<store, cache, cursor, req, target>>
    BY <1>2 DEF Lock, AcquireR, Announce, AcquireW, AcquireCursorLock, Recurse, Nested,
       Respond, tables
  <2>2. \/ /\ \/ pc[c] = "rw" /\ pc' = [pc EXCEPT ![c] = "pend"]
              \/ /\ pc[c] \in {"rw", "pend"}
                 /\ pc' = [pc EXCEPT ![c] = IF req[c].op \in MapFirst THEN "cl" ELSE "in"]
              \/ pc[c] = "cl" /\ pc' = [pc EXCEPT ![c] = "incl"]
              \/ /\ pc[c] = "incl" /\ req[c].op \in CursorMoves /\ cursor[req[c].cur] = Unset
                 /\ pc' = [pc EXCEPT ![c] = "rec"]
              \/ pc[c] = "rec" /\ pc' = [pc EXCEPT ![c] = "stuck"]
           /\ reply' = reply
        \/ pc' = [pc EXCEPT ![c] = "top"] /\ \E r : reply' = [reply EXCEPT ![c] = r]
    BY <1>2 DEF Lock, AcquireR, Announce, AcquireW, AcquireCursorLock, Recurse,
       Nested, Respond, Entered
  <2>3. NoReplyYet'
    BY <1>0, <2>1, <2>2 DEF NoReplyYet, MapFirst
  <2>4. ArgumentsOK' /\ UnsetOK'
    BY <1>0, <2>1, <2>2, ReadKinds DEF ArgumentsOK, UnsetOK, Busy, MapFirst
  <2>5. \A d \in Conns : pc'[d] \in {"cl", "incl"} /\ req[d].op \in FindOps =>
                           pc[d] \in {"cl", "incl"} /\ reply'[d] = reply[d]
    BY <1>0, <2>2 DEF FindOps, MapFirst, CursorMoves
  <2>6. FoundOK'
    BY <2>1, <2>5 DEF FoundOK
  <2>. QED
    BY <2>3, <2>4, <2>6
<1>3. ASSUME NEW c \in Conns, LoopTop(c) \/ Accept(c) \/ Disconnect(c) PROVE RInv'
  <2>1. store' = store /\ cursor' = cursor
    BY <1>3 DEF LoopTop, Accept, Disconnect
  <2>2. \/ /\ \E p \in {"top", "closed"} : pc' = [pc EXCEPT ![c] = p]
           /\ UNCHANGED <<req, target, reply>>
        \/ /\ pc' = [pc EXCEPT ![c] = "read"] /\ reply' = [reply EXCEPT ![c] = NoReply]
           /\ req' = [req EXCEPT ![c] = NoRequest] /\ target' = [target EXCEPT ![c] = Unset]
    BY <1>3 DEF LoopTop, Accept, Disconnect
  <2>3. NoReplyYet' /\ ArgumentsOK' /\ UnsetOK'
    BY <1>0, <2>1, <2>2 DEF NoReplyYet, ArgumentsOK, UnsetOK, Busy
  <2>4. FoundOK'
    BY <1>0, <2>1, <2>2 DEF FoundOK
  <2>. QED
    BY <2>3, <2>4
<1>4. ASSUME NEW c \in Conns, Receive(c) PROVE RInv'
  <2>1. PICK r \in Request : /\ Dispatch(c, r)
                             /\ r.op \notin CursorOps => r.cur = NoCursor
                             /\ r.op \in ValueOps => r.key \in Bytes
    BY <1>4, Received
  <2>. DEFINE a == CASE Status(r) = "notable" -> Failure("ErrTableNotFound")
                     [] Status(r) = "invalid" -> Failure("ErrInvalidRequestData")
                     [] Status(r) = "unknown" -> Failure("ErrInvalidOperationCode")
                     [] OTHER -> NoReply
  <2>2. /\ req' = [req EXCEPT ![c] = r] /\ UNCHANGED <<cursor, target>>
        /\ pc' = [pc EXCEPT ![c] = IF Status(r) = "ok" THEN "rw" ELSE "top"]
        /\ reply' = [reply EXCEPT ![c] = a] /\ (Status(r) = "ok" => a = NoReply)
    <3>1. UNCHANGED <<cursor, target>>
      BY <1>4 DEF Receive
    <3>. QED
      BY <2>1, <3>1 DEF Dispatch
  <2>. HIDE DEF a
  <2>3. NoReplyYet' /\ UnsetOK'
    BY <1>0, <2>2 DEF NoReplyYet, UnsetOK
  <2>4. ArgumentsOK'
    BY <1>0, <2>1, <2>2, AcceptedSeek DEF ArgumentsOK, Busy
  <2>5. FoundOK'
    <3>. SUFFICES ASSUME NEW d \in Conns, pc'[d] \in {"cl", "incl"}, req'[d].op \in FindOps
                  PROVE  \E m \in SeenAs(store', req'[d].table) :
                           Finds(req'[d], m, target'[d], reply'[d])
      BY DEF FoundOK
    <3>1. /\ pc'[d] = pc[d] /\ req'[d] = req[d] /\ target'[d] = target[d]
          /\ reply'[d] = reply[d]
      BY <1>0, <2>2
    <3>2. PICK m \in SeenAs(store, req[d].table) : Finds(req[d], m, target[d], reply[d])
      BY <3>1 DEF FoundOK
    <3>3. req[d].table \in Tables /\ TypeOK /\ SentinelOK /\ store' = SentinelSet
      BY <1>4, <3>1 DEF IInv, RequestsOK, Busy, ReadInv, Receive
    <3>4. m \in SeenAs(store', req[d].table)
      BY <3>2, <3>3, SeenAfterMark
    <3>. QED
      BY <3>1, <3>2, <3>4
  <2>. QED
    BY <2>3, <2>4, <2>5
<1>5. CASE Restart
  BY <1>5 DEF Restart, NoReplyYet, ArgumentsOK, UnsetOK, FoundOK, Busy
<1>6. CASE UNCHANGED vars
  BY <1>6 DEF vars, NoReplyYet, ArgumentsOK, UnsetOK, FoundOK
<1>. QED
  BY <1>1, <1>2, <1>3, <1>4, <1>5, <1>6 DEF Next, Serve, Client, InMap, Operates

\* It holds at the start.
LEMMA RInit == Init => RInv
BY DEF Init, RInv, NoReplyYet, ArgumentsOK, UnsetOK, FoundOK, Busy

-----------------------------------------------------------------------------
(* The mapped state *)

\* What the service's state functions are under the mapping.
LEMMA MappedState ==
    ASSUME NEW t \in Tables
    PROVE  /\ Service!Staged(t) = Dirty(t) /\ Service!Overlaid(t) = View(t)
           /\ Service!Shown(t) = SeenAs(store, t)
<1>1. Service!Staged(t) = Dirty(t)
  BY SameTables DEF Service!Staged, Dirty
<1>2. Service!Overlaid(t) = View(t)
  BY <1>1, SameTables DEF Service!Overlaid, View, Dirty
<1>3. Service!Shown(t) = SeenAs(store, t)
  BY SameTables DEF Service!Shown, SeenAs
<1>. QED
  BY <1>1, <1>2, <1>3

\* A cache that is replaced stages nothing.
LEMMA CleanPending ==
    ASSUME cache' = CleanCache
    PROVE  [t \in Tables |-> [k \in Bytes |->
             [staged |-> k \in Dirty(t), val |-> cache[t][k].val]]]' = Service!NothingPending
<1>1. \A t \in Tables, k \in Bytes : cache'[t][k].by = NoConn /\ cache'[t][k].val = NoValue
  BY DEF CleanCache, CleanEntry
<1>2. \A t \in Tables, k \in Bytes : (k \in Dirty(t))' = FALSE
  BY <1>1 DEF Dirty
<1>. QED
  BY <1>1, <1>2, SameTables DEF Service!NothingPending, Service!Untouched

\* An operation that ends answers the service's call.
LEMMA AnswerStep ==
    ASSUME IInv, NoReplyYet, NEW c \in Conns, pc[c] \in {"in", "incl", "rec"},
           NEW a, Respond(c, a), NEW k,
           cursor' = IF req[c].cur = NoCursor \/ a.st \in Errors THEN cursor
                     ELSE [cursor EXCEPT ![req[c].cur] = k]
    PROVE  Service!Answer(c, k, a)
<1>0. /\ pc \in [Conns -> Places] /\ reply \in [Conns -> Reply]
      /\ pc' = [pc EXCEPT ![c] = "top"] /\ reply' = [reply EXCEPT ![c] = a]
      /\ req' = req /\ target' = target /\ alive' = alive
  BY DEF IInv, TypeOK, Respond
<1>1. \A d \in Conns : /\ PhaseOf(d)' = (IF d = c THEN "done" ELSE PhaseOf(d))
                       /\ TwoStep(d)' <=> d # c /\ TwoStep(d)
  BY <1>0 DEF PhaseOf, TwoStep
<1>2. [d \in Conns |-> PhaseOf(d)]' = [[d \in Conns |-> PhaseOf(d)] EXCEPT ![c] = "done"]
  BY <1>1
<1>3. [d \in Conns |-> IF pc[d] \in {"cl", "incl"} THEN NoReply ELSE reply[d]]'
        = [[d \in Conns |-> IF pc[d] \in {"cl", "incl"} THEN NoReply ELSE reply[d]] EXCEPT ![c] = a]
  BY <1>0
<1>4. [d \in Conns |-> IF TwoStep(d) THEN [to |-> target[d], ans |-> reply[d]]
                       ELSE [to |-> Unset, ans |-> NoReply]]'
        = [[d \in Conns |-> IF TwoStep(d) THEN [to |-> target[d], ans |-> reply[d]]
                            ELSE [to |-> Unset, ans |-> NoReply]]
             EXCEPT ![c] = [to |-> Unset, ans |-> NoReply]]
  BY <1>0, <1>1
<1>. QED
  BY <1>0, <1>2, <1>3, <1>4, SameTables DEF Service!Answer, Service!NothingLater

\* A goroutine that goes on without an effect of its own.
LEMMA SilentStep ==
    ASSUME IInv, NoReplyYet, NEW c \in Conns, NEW p,
           UNCHANGED <<store, cache, cursor, req, target, reply, alive>>,
           pc' = [pc EXCEPT ![c] = p],
           \/ pc[c] \in {"rw", "pend", "rec"} /\ p \in {"pend", "in", "stuck"}
           \/ pc[c] \in {"rw", "pend"} /\ p = "cl" /\ req[c].op \in MapFirst
           \/ pc[c] = "cl" /\ p = "incl"
           \/ pc[c] = "incl" /\ p = "rec" /\ req[c].op \in MapFirst
    PROVE  UNCHANGED Service!svars
<1>0. pc \in [Conns -> Places]
  BY DEF IInv, TypeOK
<1>1. \A d \in Conns : /\ PhaseOf(d)' = PhaseOf(d)
                       /\ TwoStep(d)' <=> TwoStep(d)
  BY <1>0 DEF PhaseOf, TwoStep, MapFirst, CursorMoves
<1>2. \A d \in Conns : (IF pc[d] \in {"cl", "incl"} THEN NoReply ELSE reply[d])'
                         = IF pc[d] \in {"cl", "incl"} THEN NoReply ELSE reply[d]
  BY <1>0 DEF NoReplyYet
<1>3. \A t \in Tables : Dirty(t)' = Dirty(t)
  BY DEF Dirty
<1>. QED
  BY <1>1, <1>2, <1>3 DEF Service!svars

\* Writing to the cache stages what the service's call stages.
LEMMA StageStep ==
    ASSUME IInv, NEW c \in Conns, req[c].table \in Tables, NEW S, NEW v,
           Service!Result(c).keys = S, Service!Result(c).val = v,
           cache' = Cached(c, req[c].table, S, v) \/ (S = {} /\ cache' = cache)
    PROVE  Service!Stage(c)
<1>. DEFINE t == req[c].table
            P == [u \in Tables |-> [k \in Bytes |->
                    [staged |-> k \in Dirty(u), val |-> cache[u][k].val]]]
            new(k) == IF k \in S THEN [staged |-> TRUE, val |-> v] ELSE P[t][k]
<1>0. cache \in [Tables -> [Bytes -> CacheEntry]]
  BY DEF IInv, TypeOK
<1>1. \A u \in Tables, k \in Bytes :
        cache'[u][k] = IF u = t /\ k \in S THEN [val |-> v, by |-> c] ELSE cache[u][k]
  BY <1>0 DEF Cached
<1>2. ASSUME NEW u \in Tables, NEW k \in Bytes
      PROVE  [staged |-> k \in Dirty(u), val |-> cache[u][k].val]'
               = IF u = t THEN new(k) ELSE P[u][k]
  <2>1. CASE u = t /\ k \in S
    <3>1. cache'[u][k].by = c /\ cache'[u][k].val = v /\ c # NoConn
      BY <1>1, <2>1, NoConnAssumption
    <3>. QED
      BY <2>1, <3>1 DEF Dirty
  <2>2. CASE ~(u = t /\ k \in S)
    <3>1. cache'[u][k] = cache[u][k]
      BY <1>1, <2>2
    <3>2. (k \in Dirty(u))' <=> k \in Dirty(u)
      BY <3>1 DEF Dirty
    <3>. QED
      BY <2>2, <3>1, <3>2
  <2>. QED
    BY <2>1, <2>2
<1>. HIDE DEF new
<1>3. \A u \in Tables : P'[u] = IF u = t THEN [k \in Bytes |-> new(k)] ELSE P[u]
  BY <1>2
<1>4. P' = [P EXCEPT ![t] = [k \in Bytes |-> new(k)]]
  BY <1>3, ZenonT(60)
<1>. QED
  BY <1>4, SameTables DEF Service!Stage, new

\* The cursor of the service's call.
LEMMA PositionOf ==
    ASSUME NEW c \in Conns, req[c].cur # NoCursor
    PROVE  Service!Position(req[c]) = cursor[req[c].cur]
BY DEF Service!Position

\* A call that stages its writes and is answered.
LEMMA StageAnswerStep ==
    ASSUME IInv, RInv, NEW c \in Conns,
           \/ pc[c] = "in"
           \/ pc[c] = "incl" /\ req[c].op = "DeleteCurrentDuplicates",
           req[c].op \in WriteOps \ {"Write"},
           NEW S, NEW v, NEW k, NEW a, Respond(c, a), store' = store,
           Service!Result(c) = [keys |-> S, val |-> v, to |-> k, ans |-> a],
           cache' = Cached(c, req[c].table, S, v) \/ (S = {} /\ cache' = cache),
           cursor' = IF req[c].cur = NoCursor \/ a.st \in Errors THEN cursor
                     ELSE [cursor EXCEPT ![req[c].cur] = k]
    PROVE  Service!StageAndAnswer(c)
<1>1. req[c].table \in Tables
  BY DEF IInv, RequestsOK, Busy
<1>2. Service!Stage(c)
  BY <1>1, StageStep
<1>3. Service!Answer(c, k, a)
  BY AnswerStep DEF RInv
<1>4. PhaseOf(c) = "called"
  BY DEF PhaseOf, TwoStep
<1>5. req[c].op \in Service!StagingOps
  BY SameTables DEF Service!StagingOps
<1>6. k = Service!Result(c).to /\ a = Service!Result(c).ans
  OBVIOUS
<1>7. Service!Answer(c, Service!Result(c).to, Service!Result(c).ans)
  BY <1>3, <1>6, Zenon DEF Service!Answer
<1>. QED
  BY <1>2, <1>4, <1>5, <1>7 DEF Service!StageAndAnswer

\* A call that stages its writes and owes the cursor.
LEMMA StageFirstStep ==
    ASSUME IInv, RInv, NEW c \in Conns, pc[c] = "in",
           req[c].op \in {"Upsert", "Insert", "Append", "AppendDup", "DeleteCurrent"},
           NEW S, NEW v, NEW k, NEW a, WantCursor(c, k, a), UNCHANGED <<store, cursor>>,
           Service!Result(c) = [keys |-> S, val |-> v, to |-> k, ans |-> a],
           cache' = Cached(c, req[c].table, S, v) \/ (S = {} /\ cache' = cache)
    PROVE  Service!StageFirst(c)
<1>0. /\ pc \in [Conns -> Places] /\ reply \in [Conns -> Reply]
      /\ target \in [Conns -> Bytes \cup {Unset}] /\ reply[c] = NoReply
      /\ pc' = [pc EXCEPT ![c] = "cl"] /\ reply' = [reply EXCEPT ![c] = a]
      /\ target' = [target EXCEPT ![c] = k] /\ req' = req /\ alive' = alive
  BY DEF IInv, TypeOK, WantCursor, RInv, NoReplyYet
<1>1. Service!Stage(c)
  BY StageStep DEF IInv, RequestsOK, Busy
<1>2. \A d \in Conns : /\ PhaseOf(d)' = (IF d = c THEN "staged" ELSE PhaseOf(d))
                       /\ TwoStep(d)' <=> d = c \/ TwoStep(d)
  BY <1>0 DEF PhaseOf, TwoStep
<1>3. [d \in Conns |-> PhaseOf(d)]' = [[d \in Conns |-> PhaseOf(d)] EXCEPT ![c] = "staged"]
  BY <1>2
<1>4. [d \in Conns |-> IF pc[d] \in {"cl", "incl"} THEN NoReply ELSE reply[d]]'
        = [d \in Conns |-> IF pc[d] \in {"cl", "incl"} THEN NoReply ELSE reply[d]]
  BY <1>0
<1>5. [d \in Conns |-> IF TwoStep(d) THEN [to |-> target[d], ans |-> reply[d]]
                       ELSE [to |-> Unset, ans |-> NoReply]]'
        = [[d \in Conns |-> IF TwoStep(d) THEN [to |-> target[d], ans |-> reply[d]]
                            ELSE [to |-> Unset, ans |-> NoReply]]
             EXCEPT ![c] = [to |-> k, ans |-> a]]
  BY <1>0, <1>2
<1>6. PhaseOf(c) = "called" /\ req[c].op \in Service!TwoStepOps
  BY DEF PhaseOf, TwoStep, Service!TwoStepOps
<1>. QED
  BY <1>0, <1>1, <1>3, <1>4, <1>5, <1>6 DEF Service!StageFirst

\* A call that reads, answered with what its table shows.
LEMMA ReadStep ==
    ASSUME IInv, RInv, NEW c \in Conns, pc[c] \in {"in", "incl", "rec"},
           req[c].op \in ReadOps, UNCHANGED <<store, cache>>,
           NEW a, NEW k, NEW m \in SeenAs(store, req[c].table), Respond(c, a),
           Service!ReadResult(req[c], m, Service!Position(req[c])) = [to |-> k, ans |-> a],
           cursor' = IF req[c].cur = NoCursor \/ a.st \in Errors THEN cursor
                     ELSE [cursor EXCEPT ![req[c].cur] = k]
    PROVE  Service!Read(c)
<1>1. Service!Answer(c, k, a)
  BY AnswerStep DEF RInv
<1>2. PhaseOf(c) = "called"
  BY DEF PhaseOf, TwoStep, ReadOps, WriteOps
<1>3. m \in Service!Shown(req[c].table)
  BY MappedState DEF IInv, RequestsOK, Busy
<1>. DEFINE res == Service!ReadResult(req[c], m, Service!Position(req[c]))
<1>4. k = res.to /\ a = res.ans
  OBVIOUS
<1>5. Service!Answer(c, res.to, res.ans)
  BY <1>1, <1>4, Zenon DEF Service!Answer
<1>6. UNCHANGED [t \in Tables |-> [j \in Bytes |->
                   [staged |-> j \in Dirty(t), val |-> cache[t][j].val]]]
  BY DEF Dirty
<1>7. req[c].op \in Service!ReadOps
  BY SameTables
<1>. QED
  BY <1>2, <1>3, <1>5, <1>6, <1>7 DEF Service!Read

\* A call that leaves its cursor where it is.
LEMMA StayingPut ==
    ASSUME IInv, NEW c \in Conns, NEW a
    PROVE  cursor = IF req[c].cur = NoCursor \/ a.st \in Errors THEN cursor
                    ELSE [cursor EXCEPT ![req[c].cur] = Service!Position(req[c])]
<1>1. DOMAIN cursor = Cursors /\ cursor = [u \in Cursors |-> cursor[u]]
  BY DEF IInv, TypeOK
<1>. QED
  BY <1>1 DEF Service!Position

\* A call that reads and leaves its cursor where it is.
LEMMA StayStep ==
    ASSUME IInv, RInv, NEW c \in Conns, pc[c] \in {"in", "incl", "rec"},
           req[c].op \in ReadOps, UNCHANGED <<store, cache, cursor>>, NEW a, Respond(c, a),
           LET cur == Service!Position(req[c])
           IN Service!ReadResult(req[c], store[req[c].table], cur) = [to |-> cur, ans |-> a]
    PROVE  Service!Read(c)
<1>1. store[req[c].table] \in SeenAs(store, req[c].table)
  BY DEF SeenAs
<1>2. cursor' = IF req[c].cur = NoCursor \/ a.st \in Errors THEN cursor
                ELSE [cursor EXCEPT ![req[c].cur] = Service!Position(req[c])]
  BY StayingPut
<1>. QED
  BY <1>1, <1>2, ReadStep

\* A move to the entry k that the table shows.
LEMMA MoveStep ==
    ASSUME IInv, RInv, NEW c \in Conns, pc[c] = "incl",
           req[c].op \in CursorMoves, cursor[req[c].cur] # Unset, UNCHANGED <<store, cache>>,
           NEW k \in Bytes, MoveCursor(c, k, Entry(store[req[c].table], k)),
           Service!ReadResult(req[c], store[req[c].table], cursor[req[c].cur])
             = [to |-> k, ans |-> Entry(store[req[c].table], k)]
    PROVE  Service!Read(c)
<1>1. req[c].op \in ReadOps /\ req[c].cur \in Cursors /\ req[c].cur # NoCursor
  BY RouterAssumption DEF IInv, RequestsOK, Busy, CursorMoves, ReadOps, WriteOps, OpCodes,
     Unhandled, CursorReads, KeySeeks, CursorPuts, DupMoves, CursorOps
<1>2. Entry(store[req[c].table], k).st \notin Errors
  BY DEF Entry, Errors
<1>3. Service!Position(req[c]) = cursor[req[c].cur]
  BY <1>1, PositionOf
<1>4. store[req[c].table] \in SeenAs(store, req[c].table)
  BY DEF SeenAs
<1>. QED
  BY <1>1, <1>2, <1>3, <1>4, ReadStep DEF MoveCursor

-----------------------------------------------------------------------------
(* The operations that read *)

\* Who may be inside the cursor lock having looked at the table first.
LEMMA CursorLockHolders ==
    ASSUME IInv, ArgumentsOK, NEW c \in Conns, pc[c] = "incl", req[c].op \notin MapFirst
    PROVE  \/ req[c].op \in FindOps
           \/ req[c].op \in {"Upsert", "Insert", "Append", "AppendDup", "DeleteCurrent"}
BY DEF IInv, RequestsOK, Busy, ArgumentsOK, MapFirst, CursorMoves, FindOps, CursorOps, OpCodes,
   Unhandled, CursorReads, KeySeeks, CursorPuts, DupMoves

\* Get is one read.
LEMMA GetReads ==
    ASSUME IInv, RInv, NEW c \in Conns, Get(c)
    PROVE  Service!Read(c)
<1>. DEFINE r == req[c]
            m == store[r.table]
            cur == Service!Position(r)
            S == IF DupSorted(r.table) THEN WithPrefix(Present(m), r.key)
                 ELSE Present(m) \cap {r.key}
<1>1. /\ pc[c] = "in" /\ r.op = "Get" /\ UNCHANGED <<store, cache, cursor>>
      /\ \/ S = {} /\ Respond(c, Success)
         \/ \E k : IsLeast(k, S) /\ Respond(c, Entry(m, k))
  BY DEF Get, Runs, tables
<1>2. S = IF DupSorted(r.table) THEN WithPrefix(Present(m), r.key) ELSE Present(m) \cap {r.key}
  OBVIOUS
<1>. HIDE DEF S
<1>3. CASE S = {} /\ Respond(c, Success)
  <2>1. Service!ReadResult(r, m, cur) = [to |-> cur, ans |-> Success]
    BY <1>1, <1>2, <1>3, GetResult
  <2>. QED
    BY <1>1, <1>3, <2>1, StayStep, ReadKinds
<1>4. ASSUME NEW k, IsLeast(k, S), Respond(c, Entry(m, k))
      PROVE  Service!Read(c)
  <2>1. Service!ReadResult(r, m, cur) = [to |-> cur, ans |-> Entry(m, k)]
    BY <1>1, <1>2, <1>4, GetResult
  <2>. QED
    BY <1>1, <1>4, <2>1, StayStep, ReadKinds
<1>. QED
  BY <1>1, <1>3, <1>4

\* A search that finds nothing, and a move in an empty table.
LEMMA NothingReads ==
    ASSUME IInv, RInv, NEW c \in Conns, pc[c] \in {"in", "rec"},
           UNCHANGED <<store, cache, cursor>>, Respond(c, Success),
           LET S == Present(store[req[c].table])
           IN \/ req[c].op \in {"First", "Last"} /\ S = {}
              \/ req[c].op \in {"Seek", "SeekExact"} /\ From(S, req[c].key) = {}
              \/ req[c].op \in CursorMoves /\ pc[c] = "rec" /\ S = {}
    PROVE  Service!Read(c)
<1>. DEFINE r == req[c]
            m == store[r.table]
            cur == Service!Position(r)
<1>1. r.op \in CursorMoves /\ pc[c] = "rec" => cur = Unset
  BY DEF RInv, UnsetOK, Service!Position
<1>2. Service!ReadResult(r, m, cur) = [to |-> cur, ans |-> Success]
  BY <1>1, NothingResult
<1>3. r.op \in ReadOps
  BY ReadKinds DEF FindOps
<1>. QED
  BY <1>2, <1>3, StayStep

\* Placing the cursor of a search that found something.
LEMMA FindReads ==
    ASSUME IInv, RInv, NEW c \in Conns, PlaceCursor(c), req[c].op \in FindOps
    PROVE  Service!Read(c)
<1>. DEFINE r == req[c]
<1>1. PICK m \in SeenAs(store, r.table) : Finds(r, m, target[c], reply[c])
  BY DEF PlaceCursor, RInv, FoundOK
<1>2. Service!ReadResult(r, m, Service!Position(r)) = [to |-> target[c], ans |-> reply[c]]
  BY <1>1, FindResult
<1>3. /\ pc[c] = "incl" /\ UNCHANGED <<store, cache>> /\ Respond(c, reply[c])
      /\ cursor' = IF reply[c].st \in Errors THEN cursor
                   ELSE [cursor EXCEPT ![r.cur] = target[c]]
  BY DEF PlaceCursor
<1>4. r.op \in ReadOps /\ r.cur # NoCursor
  BY <1>3, ReadKinds, RouterAssumption DEF IInv, RequestsOK, Busy
<1>. QED
  BY <1>1, <1>2, <1>3, <1>4, ReadStep

\* A search that has found something goes on unseen to the cursor lock.
LEMMA FoundSilent ==
    ASSUME IInv, RInv, NEW c \in Conns, pc[c] = "in", req[c].op \in FindOps,
           NEW k, NEW a, WantCursor(c, k, a), UNCHANGED <<store, cache, cursor>>
    PROVE  UNCHANGED Service!svars
<1>0. /\ pc \in [Conns -> Places] /\ reply \in [Conns -> Reply] /\ reply[c] = NoReply
      /\ target \in [Conns -> Bytes \cup {Unset}]
      /\ pc' = [pc EXCEPT ![c] = "cl"] /\ reply' = [reply EXCEPT ![c] = a]
      /\ target' = [target EXCEPT ![c] = k] /\ req' = req /\ alive' = alive
  BY DEF IInv, TypeOK, WantCursor, RInv, NoReplyYet
<1>1. \A d \in Conns : /\ PhaseOf(d)' = PhaseOf(d)
                       /\ TwoStep(d)' <=> TwoStep(d)
                       /\ TwoStep(d) => d # c
  BY <1>0 DEF PhaseOf, TwoStep, FindOps
<1>2. \A d \in Conns : (IF pc[d] \in {"cl", "incl"} THEN NoReply ELSE reply[d])'
                         = IF pc[d] \in {"cl", "incl"} THEN NoReply ELSE reply[d]
  BY <1>0
<1>3. \A d \in Conns :
        (IF TwoStep(d) THEN [to |-> target[d], ans |-> reply[d]]
         ELSE [to |-> Unset, ans |-> NoReply])'
          = IF TwoStep(d) THEN [to |-> target[d], ans |-> reply[d]]
            ELSE [to |-> Unset, ans |-> NoReply]
  BY <1>0, <1>1
<1>4. UNCHANGED [t \in Tables |-> [j \in Bytes |->
                   [staged |-> j \in Dirty(t), val |-> cache[t][j].val]]]
  BY DEF Dirty
<1>. QED
  BY <1>0, <1>1, <1>2, <1>3, <1>4 DEF Service!svars

\* First, Last and the seeks before the cursor lock.
LEMMA SearchSteps ==
    ASSUME IInv, RInv, NEW c \in Conns,
           First(c) \/ Last(c) \/ Seek(c) \/ SeekExact(c) \/ SeekByKeySubkey(c)
    PROVE  Service!Read(c) \/ UNCHANGED Service!svars
<1>. DEFINE r == req[c]
            S == Present(store[r.table])
<1>1. pc[c] = "in" /\ r.op \in FindOps /\ UNCHANGED <<store, cache, cursor>>
  BY DEF First, Last, Seek, SeekExact, SeekByKeySubkey, Runs, FindOps, tables
<1>2. \/ /\ Respond(c, Success)
         /\ \/ r.op \in {"First", "Last"} /\ S = {}
            \/ r.op \in {"Seek", "SeekExact"} /\ From(S, r.key) = {}
      \/ \E k, a : WantCursor(c, k, a)
  BY DEF First, Last, Seek, SeekExact, SeekByKeySubkey, Runs
<1>. QED
  BY <1>1, <1>2, NothingReads, FoundSilent

\* The moves of a cursor that has a position.
LEMMA MovesRead ==
    ASSUME IInv, RInv, NEW c \in Conns,
           Next_(c) \/ Prev(c) \/ NextDup(c) \/ NextNoDup(c), ~Panic
    PROVE  Service!Read(c)
<1>. DEFINE r == req[c]
            m == store[r.table]
            cur == cursor[r.cur]
            P == Present(m)
            Moves(k) == MoveCursor(c, k, Entry(m, k))
            Stays(a) == Respond(c, a) /\ cursor' = cursor
            To == Service!MoveTarget(r.op, P, cur)
<1>1. /\ pc[c] = "incl" /\ r.op \in CursorMoves /\ cur # Unset
      /\ UNCHANGED <<store, cache>>
  BY DEF Next_, Prev, NextDup, NextNoDup, Positioned, Runs, CursorMoves
<1>2. Service!Position(r) = cur /\ r.op \in ReadOps
  BY <1>1, ReadKinds, PositionOf, RouterAssumption DEF IInv, RequestsOK, Busy
<1>3. ASSUME NEW k \in Bytes, Moves(k), To = k,
             r.op = "NextDup" => WithPrefix(From(P, cur), cur) # {}
      PROVE  Service!Read(c)
  <2>1. Service!ReadResult(r, m, cur) = [to |-> k, ans |-> Entry(m, k)]
    BY <1>1, <1>3, MoveResult, UnsetAssumption
  <2>. QED
    BY <1>1, <1>3, <2>1, MoveStep
<1>4. ASSUME Stays(Success), To = Unset,
             r.op = "NextDup" => WithPrefix(From(P, cur), cur) # {}
      PROVE  Service!Read(c)
  <2>1. Service!ReadResult(r, m, cur) = [to |-> cur, ans |-> Success]
    BY <1>1, <1>4, MoveResult
  <2>. QED
    BY <1>1, <1>2, <1>4, <2>1, StayStep
<1>5. CASE Next_(c)
  <2>. DEFINE S == From(P, cur)
  <2>1. /\ r.op = "Next"
        /\ (~HasSecond(S) /\ Stays(Success)) \/ \E k \in S : IsSecond(k, S) /\ Moves(k)
    BY <1>5 DEF Next_, Positioned, Runs
  <2>2. S \in SUBSET Bytes
    BY KeySets
  <2>3. To = Service!SecondOf(S)
    BY <1>1, <2>1, SameOrders DEF Service!MoveTarget
  <2>. HIDE DEF S, To, Moves, Stays
  <2>. QED
    BY <1>3, <1>4, <2>1, <2>2, <2>3, ChosenSecond
<1>6. CASE Prev(c)
  <2>. DEFINE S == Below(P, cur)
  <2>1. /\ r.op = "Prev"
        /\ (S = {} /\ Stays(Success)) \/ \E k \in S : IsGreatest(k, S) /\ Moves(k)
    BY <1>6 DEF Prev, Positioned, Runs
  <2>2. S \in SUBSET Bytes
    BY KeySets
  <2>3. To = Service!GreatestOf(S)
    BY <1>1, <2>1, SameOrders DEF Service!MoveTarget
  <2>. HIDE DEF S, To, Moves, Stays
  <2>. QED
    BY <1>3, <1>4, <2>1, <2>2, <2>3, Chosen
<1>7. CASE NextDup(c)
  <2>. DEFINE S == WithPrefix(From(P, cur), cur)
  <2>1. /\ r.op = "NextDup"
        /\ \/ S = {} /\ Stays(Failure("ErrCurrentIteratorKeyIsInvalid"))
           \/ S # {} /\ ~HasSecond(S) /\ Stays(Success)
           \/ \E k \in S : IsSecond(k, S) /\ Moves(k)
    BY <1>7 DEF NextDup, Positioned, Runs
  <2>2. S \in SUBSET Bytes
    BY KeySets
  <2>3. To = Service!SecondOf(S)
    BY <1>1, <2>1, SameOrders DEF Service!MoveTarget
  <2>4. CASE S = {} /\ Stays(Failure("ErrCurrentIteratorKeyIsInvalid"))
    <3>1. Service!ReadResult(r, m, cur) =
            [to |-> cur, ans |-> Failure("ErrCurrentIteratorKeyIsInvalid")]
      BY <1>1, <2>1, <2>4, NextDupRefused
    <3>. QED
      BY <1>1, <1>2, <2>4, <3>1, StayStep
  <2>5. S # {} => (r.op = "NextDup" => WithPrefix(From(P, cur), cur) # {})
    OBVIOUS
  <2>. HIDE DEF S, To, Moves, Stays
  <2>. QED
    BY <1>3, <1>4, <2>1, <2>2, <2>3, <2>4, <2>5, ChosenSecond, SMTT(30)
<1>8. CASE NextNoDup(c)
  <2>. DEFINE S == BeyondPrefix(P, cur)
  <2>1. /\ r.op = "NextNoDup"
        /\ (S = {} /\ Stays(Success)) \/ \E k \in S : IsLeast(k, S) /\ Moves(k)
    BY <1>8 DEF NextNoDup, Positioned, Runs
  <2>2. S \in SUBSET Bytes
    BY KeySets
  <2>3. To = Service!LeastOf(S)
    BY <1>1, <2>1, SameOrders DEF Service!MoveTarget
  <2>. HIDE DEF S, To, Moves, Stays
  <2>. QED
    BY <1>3, <1>4, <2>1, <2>2, <2>3, Chosen
<1>. QED
  BY <1>5, <1>6, <1>7, <1>8, Zenon

\* Current is one read.
LEMMA CurrentReads ==
    ASSUME IInv, RInv, NEW c \in Conns, Current(c)
    PROVE  Service!Read(c)
<1>. DEFINE r == req[c]
            m == store[r.table]
            cur == cursor[r.cur]
            a == IF cur = Unset THEN Failure("ErrCurrentKeyIsNotSet")
                 ELSE IF cur \in Present(m) THEN Entry(m, cur) ELSE Success
<1>1. /\ pc[c] = "incl" /\ r.op = "Current" /\ UNCHANGED <<store, cache, cursor>>
      /\ Respond(c, a)
  <2>1. Unset \notin Present(m)
    BY KeySets, UnsetAssumption
  <2>. QED
    BY <2>1 DEF Current, Runs, tables
<1>2. Service!Position(r) = cur /\ r.op \in ReadOps
  BY <1>1, ReadKinds, PositionOf, RouterAssumption DEF IInv, RequestsOK, Busy
<1>3. Service!ReadResult(r, m, cur) = [to |-> cur, ans |-> a]
  BY <1>1, CurrentResult
<1>. QED
  BY <1>1, <1>2, <1>3, StayStep

-----------------------------------------------------------------------------
(* The operations that write *)

Stores(r, k) == [keys |-> {r.key}, val |-> r.val, to |-> k, ans |-> Success]
Deletes(D, k) == [keys |-> D, val |-> NoValue, to |-> k, ans |-> Success]
Refuses(e) == [keys |-> {}, val |-> NoValue, to |-> Unset, ans |-> Failure(e)]

\* What the service makes of a write call, in the router's terms.
LEMMA WriteCall ==
    ASSUME NEW c \in Conns, req[c].table \in Tables
    PROVE  Service!Result(c) =
             Service!WriteResult(req[c], store[req[c].table], View(req[c].table),
                                 Service!Position(req[c]))
BY MappedState DEF Service!Result

\* A write call that is answered at once and has no cursor, or leaves it.
LEMMA WriteStays ==
    ASSUME IInv, RInv, NEW c \in Conns, pc[c] = "in",
           req[c].op \in WriteOps \ {"Write"}, UNCHANGED <<store, cursor>>,
           NEW S, NEW v, Respond(c, Success),
           Service!Result(c) = [keys |-> S, val |-> v, to |-> Service!Position(req[c]),
                                ans |-> Success],
           cache' = Cached(c, req[c].table, S, v)
    PROVE  Service!StageAndAnswer(c)
<1>1. cursor' = IF req[c].cur = NoCursor \/ Success.st \in Errors THEN cursor
                ELSE [cursor EXCEPT ![req[c].cur] = Service!Position(req[c])]
  BY StayingPut
<1>. QED
  BY <1>1, StageAnswerStep

\* A write call that is refused at once.
LEMMA WriteRefused ==
    ASSUME IInv, RInv, NEW c \in Conns,
           \/ pc[c] = "in"
           \/ pc[c] = "incl" /\ req[c].op = "DeleteCurrentDuplicates",
           req[c].op \in WriteOps \ {"Write"}, UNCHANGED <<store, cache, cursor>>,
           NEW e \in Errors, Respond(c, Failure(e)), Service!Result(c) = Refuses(e)
    PROVE  Service!StageAndAnswer(c)
<1>1. Failure(e).st \in Errors
  BY DEF Failure
<1>. QED
  BY <1>1, StageAnswerStep DEF Refuses

\* Put stages one entry.
LEMMA PutStages ==
    ASSUME IInv, RInv, NEW c \in Conns, Put(c)
    PROVE  Service!StageAndAnswer(c)
<1>1. /\ pc[c] = "in" /\ req[c].op = "Put" /\ UNCHANGED <<store, cursor>>
      /\ Respond(c, Success) /\ cache' = Cached(c, req[c].table, {req[c].key}, req[c].val)
  BY DEF Put, Runs
<1>2. req[c].table \in Tables
  BY <1>1 DEF IInv, RequestsOK, Busy
<1>3. Service!Result(c) = Stores(req[c], Service!Position(req[c]))
  BY <1>1, <1>2, WriteCall, SameTables DEF Service!WriteResult, Stores
<1>. QED
  BY <1>1, <1>3, WriteStays, ReadKinds DEF Stores

\* Delete stages the removal of what the committed store has under the key.
LEMMA DeleteStages ==
    ASSUME IInv, RInv, NEW c \in Conns, Delete(c)
    PROVE  Service!StageAndAnswer(c)
<1>. DEFINE r == req[c]
            t == r.table
            D == IF DupSorted(t) /\ r.key \in BareKeys
                 THEN WithPrefix(Present(store[t]), r.key) ELSE {r.key}
<1>1. /\ pc[c] = "in" /\ r.op = "Delete" /\ UNCHANGED <<store, cursor>>
      /\ Respond(c, Success) /\ cache' = Cached(c, t, D, NoValue)
  BY DEF Delete, Runs
<1>2. t \in Tables
  BY <1>1 DEF IInv, RequestsOK, Busy
<1>3. Service!Result(c) = Deletes(D, Service!Position(r))
  BY <1>1, <1>2, WriteCall, SameTables, SameOrders DEF Service!WriteResult, Deletes
<1>. HIDE DEF D
<1>. QED
  BY <1>1, <1>3, WriteStays, ReadKinds DEF Deletes

\* A write call that stores its entry and owes its cursor.
LEMMA StoreStages ==
    ASSUME IInv, RInv, NEW c \in Conns, pc[c] = "in",
           req[c].op \in {"Upsert", "Insert", "Append", "AppendDup"},
           SetAndPlace(c), UNCHANGED <<store, cursor>>,
           Service!Result(c) = Stores(req[c], req[c].key)
    PROVE  Service!StageFirst(c)
BY StageFirstStep DEF SetAndPlace, Stores

\* Upsert stages its entry whatever the table holds.
LEMMA UpsertStages ==
    ASSUME IInv, RInv, NEW c \in Conns, Upsert(c)
    PROVE  Service!StageFirst(c)
<1>1. pc[c] = "in" /\ req[c].op = "Upsert" /\ UNCHANGED <<store, cursor>> /\ SetAndPlace(c)
  BY DEF Upsert, Runs
<1>2. req[c].table \in Tables
  BY <1>1 DEF IInv, RequestsOK, Busy
<1>3. Service!Result(c) = Stores(req[c], req[c].key)
  BY <1>1, <1>2, WriteCall, SameTables DEF Service!WriteResult, Stores
<1>. QED
  BY <1>1, <1>3, StoreStages

\* Insert is refused when the overlaid table has the key.
LEMMA InsertStages ==
    ASSUME IInv, RInv, NEW c \in Conns, Insert(c)
    PROVE  Service!StageAndAnswer(c) \/ Service!StageFirst(c)
<1>. DEFINE r == req[c]
            t == r.table
            S == IF DupSorted(t) THEN WithPrefix(Present(View(t)), r.key)
                 ELSE Present(View(t)) \cap {r.key}
<1>1. /\ pc[c] = "in" /\ r.op = "Insert" /\ UNCHANGED <<store, cursor>>
      /\ \/ S # {} /\ Respond(c, Failure("ErrKeyAlreadyPresent")) /\ UNCHANGED cache
         \/ S = {} /\ SetAndPlace(c)
  BY DEF Insert, Runs
<1>2. t \in Tables
  BY <1>1 DEF IInv, RequestsOK, Busy
<1>3. Service!Named(t, Service!Present(View(t)), r.key) = S
  BY SameOrders DEF Service!Named
<1>. HIDE DEF S
<1>4. Service!Result(c) =
        IF S # {} THEN Refuses("ErrKeyAlreadyPresent") ELSE Stores(r, r.key)
  BY <1>1, <1>2, <1>3, WriteCall, SameTables, SameOrders
     DEF Service!WriteResult, Stores, Refuses, Service!Refusal
<1>. QED
  BY <1>1, <1>4, WriteRefused, StoreStages, ReadKinds DEF Errors

\* Append compares with the greatest entry of the overlaid table.
LEMMA AppendStages ==
    ASSUME IInv, RInv, NEW c \in Conns, Append(c), ~Panic
    PROVE  Service!StageAndAnswer(c) \/ Service!StageFirst(c)
<1>. DEFINE r == req[c]
            t == r.table
            S == Present(View(t))
<1>1. /\ pc[c] = "in" /\ r.op = "Append" /\ UNCHANGED <<store, cursor>>
      /\ \/ /\ S = {} /\ Respond(c, Success)
            /\ cache' = Cached(c, t, {r.key}, r.val)
         \/ \E g \in S : /\ IsGreatest(g, S)
                         /\ \/ /\ r.key[1] < g[1] /\ UNCHANGED cache
                               /\ Respond(c, Failure("ErrCannotAppend"))
                            \/ r.key[1] >= g[1] /\ SetAndPlace(c)
  BY DEF Append, Runs, tables
<1>2. t \in Tables /\ S \in SUBSET Bytes
  BY <1>1, KeySets DEF IInv, RequestsOK, Busy
<1>3. Service!Result(c) =
        IF S = {} THEN Stores(r, Service!Position(r))
        ELSE IF r.key[1] < Service!GreatestOf(S)[1] THEN Refuses("ErrCannotAppend")
        ELSE Stores(r, r.key)
  BY <1>1, <1>2, WriteCall, SameTables, SameOrders
     DEF Service!WriteResult, Stores, Refuses, Service!Refusal
<1>. HIDE DEF S
<1>4. CASE S = {} /\ Respond(c, Success) /\ cache' = Cached(c, t, {r.key}, r.val)
  BY <1>1, <1>3, <1>4, WriteStays, ReadKinds DEF Stores
<1>5. ASSUME NEW g \in S, IsGreatest(g, S)
      PROVE  S # {} /\ Service!GreatestOf(S) = g
  BY <1>2, <1>5, Chosen
<1>6. ASSUME NEW g \in S, IsGreatest(g, S), r.key[1] < g[1],
             UNCHANGED cache, Respond(c, Failure("ErrCannotAppend"))
      PROVE  Service!StageAndAnswer(c)
  BY <1>1, <1>3, <1>5, <1>6, WriteRefused, ReadKinds DEF Errors
<1>7. ASSUME NEW g \in S, IsGreatest(g, S), r.key[1] >= g[1], SetAndPlace(c)
      PROVE  Service!StageFirst(c)
  <2>1. r.key \in Bytes /\ g \in Bytes
    BY <1>1, <1>2 DEF RInv, ArgumentsOK, Busy, ValueOps, CursorPuts
  <2>2. r.key[1] \in Nat /\ g[1] \in Nat
    BY <2>1, KeyParts
  <2>3. Service!Result(c) = Stores(r, r.key)
    BY <1>3, <1>5, <1>7, <2>2
  <2>. QED
    BY <1>1, <1>7, <2>3, StoreStages
<1>. QED
  BY <1>1, <1>4, <1>6, <1>7

\* AppendDup compares with the duplicates; even its refusal comes in two steps.
LEMMA AppendDupStages ==
    ASSUME IInv, RInv, NEW c \in Conns, AppendDup(c)
    PROVE  Service!StageFirst(c)
<1>. DEFINE r == req[c]
            t == r.table
            refused == \E j \in WithPrefix(Present(View(t)), r.key) : r.key[2] < j[2]
<1>1. /\ pc[c] = "in" /\ r.op = "AppendDup" /\ UNCHANGED <<store, cursor>>
      /\ \/ /\ refused /\ UNCHANGED cache
            /\ WantCursor(c, Unset, Failure("ErrCannotAppendDup"))
         \/ ~refused /\ SetAndPlace(c)
  BY DEF AppendDup, Runs
<1>2. t \in Tables
  BY <1>1 DEF IInv, RequestsOK, Busy
<1>3. Service!Result(c) =
        IF refused THEN Refuses("ErrCannotAppendDup") ELSE Stores(r, r.key)
  BY <1>1, <1>2, WriteCall, SameTables, SameOrders
     DEF Service!WriteResult, Stores, Refuses, Service!Refusal
<1>. HIDE DEF refused
<1>4. CASE refused
  BY <1>1, <1>3, <1>4, StageFirstStep DEF Refuses
<1>. QED
  BY <1>1, <1>3, <1>4, StoreStages

\* DeleteCurrent removes the entry under the cursor it read without the lock.
LEMMA DeleteCurrentStages ==
    ASSUME IInv, RInv, NEW c \in Conns, DeleteCurrent(c)
    PROVE  Service!StageAndAnswer(c) \/ Service!StageFirst(c)
<1>. DEFINE r == req[c]
            t == r.table
            cur == cursor[r.cur]
            S == From(Present(View(t)), cur)
<1>1. /\ pc[c] = "in" /\ r.op = "DeleteCurrent" /\ UNCHANGED <<store, cursor>>
      /\ \/ cur = Unset /\ Respond(c, Failure("ErrCurrentKeyIsNotSet")) /\ UNCHANGED cache
         \/ /\ cur # Unset /\ S = {} /\ UNCHANGED cache
            /\ Respond(c, Failure("ErrCurrentIteratorKeyIsInvalid"))
         \/ /\ cur # Unset /\ S # {} /\ cache' = Cached(c, t, {cur}, NoValue)
            /\ \/ ~HasSecond(S) /\ WantCursor(c, Unset, Success)
               \/ \E k \in S : IsSecond(k, S) /\ WantCursor(c, k, Success)
  BY DEF DeleteCurrent, Runs
<1>2. t \in Tables /\ S \in SUBSET Bytes
  BY <1>1, KeySets DEF IInv, RequestsOK, Busy
<1>3. Service!Position(r) = cur
  BY <1>1, ReadKinds, PositionOf, RouterAssumption DEF IInv, RequestsOK, Busy
<1>4. Service!Result(c) =
        IF cur = Unset THEN Refuses("ErrCurrentKeyIsNotSet")
        ELSE IF S = {} THEN Refuses("ErrCurrentIteratorKeyIsInvalid")
        ELSE Deletes({cur}, Service!SecondOf(S))
  BY <1>1, <1>2, <1>3, WriteCall, SameTables, SameOrders
     DEF Service!WriteResult, Deletes, Refuses, Service!Refusal
<1>. HIDE DEF S
<1>5. CASE cur = Unset
  BY <1>1, <1>4, <1>5, WriteRefused, ReadKinds DEF Errors
<1>6. CASE cur # Unset /\ S = {}
  BY <1>1, <1>4, <1>6, WriteRefused, ReadKinds DEF Errors
<1>7. CASE cur # Unset /\ S # {}
  <2>1. PICK k : WantCursor(c, k, Success) /\ Service!SecondOf(S) = k
    BY <1>1, <1>2, <1>7, ChosenSecond
  <2>2. Service!Result(c) = [keys |-> {cur}, val |-> NoValue, to |-> k, ans |-> Success]
    BY <1>4, <1>7, <2>1 DEF Deletes
  <2>. QED
    BY <1>1, <1>7, <2>1, <2>2, StageFirstStep
<1>. QED
  BY <1>5, <1>6, <1>7

\* DeleteCurrentDuplicates removes a whole prefix and moves the cursor at once.
LEMMA DeleteDuplicatesStages ==
    ASSUME IInv, RInv, NEW c \in Conns, DeleteCurrentDuplicates(c), ~Panic
    PROVE  Service!StageAndAnswer(c)
<1>. DEFINE r == req[c]
            t == r.table
            cur == cursor[r.cur]
            S == WithPrefix(Present(View(t)), cur)
            R == BeyondPrefix(Present(View(t)), cur)
<1>1. /\ pc[c] = "incl" /\ r.op = "DeleteCurrentDuplicates" /\ UNCHANGED store
      /\ \/ /\ cur = Unset /\ Respond(c, Failure("ErrCurrentKeyIsNotSet"))
            /\ UNCHANGED <<cache, cursor>>
         \/ /\ cur # Unset /\ S = {} /\ UNCHANGED <<cache, cursor>>
            /\ Respond(c, Failure("ErrCurrentIteratorKeyIsInvalid"))
         \/ /\ cur # Unset /\ S # {} /\ cache' = Cached(c, t, S, NoValue)
            /\ \/ R = {} /\ MoveCursor(c, Unset, Success)
               \/ \E k \in R : IsLeast(k, R) /\ MoveCursor(c, k, Success)
  BY DEF DeleteCurrentDuplicates, Runs, tables
<1>2. t \in Tables /\ R \in SUBSET Bytes
  BY <1>1, KeySets DEF IInv, RequestsOK, Busy
<1>3. Service!Position(r) = cur /\ r.cur # NoCursor
  BY <1>1, ReadKinds, PositionOf, RouterAssumption DEF IInv, RequestsOK, Busy
<1>4. Service!Result(c) =
        IF cur = Unset THEN Refuses("ErrCurrentKeyIsNotSet")
        ELSE IF S = {} THEN Refuses("ErrCurrentIteratorKeyIsInvalid")
        ELSE Deletes(S, Service!LeastOf(R))
  BY <1>1, <1>2, <1>3, WriteCall, SameTables, SameOrders
     DEF Service!WriteResult, Deletes, Refuses, Service!Refusal
<1>. HIDE DEF S, R
<1>5. CASE cur = Unset
  BY <1>1, <1>4, <1>5, WriteRefused, ReadKinds DEF Errors
<1>6. CASE cur # Unset /\ S = {}
  BY <1>1, <1>4, <1>6, WriteRefused, ReadKinds DEF Errors
<1>7. CASE cur # Unset /\ S # {}
  <2>1. PICK k : MoveCursor(c, k, Success) /\ Service!LeastOf(R) = k
    BY <1>1, <1>2, <1>7, Chosen
  <2>2. Service!Result(c) = [keys |-> S, val |-> NoValue, to |-> k, ans |-> Success]
    BY <1>4, <1>7, <2>1 DEF Deletes
  <2>3. Success.st \notin Errors
    BY DEF Success, Errors
  <2>4. /\ Respond(c, Success) /\ cache' = Cached(c, t, S, NoValue)
        /\ cursor' = [cursor EXCEPT ![r.cur] = k]
    BY <1>1, <1>7, <2>1 DEF MoveCursor
  <2>5. cursor' = IF r.cur = NoCursor \/ Success.st \in Errors THEN cursor
                  ELSE [cursor EXCEPT ![r.cur] = k]
    BY <1>3, <2>3, <2>4
  <2>. QED
    BY <1>1, <2>2, <2>4, <2>5, StageAnswerStep, ReadKinds
<1>. QED
  BY <1>5, <1>6, <1>7

\* The cursor that a staged call owed.
LEMMA PlaceSteps ==
    ASSUME IInv, RInv, NEW c \in Conns, PlaceCursor(c)
    PROVE  Service!Read(c) \/ Service!PlaceLater(c)
<1>1. /\ pc[c] = "incl" /\ req[c].op \notin MapFirst /\ UNCHANGED <<store, cache>>
      /\ Respond(c, reply[c])
      /\ cursor' = IF reply[c].st \in Errors THEN cursor
                   ELSE [cursor EXCEPT ![req[c].cur] = target[c]]
  BY DEF PlaceCursor
<1>2. req[c].op \in FindOps \/ TwoStep(c)
  BY <1>1, CursorLockHolders DEF TwoStep, RInv
<1>3. CASE TwoStep(c)
  <2>1. req[c].cur # NoCursor
    BY <1>1, <1>3, ReadKinds, RouterAssumption DEF TwoStep, IInv, RequestsOK, Busy
  <2>2. cursor' = IF req[c].cur = NoCursor \/ reply[c].st \in Errors THEN cursor
                  ELSE [cursor EXCEPT ![req[c].cur] = target[c]]
    BY <1>1, <2>1
  <2>. DEFINE owed == [d \in Conns |-> IF TwoStep(d) THEN [to |-> target[d], ans |-> reply[d]]
                                       ELSE [to |-> Unset, ans |-> NoReply]]
  <2>3. PICK k, a : k = target[c] /\ a = reply[c]
    OBVIOUS
  <2>4. PhaseOf(c) = "staged"
    BY <1>1, <1>3 DEF PhaseOf
  <2>5. UNCHANGED [t \in Tables |-> [j \in Bytes |->
                     [staged |-> j \in Dirty(t), val |-> cache[t][j].val]]]
    BY <1>1 DEF Dirty
  <2>6. Service!Answer(c, k, a)
    BY <1>1, <2>2, <2>3, AnswerStep DEF RInv
  <2>7. k = owed[c].to /\ a = owed[c].ans
    BY <1>3, <2>3
  <2>8. Service!PlaceLater(c)
    BY <1>1, <2>4, <2>5, <2>6, <2>7, ZenonT(60) DEF Service!PlaceLater, Service!Answer
  <2>. QED
    BY <2>8
<1>. QED
  BY <1>2, <1>3, FindReads

\* The flush.
LEMMA WriteCommits ==
    ASSUME IInv, RInv, NEW c \in Conns, Write(c)
    PROVE  Service!Commit(c)
<1>. DEFINE h == HashedAccounts
<1>1. /\ pc[c] = "in" /\ req[c].op = "Write" /\ cache' = CleanCache /\ Respond(c, Success)
      /\ cursor' = cursor
  BY DEF Write, Runs
<1>2. PICK lost \in SUBSET Racing(c) : store' = Flushed(lost)
  BY DEF Write
<1>3. lost \in SUBSET Dirty(h) /\ (lost # {} => \E d \in Conns \ {c} : pc[d] = "read")
  BY <1>2 DEF Racing
<1>4. \A d \in Conns : pc[d] = "read" => PhaseOf(d) = "listening"
  BY DEF PhaseOf, TwoStep
<1>5. req[c].cur = NoCursor
  BY <1>1, ReadKinds DEF RInv, ArgumentsOK, Busy
<1>6. Service!Answer(c, Unset, Success)
  BY <1>1, <1>5, AnswerStep DEF RInv
<1>7. PhaseOf(c) = "called"
  BY <1>1 DEF PhaseOf, TwoStep
<1>8. [t \in Tables |-> [k \in Bytes |->
         [staged |-> k \in Dirty(t), val |-> cache[t][k].val]]]' = Service!NothingPending
  BY <1>1, CleanPending
<1>9. h \in Tables
  BY DEF Tables
<1>10. Service!Staged(h) = Dirty(h) /\ \A t \in Tables : Service!Overlaid(t) = View(t)
  BY <1>9, MappedState
<1>11. store' = [t \in Tables |-> [k \in Bytes |->
                   IF t = h /\ k \in lost THEN store[t][k] ELSE Service!Overlaid(t)[k]]]
  BY <1>2, <1>10 DEF Flushed
<1>12. lost # {} => \E d \in Conns \ {c} : [e \in Conns |-> PhaseOf(e)][d] = "listening"
  BY <1>3, <1>4
<1>. QED
  BY <1>1, <1>3, <1>6, <1>7, <1>8, <1>10, <1>11, <1>12, SameTables DEF Service!Commit

-----------------------------------------------------------------------------
(* The refinement *)

\* Where an operation panics.
LEMMA PanicPlaces ==
    ASSUME IInv, NEW c \in Conns, Operates(c), Panic
    PROVE  pc[c] = "in" \/ (pc[c] = "incl" /\ req[c].op \in MapFirst)
<1>1. CASE PlaceCursor(c)
  <2>1. pc[c] = "incl" /\ pc' = [pc EXCEPT ![c] = "top"]
    BY <1>1 DEF PlaceCursor, Respond
  <2>2. pc' = pc /\ pc \in [Conns -> Places]
    BY DEF Panic, IInv, TypeOK
  <2>. QED
    BY <2>1, <2>2
<1>2. CASE Get(c) \/ Put(c) \/ Delete(c) \/ Write(c)
  BY <1>2, Zenon DEF Get, Put, Delete, Write, Runs
<1>3. CASE First(c) \/ Last(c) \/ Seek(c) \/ SeekExact(c) \/ SeekByKeySubkey(c)
  BY <1>3, Zenon DEF First, Last, Seek, SeekExact, SeekByKeySubkey, Runs
<1>4. CASE Upsert(c) \/ Insert(c) \/ Append(c) \/ AppendDup(c) \/ DeleteCurrent(c) \/ MapRace(c)
  BY <1>4, Zenon DEF Upsert, Insert, Append, AppendDup, DeleteCurrent, MapRace, Runs
<1>5. CASE \/ Next_(c) \/ Prev(c) \/ NextDup(c) \/ NextNoDup(c)
           \/ Current(c) \/ DeleteCurrentDuplicates(c)
  BY <1>5, Zenon DEF Next_, Prev, NextDup, NextNoDup, Current, DeleteCurrentDuplicates, Positioned,
     Runs, MapFirst, CursorMoves
<1>. QED
  BY <1>1, <1>2, <1>3, <1>4, <1>5 DEF Operates, InTable

\* A panic ends the service while it serves a call.
LEMMA PanicCrashes ==
    ASSUME IInv, NEW c \in Conns, pc[c] = "in" \/ (pc[c] = "incl" /\ req[c].op \in MapFirst),
           Panic
    PROVE  Service!Crash
<1>1. PhaseOf(c) = "called"
  BY DEF PhaseOf, TwoStep, MapFirst, CursorMoves
<1>2. UNCHANGED <<store, cache, cursor, pc, req, target, reply>> /\ alive' = FALSE
  BY DEF Panic
<1>3. UNCHANGED [t \in Tables |-> [j \in Bytes |->
                   [staged |-> j \in Dirty(t), val |-> cache[t][j].val]]]
  BY <1>2 DEF Dirty
<1>4. \A d \in Conns : PhaseOf(d)' = PhaseOf(d) /\ (TwoStep(d)' <=> TwoStep(d))
  BY <1>2 DEF PhaseOf, TwoStep
<1>. QED
  BY <1>1, <1>2, <1>3, <1>4 DEF Service!Crash

\* A connection opens or closes.
LEMMA ConnectionSteps ==
    ASSUME IInv, RInv, NEW c \in Conns, Accept(c) \/ Disconnect(c)
    PROVE  Service!Connect(c) \/ Service!Hangup(c)
<1>. DEFINE p == IF pc[c] = "closed" THEN "top" ELSE "closed"
<1>1. /\ pc \in [Conns -> Places] /\ pc[c] \in {"closed", "read"}
      /\ pc' = [pc EXCEPT ![c] = p]
      /\ UNCHANGED <<store, cache, cursor, req, target, reply, alive>>
  BY DEF IInv, TypeOK, Accept, Disconnect
<1>2. \A d \in Conns :
        /\ PhaseOf(d)' = IF d # c THEN PhaseOf(d)
                         ELSE IF pc[c] = "closed" THEN "done" ELSE "closed"
        /\ TwoStep(d)' <=> TwoStep(d)
  BY <1>1 DEF PhaseOf, TwoStep
<1>3. \A d \in Conns : (IF pc[d] \in {"cl", "incl"} THEN NoReply ELSE reply[d])'
                         = IF pc[d] \in {"cl", "incl"} THEN NoReply ELSE reply[d]
  BY <1>1
<1>4. UNCHANGED [t \in Tables |-> [j \in Bytes |->
                   [staged |-> j \in Dirty(t), val |-> cache[t][j].val]]]
  BY <1>1 DEF Dirty
<1>5. PhaseOf(c) = IF pc[c] = "closed" THEN "closed" ELSE "listening"
  BY <1>1 DEF PhaseOf, TwoStep
<1>6. UNCHANGED <<store, cursor, req, alive,
         [d \in Conns |-> IF TwoStep(d) THEN [to |-> target[d], ans |-> reply[d]]
                          ELSE [to |-> Unset, ans |-> NoReply]],
         [d \in Conns |-> IF pc[d] \in {"cl", "incl"} THEN NoReply ELSE reply[d]]>>
  BY <1>1, <1>2, <1>3
<1>7. CASE pc[c] = "closed"
  <2>1. [d \in Conns |-> PhaseOf(d)]' = [[d \in Conns |-> PhaseOf(d)] EXCEPT ![c] = "done"]
    BY <1>2, <1>7
  <2>. QED
    BY <1>4, <1>5, <1>6, <1>7, <2>1 DEF Service!Connect
<1>8. CASE pc[c] = "read"
  <2>1. [d \in Conns |-> PhaseOf(d)]' = [[d \in Conns |-> PhaseOf(d)] EXCEPT ![c] = "closed"]
    BY <1>2, <1>8
  <2>. QED
    BY <1>4, <1>5, <1>6, <1>8, <2>1 DEF Service!Hangup
<1>. QED
  BY <1>1, <1>7, <1>8

\* The head of the loop.
LEMMA LoopListens ==
    ASSUME IInv, RInv, NEW c \in Conns, LoopTop(c)
    PROVE  Service!Listen(c)
<1>1. /\ pc \in [Conns -> Places] /\ reply \in [Conns -> Reply] /\ req \in [Conns -> Request]
      /\ target \in [Conns -> Bytes \cup {Unset}] /\ pc[c] = "top"
      /\ pc' = [pc EXCEPT ![c] = "read"] /\ cache' = CleanCache
      /\ req' = [req EXCEPT ![c] = NoRequest] /\ target' = [target EXCEPT ![c] = Unset]
      /\ reply' = [reply EXCEPT ![c] = NoReply] /\ UNCHANGED <<store, cursor, alive>>
  BY DEF IInv, TypeOK, LoopTop
<1>2. \A d \in Conns : /\ PhaseOf(d)' = (IF d = c THEN "listening" ELSE PhaseOf(d))
                       /\ TwoStep(d)' <=> TwoStep(d)
                       /\ TwoStep(d) => d # c
  BY <1>1 DEF PhaseOf, TwoStep
<1>3. [d \in Conns |-> PhaseOf(d)]' = [[d \in Conns |-> PhaseOf(d)] EXCEPT ![c] = "listening"]
  BY <1>2
<1>4. [d \in Conns |-> IF pc[d] \in {"cl", "incl"} THEN NoReply ELSE reply[d]]'
        = [[d \in Conns |-> IF pc[d] \in {"cl", "incl"} THEN NoReply ELSE reply[d]]
             EXCEPT ![c] = NoReply]
  BY <1>1
<1>5. [d \in Conns |-> IF TwoStep(d) THEN [to |-> target[d], ans |-> reply[d]]
                       ELSE [to |-> Unset, ans |-> NoReply]]'
        = [d \in Conns |-> IF TwoStep(d) THEN [to |-> target[d], ans |-> reply[d]]
                           ELSE [to |-> Unset, ans |-> NoReply]]
  BY <1>1, <1>2
<1>6. [t \in Tables |-> [k \in Bytes |->
         [staged |-> k \in Dirty(t), val |-> cache[t][k].val]]]' = Service!NothingPending
  BY <1>1, CleanPending
<1>7. PhaseOf(c) = "done"
  BY <1>1 DEF PhaseOf, TwoStep
<1>. QED
  BY <1>1, <1>3, <1>4, <1>5, <1>6, <1>7, SameTables DEF Service!Listen

\* A request arrives.
LEMMA ReceiveCalls ==
    ASSUME IInv, RInv, alive, NEW c \in Conns, Receive(c)
    PROVE  Service!Call(c)
<1>. DEFINE Ans == [d \in Conns |-> IF pc[d] \in {"cl", "incl"} THEN NoReply ELSE reply[d]]
            Owed == [d \in Conns |-> IF TwoStep(d) THEN [to |-> target[d], ans |-> reply[d]]
                                     ELSE [to |-> Unset, ans |-> NoReply]]
            Ph == [d \in Conns |-> PhaseOf(d)]
            Bad == {"ErrTableNotFound", "ErrInvalidRequestData", "ErrInvalidOperationCode"}
<1>1. PICK r \in Request : Dispatch(c, r)
  BY Received
<1>2. /\ pc[c] = "read" /\ reply[c] = NoReply /\ store' = SentinelSet
      /\ UNCHANGED <<cache, cursor, target>>
      /\ pc \in [Conns -> Places] /\ reply \in [Conns -> Reply] /\ req \in [Conns -> Request]
  BY DEF Receive, RInv, NoReplyYet, IInv, TypeOK
<1>3. PICK a : /\ reply' = [reply EXCEPT ![c] = a]
               /\ \/ Status(r) = "ok" /\ a = NoReply
                  \/ Status(r) = "panic" /\ a = NoReply
                  \/ Status(r) \notin {"ok", "panic"} /\ \E e \in Bad : a = Failure(e)
  <2>1. Status(r) \in {"ok", "panic", "notable", "invalid", "unknown"}
    BY StatusValues
  <2>. QED
    BY <1>1, <2>1 DEF Dispatch
<1>4. /\ req' = [req EXCEPT ![c] = r] /\ alive' = (Status(r) # "panic")
      /\ pc' = [pc EXCEPT ![c] = IF Status(r) = "ok" THEN "rw" ELSE "top"]
  BY <1>1 DEF Dispatch
<1>5. \A d \in Conns :
        /\ PhaseOf(d)' = IF d # c THEN PhaseOf(d)
                         ELSE IF Status(r) = "ok" THEN "called" ELSE "done"
        /\ TwoStep(d)' <=> TwoStep(d)
        /\ TwoStep(d) => d # c
  BY <1>2, <1>4 DEF PhaseOf, TwoStep
<1>6. Ph' = [Ph EXCEPT ![c] = IF Status(r) = "ok" THEN "called" ELSE "done"]
  BY <1>5
<1>7. Owed' = Owed
  BY <1>2, <1>3, <1>5
<1>8. Ans' = [Ans EXCEPT ![c] = a] /\ Ans[c] = NoReply
  BY <1>2, <1>3, <1>4
<1>9. UNCHANGED [t \in Tables |-> [j \in Bytes |->
                   [staged |-> j \in Dirty(t), val |-> cache[t][j].val]]]
  BY <1>2 DEF Dirty
<1>10. req'[c] \in Service!Request /\ req' = [req EXCEPT ![c] = req'[c]]
  BY <1>2, <1>4, SameTables
<1>11. store' = [store EXCEPT ![Service!HashedAccounts][Service!Sentinel] = SentinelValue]
  BY <1>2, SameTables DEF SentinelSet
<1>12. Ph[c] = "listening"
  BY <1>2 DEF PhaseOf, TwoStep
<1>13. \/ Ph' = [Ph EXCEPT ![c] = "called"] /\ Ans' = Ans /\ alive' = alive
       \/ /\ Ph' = [Ph EXCEPT ![c] = "done"] /\ alive' = alive
          /\ \E e \in Bad : Ans' = [Ans EXCEPT ![c] = Service!Failure(e)]
       \/ Ph' = [Ph EXCEPT ![c] = "done"] /\ alive' = FALSE /\ Ans' = Ans
  <2>1. [Ans EXCEPT ![c] = NoReply] = Ans
    BY <1>8
  <2>. HIDE DEF Ph, Ans
  <2>2. CASE Status(r) = "ok"
    BY <1>3, <1>4, <1>6, <1>8, <2>1, <2>2
  <2>3. CASE Status(r) = "panic"
    BY <1>3, <1>4, <1>6, <1>8, <2>1, <2>3
  <2>4. CASE Status(r) \notin {"ok", "panic"}
    <3>1. PICK e \in Bad : a = Failure(e)
      BY <1>3, <2>4
    <3>2. alive' = alive
      BY <1>4, <2>4
    <3>3. Service!Failure(e) = a
      BY <3>1, SameOrders
    <3>. QED
      BY <1>6, <1>8, <2>4, <3>2, <3>3
  <2>. QED
    BY <2>2, <2>3, <2>4
<1>. QED
  BY <1>2, <1>7, <1>9, <1>10, <1>11, <1>12, <1>13 DEF Service!Call

\* The node starts.
LEMMA RestartStarts ==
    ASSUME Restart
    PROVE  Service!Restarted
<1>1. /\ ~alive /\ store' \in Loadable /\ cache' = CleanCache
      /\ cursor' = [u \in Cursors |-> Unset] /\ pc' = [c \in Conns |-> "closed"]
      /\ req' = [c \in Conns |-> NoRequest] /\ target' = [c \in Conns |-> Unset]
      /\ reply' = [c \in Conns |-> NoReply] /\ alive' = TRUE
  BY DEF Restart
<1>2. [t \in Tables |-> [k \in Bytes |->
         [staged |-> k \in Dirty(t), val |-> cache[t][k].val]]]' = Service!NothingPending
  BY <1>1, CleanPending
<1>3. \A d \in Conns : PhaseOf(d)' = "closed" /\ ~TwoStep(d)'
  BY <1>1 DEF PhaseOf, TwoStep
<1>4. [d \in Conns |-> PhaseOf(d)]' = [d \in Conns |-> "closed"]
  BY <1>3
<1>5. [d \in Conns |-> IF TwoStep(d) THEN [to |-> target[d], ans |-> reply[d]]
                       ELSE [to |-> Unset, ans |-> NoReply]]'
        = [d \in Conns |-> [to |-> Unset, ans |-> NoReply]]
  BY <1>3
<1>6. [d \in Conns |-> IF pc[d] \in {"cl", "incl"} THEN NoReply ELSE reply[d]]'
        = [d \in Conns |-> NoReply]
  BY <1>1
<1>. QED
  BY <1>1, <1>2, <1>4, <1>5, <1>6, SameTables
     DEF Service!Restarted, Service!Started, Service!NothingLater

\* The initial states are the service's.
LEMMA InitStarts == Init => Service!SInit
<1>. SUFFICES ASSUME Init PROVE Service!SInit
  OBVIOUS
<1>1. /\ store \in Loadable /\ cache = CleanCache
      /\ cursor = [u \in Cursors |-> Unset] /\ pc = [c \in Conns |-> "closed"]
      /\ req = [c \in Conns |-> NoRequest] /\ target = [c \in Conns |-> Unset]
      /\ reply = [c \in Conns |-> NoReply] /\ alive = TRUE
  BY DEF Init
<1>2. \A t \in Tables, k \in Bytes :
        cache[t][k].by = NoConn /\ cache[t][k].val = NoValue /\ (k \in Dirty(t)) = FALSE
  BY <1>1 DEF CleanCache, CleanEntry, Dirty
<1>3. [t \in Tables |-> [k \in Bytes |->
         [staged |-> k \in Dirty(t), val |-> cache[t][k].val]]] = Service!NothingPending
  BY <1>2, SameTables DEF Service!NothingPending, Service!Untouched
<1>4. \A d \in Conns : PhaseOf(d) = "closed" /\ ~TwoStep(d)
  BY <1>1 DEF PhaseOf, TwoStep
<1>. QED
  BY <1>1, <1>3, <1>4, SameTables DEF Service!SInit, Service!Started, Service!NothingLater

\* The locks, and the inner call, are not seen.
LEMMA LockSilent ==
    ASSUME IInv, RInv, NEW c \in Conns,
           Lock(c) \/ Recurse(c) \/ Nested(c)
    PROVE  Service!Read(c) \/ UNCHANGED Service!svars
<1>1. CASE Lock(c)
  <2>1. UNCHANGED <<store, cache, cursor, req, target, reply, alive>>
    BY <1>1 DEF Lock, AcquireR, Announce, AcquireW, AcquireCursorLock
  <2>2. \E p : /\ pc' = [pc EXCEPT ![c] = p]
               /\ \/ pc[c] \in {"rw", "pend"} /\ p \in {"pend", "in"}
                  \/ pc[c] \in {"rw", "pend"} /\ p = "cl" /\ req[c].op \in MapFirst
                  \/ pc[c] = "cl" /\ p = "incl"
    BY <1>1 DEF Lock, AcquireR, Announce, AcquireW, AcquireCursorLock, Entered
  <2>. QED
    BY <2>1, <2>2, SilentStep DEF RInv
<1>2. CASE Recurse(c)
  BY <1>2, SilentStep DEF RInv, Recurse, MapFirst
<1>3. CASE Nested(c)
  <2>1. pc[c] = "rec" /\ req[c].op \in CursorMoves /\ UNCHANGED <<store, cache, cursor>>
    BY <1>3 DEF Nested, tables, IInv, RequestsOK
  <2>2. CASE Present(store[req[c].table]) = {} /\ Respond(c, Success)
    BY <2>1, <2>2, NothingReads
  <2>3. CASE pc' = [pc EXCEPT ![c] = "stuck"] /\ UNCHANGED <<req, target, reply, rw, cl, alive>>
    BY <2>1, <2>3, SilentStep DEF RInv
  <2>. QED
    BY <1>3, <2>2, <2>3 DEF Nested
<1>. QED
  BY <1>1, <1>2, <1>3

\* A step of the body of an operation is one call of the service, or none.
LEMMA OperatesServes ==
    ASSUME IInv, RInv, NEW c \in Conns, Operates(c)
    PROVE  \/ Service!Read(c) \/ Service!StageAndAnswer(c) \/ Service!StageFirst(c)
           \/ Service!PlaceLater(c) \/ Service!Commit(c) \/ Service!Crash
           \/ UNCHANGED Service!svars
<1>1. CASE Panic
  <2>1. pc[c] = "in" \/ (pc[c] = "incl" /\ req[c].op \in MapFirst)
    BY <1>1, PanicPlaces
  <2>. QED
    BY <1>1, <2>1, PanicCrashes
<1>2. CASE ~Panic
  <2>1. CASE Get(c) \/ Put(c) \/ Delete(c) \/ Write(c)
    BY <2>1, GetReads, PutStages, DeleteStages, WriteCommits
  <2>2. CASE First(c) \/ Last(c) \/ Seek(c) \/ SeekExact(c) \/ SeekByKeySubkey(c)
    BY <2>2, SearchSteps
  <2>3. CASE Upsert(c) \/ Insert(c) \/ Append(c) \/ AppendDup(c) \/ DeleteCurrent(c)
    BY <1>2, <2>3, UpsertStages, InsertStages, AppendStages, AppendDupStages, DeleteCurrentStages
  <2>4. CASE MapRace(c)
    BY <1>2, <2>4 DEF MapRace
  <2>5. CASE PlaceCursor(c)
    BY <2>5, PlaceSteps
  <2>6. CASE Next_(c) \/ Prev(c) \/ NextDup(c) \/ NextNoDup(c)
    BY <1>2, <2>6, MovesRead
  <2>7. CASE Current(c) \/ DeleteCurrentDuplicates(c)
    BY <1>2, <2>7, CurrentReads, DeleteDuplicatesStages
  <2>. QED
    BY <2>1, <2>2, <2>3, <2>4, <2>5, <2>6, <2>7 DEF Operates, InTable
<1>. QED
  BY <1>1, <1>2

\* Every step of the router is a step of the service or is not seen.
LEMMA StepRefines ==
    ASSUME IInv, RInv, [Next]_vars
    PROVE  [Service!SNext]_Service!svars
<1>1. ASSUME NEW c \in Conns, Serve(c) PROVE [Service!SNext]_Service!svars
  <2>1. alive /\ (LoopTop(c) \/ Lock(c) \/ Recurse(c) \/ Nested(c) \/ Operates(c))
    BY <1>1 DEF Serve, InMap, Operates
  <2>. QED
    BY <2>1, LoopListens, LockSilent, OperatesServes DEF Service!SNext
<1>2. ASSUME NEW c \in Conns, Client(c) PROVE [Service!SNext]_Service!svars
  BY <1>2, ConnectionSteps, ReceiveCalls DEF Client, Service!SNext
<1>3. CASE Restart
  BY <1>3, RestartStarts DEF Service!SNext
<1>4. CASE UNCHANGED vars
  <2>1. UNCHANGED <<store, cache, cursor, pc, req, target, reply, alive>>
    BY <1>4 DEF vars
  <2>2. \A d \in Conns : PhaseOf(d)' = PhaseOf(d) /\ (TwoStep(d)' <=> TwoStep(d))
    BY <2>1 DEF PhaseOf, TwoStep
  <2>3. UNCHANGED [t \in Tables |-> [j \in Bytes |->
                     [staged |-> j \in Dirty(t), val |-> cache[t][j].val]]]
    BY <2>1 DEF Dirty
  <2>. QED
    BY <2>1, <2>2, <2>3 DEF Service!svars
<1>. QED
  BY <1>1, <1>2, <1>3, <1>4 DEF Next

\* DBRouter implements TableService, for any number of connections, cursors,
\* keys, subkeys and values: the two locks make every operation of
\* app/db_eth.go one step on the tables, the cache and the cursor map, but for
\* the cursor of the five that stage a write first.
THEOREM RouterRefines == Spec => RefinesService
<1>1. Init => IInv /\ ReadInv /\ RInv
  BY StartSatisfies, ReadInit, RInit
<1>2. IInv /\ ReadInv /\ RInv /\ [Next]_vars => (IInv /\ ReadInv /\ RInv)'
  BY Inductive, ReadInductive, RInductive
<1>3. IInv /\ RInv /\ [Next]_vars => [Service!SNext]_Service!svars
  BY StepRefines
<1>4. Init => Service!SInit
  BY InitStarts
<1>. QED
  BY <1>1, <1>2, <1>3, <1>4, PTL DEF Spec, RefinesService, Service!SSpec
=============================================================================
