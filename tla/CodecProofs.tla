------------------------------ MODULE CodecProofs ------------------------------
(***************************************************************************)
(* The node's two decoders, without bounds: a connection to the database   *)
(* router (Framing) for every buffer, message and cut, and an execution    *)
(* payload on its way through a proposal (PayloadCodec) for every set of   *)
(* fields.                                                                 *)
(***************************************************************************)
EXTENDS Framing, PayloadCodec, TLAPS

-----------------------------------------------------------------------------
(* Requests of the database router *)

\* A handler has at least one byte, and two bytes for any operation and table.
FInv ==
    /\ unread \in Nat
    /\ phase = "handle" => op \in OpCodes /\ dup \in BOOLEAN /\ got \in Nat \ {0}

\* The switch: an operation is decoded by the check of its own case.
LEMMA DecodeCases ==
    ASSUME NEW o \in OpCodes, NEW d \in BOOLEAN, NEW k \in Nat, k > 1
    PROVE  /\ o = "Get" => Decode(o, d, k) = DecodeGet(k)
           /\ o = "Put" => Decode(o, d, k) = DecodePut(d, k)
           /\ o = "Delete" => Decode(o, d, k) = DecodeDelete(d, k)
           /\ o = "Write" => Decode(o, d, k) = "ok"
           /\ o \in CursorReads => Decode(o, d, k) = DecodeCursorRead(k)
           /\ o \in KeySeeks => Decode(o, d, k) = DecodeKeySeek(k)
           /\ o \in CursorPuts => Decode(o, d, k) = DecodeCursorPut(d, k)
           /\ o \in DupMoves => Decode(o, d, k) = DecodeDupMove(d, k)
           /\ o = "SeekByKeySubkey" => Decode(o, d, k) = DecodeSeekByKeySubkey(d, k)
           /\ o = "AppendDup" => Decode(o, d, k) = DecodeAppendDup(d, k)
           /\ o \in Unhandled => Decode(o, d, k) = "unknown"
BY DEF Decode, CursorPuts, CursorReads, KeySeeks, DupMoves, Unhandled

\* What each check lets through, as a condition on the length.
LEMMA DecodeLengths ==
    ASSUME NEW o \in OpCodes, NEW d \in BOOLEAN, NEW k \in Nat, k > 1
    PROVE  LET ok == Decode(o, d, k) = "ok"
               sb == IF d THEN 40 ELSE 0
           IN /\ o = "Get" => (ok <=> k = 42)
              /\ o = "Put" => (ok <=> k > 42 + sb)
              /\ o = "Delete" => (ok <=> k = 42 \/ k = 42 + sb)
              /\ o = "Write" => ok
              /\ o \in CursorReads => (ok <=> k = 10)
              /\ o \in KeySeeks => (ok <=> k = 50)
              /\ o \in CursorPuts => (ok <=> IF d THEN k > 90 ELSE k >= 50)
              /\ o \in DupMoves => (ok <=> d /\ k = 10)
              /\ o = "SeekByKeySubkey" => (ok <=> d /\ k = 90)
              /\ o = "AppendDup" => (ok <=> d /\ k > 90)
              /\ o \in Unhandled => ~ok
BY DecodeCases DEF DecodeGet, DecodePut, DecodeDelete, DecodeCursorRead, DecodeKeySeek,
   DecodeCursorPut, DecodeDupMove, DecodeSeekByKeySubkey, DecodeAppendDup,
   CursorIDBytes, KeyBytes, SubKeyBytes

\* One byte has no table code: the goroutine panics.
LEMMA OneByte ==
    ASSUME NEW o \in OpCodes, NEW d \in BOOLEAN
    PROVE  Decode(o, d, 1) = "panic"
BY DEF Decode

\* Every operation the switch knows is in exactly one of its cases.
LEMMA OpGroups ==
    ASSUME NEW o \in OpCodes
    PROVE  \/ o \in {"Get", "Put", "Delete", "Write", "SeekByKeySubkey", "AppendDup"}
           \/ o \in CursorReads \/ o \in KeySeeks \/ o \in CursorPuts \/ o \in DupMoves
           \/ o \in Unhandled
BY DEF OpCodes

\* The only other panic: the value slice of the three operations whose check
\* leaves out the cursor id.
LEMMA PanicLengths ==
    ASSUME NEW o \in OpCodes, NEW d \in BOOLEAN, NEW k \in Nat, k > 1, Decode(o, d, k) = "panic"
    PROVE  o \in CursorPuts /\ ~d /\ k > 42 /\ k < 50
<1>1. o \in CursorPuts
  BY DecodeCases, OpGroups DEF DecodeGet, DecodePut, DecodeDelete, DecodeCursorRead, DecodeKeySeek,
     DecodeDupMove, DecodeSeekByKeySubkey, DecodeAppendDup
<1>2. DecodeCursorPut(d, k) = "panic"
  BY <1>1, DecodeCases
<1>. QED
  BY <1>1, <1>2 DEF DecodeCursorPut, CursorIDBytes, KeyBytes, SubKeyBytes

\* A complete request passes the check of its operation.
LEMMA CompleteDecodes ==
    ASSUME NEW o \in OpCodes, NEW d \in BOOLEAN, NEW k \in Nat, Supported(o, d),
           NEW s \in BOOLEAN, (s <=> NamesSubkey(o, d)) \/ (o = "Delete" /\ ~s),
           IF o \in ValueOps THEN k > FieldBytes(o, s) ELSE k = FieldBytes(o, s)
    PROVE  Decode(o, d, k) = "ok"
<1>1. k > 1
  BY DEF FieldBytes, CursorIDBytes, KeyBytes, SubKeyBytes
<1>2. CASE o = "Get"
  <2>1. k = 42
    BY <1>2 DEF Supported, FieldBytes, NamesSubkey, ValueOps, CursorOps, OpCodes, Unhandled,
       CursorReads, KeySeeks, CursorPuts, DupMoves, CursorIDBytes, KeyBytes, SubKeyBytes
  <2>. QED
    BY <1>1, <1>2, <2>1, DecodeLengths
<1>3. CASE o = "Put"
  <2>1. k > 42 + (IF d THEN 40 ELSE 0)
    BY <1>3 DEF Supported, FieldBytes, NamesSubkey, ValueOps, CursorOps, OpCodes, Unhandled,
       CursorReads, KeySeeks, CursorPuts, DupMoves, CursorIDBytes, KeyBytes, SubKeyBytes
  <2>. QED
    BY <1>1, <1>3, <2>1, DecodeLengths
<1>4. CASE o = "Delete"
  <2>1. k = 42 \/ k = 42 + (IF d THEN 40 ELSE 0)
    BY <1>4 DEF Supported, FieldBytes, NamesSubkey, ValueOps, CursorOps, OpCodes, Unhandled,
       CursorReads, KeySeeks, CursorPuts, DupMoves, CursorIDBytes, KeyBytes, SubKeyBytes
  <2>. QED
    BY <1>1, <1>4, <2>1, DecodeLengths
<1>5. CASE o = "Write"
  BY <1>1, <1>5, DecodeLengths
<1>6. CASE o = "SeekByKeySubkey"
  <2>1. d /\ k = 90
    BY <1>6 DEF Supported, FieldBytes, NamesSubkey, ValueOps, CursorOps, OpCodes, Unhandled,
       CursorReads, KeySeeks, CursorPuts, DupMoves, CursorIDBytes, KeyBytes, SubKeyBytes
  <2>2. Decode(o, d, k) = "ok" <=> d /\ k = 90
    BY <1>1, <1>6, DecodeLengths
  <2>. QED
    BY <2>1, <2>2
<1>7. CASE o = "AppendDup"
  <2>1. d /\ k > 90
    BY <1>7 DEF Supported, FieldBytes, NamesSubkey, ValueOps, CursorOps, OpCodes, Unhandled,
       CursorReads, KeySeeks, CursorPuts, DupMoves, CursorIDBytes, KeyBytes, SubKeyBytes
  <2>. QED
    BY <1>1, <1>7, <2>1, DecodeLengths
<1>8. CASE o \in CursorReads
  <2>1. k = 10
    BY <1>8 DEF Supported, FieldBytes, NamesSubkey, ValueOps, CursorOps, OpCodes, Unhandled,
       CursorReads, KeySeeks, CursorPuts, DupMoves, CursorIDBytes, KeyBytes, SubKeyBytes
  <2>. QED
    BY <1>1, <1>8, <2>1, DecodeLengths
<1>9. CASE o \in KeySeeks
  <2>1. k = 50
    BY <1>9 DEF Supported, FieldBytes, NamesSubkey, ValueOps, CursorOps, OpCodes, Unhandled,
       CursorReads, KeySeeks, CursorPuts, DupMoves, CursorIDBytes, KeyBytes, SubKeyBytes
  <2>. QED
    BY <1>1, <1>9, <2>1, DecodeLengths
<1>10. CASE o \in CursorPuts
  <2>1. IF d THEN k > 90 ELSE k >= 50
    BY <1>10 DEF Supported, FieldBytes, NamesSubkey, ValueOps, CursorOps, OpCodes, Unhandled,
       CursorReads, KeySeeks, CursorPuts, DupMoves, CursorIDBytes, KeyBytes, SubKeyBytes
  <2>. QED
    BY <1>1, <1>10, <2>1, DecodeLengths
<1>11. CASE o \in DupMoves
  <2>1. d /\ k = 10
    BY <1>11 DEF Supported, FieldBytes, NamesSubkey, ValueOps, CursorOps, OpCodes, Unhandled,
       CursorReads, KeySeeks, CursorPuts, DupMoves, CursorIDBytes, KeyBytes, SubKeyBytes
  <2>2. Decode(o, d, k) = "ok" <=> d /\ k = 10
    BY <1>1, <1>11, DecodeLengths
  <2>. QED
    BY <2>1, <2>2
<1>. QED
  BY <1>2, <1>3, <1>4, <1>5, <1>6, <1>7, <1>8, <1>9, <1>10, <1>11, OpGroups DEF Supported

\* A request that passes holds all its fields.
LEMMA DecodedIsComplete ==
    ASSUME NEW o \in OpCodes, NEW d \in BOOLEAN, NEW k \in Nat, k > 0, Decode(o, d, k) = "ok"
    PROVE  LET fields == FieldBytes(o, NamesSubkey(o, d) /\ o # "Delete")
           IN /\ Supported(o, d)
              /\ o \in ValueOps => k > fields \/ (o \in CursorPuts /\ ~d /\ k = fields)
              /\ o = "Delete" => k \in {FieldBytes(o, s) : s \in {FALSE, d}}
              /\ o = "Write" => k >= fields
              /\ o \notin ValueOps \cup {"Delete", "Write"} => k = fields
<1>1. k > 1
  BY OneByte
<1>2. CASE o = "Get"
  <2>1. k = 42
    BY <1>1, <1>2, DecodeLengths
  <2>. QED
    BY <1>1, <1>2, <2>1 DEF Supported, FieldBytes, NamesSubkey, ValueOps, CursorOps, OpCodes,
       Unhandled, CursorReads, KeySeeks, CursorPuts, DupMoves, CursorIDBytes, KeyBytes, SubKeyBytes
<1>3. CASE o = "Put"
  <2>1. k > 42 + (IF d THEN 40 ELSE 0)
    BY <1>1, <1>3, DecodeLengths
  <2>. QED
    BY <1>1, <1>3, <2>1 DEF Supported, FieldBytes, NamesSubkey, ValueOps, CursorOps, OpCodes,
       Unhandled, CursorReads, KeySeeks, CursorPuts, DupMoves, CursorIDBytes, KeyBytes, SubKeyBytes
<1>4. CASE o = "Delete"
  <2>1. k = 42 \/ k = 42 + (IF d THEN 40 ELSE 0)
    BY <1>1, <1>4, DecodeLengths
  <2>. QED
    BY <1>1, <1>4, <2>1 DEF Supported, FieldBytes, NamesSubkey, ValueOps, CursorOps, OpCodes,
       Unhandled, CursorReads, KeySeeks, CursorPuts, DupMoves, CursorIDBytes, KeyBytes, SubKeyBytes
<1>5. CASE o = "Write"
  BY <1>1, <1>5 DEF Supported, FieldBytes, NamesSubkey, ValueOps, CursorOps, OpCodes,
     Unhandled, CursorReads, KeySeeks, CursorPuts, DupMoves, CursorIDBytes, KeyBytes, SubKeyBytes
<1>6. CASE o = "SeekByKeySubkey"
  <2>1. d /\ k = 90
    BY <1>1, <1>6, DecodeLengths
  <2>. QED
    BY <1>1, <1>6, <2>1 DEF Supported, FieldBytes, NamesSubkey, ValueOps, CursorOps, OpCodes,
       Unhandled, CursorReads, KeySeeks, CursorPuts, DupMoves, CursorIDBytes, KeyBytes, SubKeyBytes
<1>7. CASE o = "AppendDup"
  <2>1. d /\ k > 90
    BY <1>1, <1>7, DecodeLengths
  <2>. QED
    BY <1>1, <1>7, <2>1 DEF Supported, FieldBytes, NamesSubkey, ValueOps, CursorOps, OpCodes,
       Unhandled, CursorReads, KeySeeks, CursorPuts, DupMoves, CursorIDBytes, KeyBytes, SubKeyBytes
<1>8. CASE o \in CursorReads
  <2>1. k = 10
    BY <1>1, <1>8, DecodeLengths
  <2>. QED
    BY <1>1, <1>8, <2>1 DEF Supported, FieldBytes, NamesSubkey, ValueOps, CursorOps, OpCodes,
       Unhandled, CursorReads, KeySeeks, CursorPuts, DupMoves, CursorIDBytes, KeyBytes, SubKeyBytes
<1>9. CASE o \in KeySeeks
  <2>1. k = 50
    BY <1>1, <1>9, DecodeLengths
  <2>. QED
    BY <1>1, <1>9, <2>1 DEF Supported, FieldBytes, NamesSubkey, ValueOps, CursorOps, OpCodes,
       Unhandled, CursorReads, KeySeeks, CursorPuts, DupMoves, CursorIDBytes, KeyBytes, SubKeyBytes
<1>10. CASE o \in CursorPuts
  <2>1. IF d THEN k > 90 ELSE k >= 50
    BY <1>1, <1>10, DecodeLengths
  <2>. QED
    BY <1>1, <1>10, <2>1 DEF Supported, FieldBytes, NamesSubkey, ValueOps, CursorOps, OpCodes,
       Unhandled, CursorReads, KeySeeks, CursorPuts, DupMoves, CursorIDBytes, KeyBytes, SubKeyBytes
<1>11. CASE o \in DupMoves
  <2>1. d /\ k = 10
    BY <1>1, <1>11, DecodeLengths
  <2>. QED
    BY <1>1, <1>11, <2>1 DEF Supported, FieldBytes, NamesSubkey, ValueOps, CursorOps, OpCodes,
       Unhandled, CursorReads, KeySeeks, CursorPuts, DupMoves, CursorIDBytes, KeyBytes, SubKeyBytes
<1>12. o \notin Unhandled
  BY <1>1, DecodeLengths
<1>. QED
  BY <1>2, <1>3, <1>4, <1>5, <1>6, <1>7, <1>8, <1>9, <1>10, <1>11, <1>12, OpGroups

\* Whatever the stream does, a read returns a byte or more.
THEOREM RequestsInvariance == FSpec => []FInv
<1>1. FInit => FInv
  BY DEF FInit, FInv
<1>2. FInv /\ [FNext]_fvars => FInv'
  <2>. SUFFICES ASSUME FInv, [FNext]_fvars PROVE FInv'
    OBVIOUS
  <2>1. CASE Send
    <3>1. PICK k \in 1..(MaxUnread - unread) : unread' = unread + k
      BY <2>1 DEF Send
    <3>2. unread' \in Nat /\ phase' = "read"
      BY <2>1, <3>1, FramingAssumption DEF Send, FInv
    <3>. QED
      BY <3>2 DEF FInv
  <2>2. CASE Read
    <3>1. op' \in OpCodes /\ dup' \in BOOLEAN
      BY <2>2 DEF Read
    <3>2. PICK g \in 1..BufferBytes : got' = g /\ g <= unread /\ unread' = unread - g
      BY <2>2 DEF Read
    <3>3. got' \in Nat \ {0} /\ unread' \in Nat
      BY <3>2, FramingAssumption DEF FInv
    <3>. QED
      BY <3>1, <3>3 DEF FInv
  <2>3. CASE Handle
    BY <2>3 DEF Handle, FInv
  <2>4. CASE UNCHANGED fvars
    BY <2>4 DEF fvars, FInv
  <2>. QED
    BY <2>1, <2>2, <2>3, <2>4 DEF FNext
<1>. QED
  BY <1>1, <1>2, PTL DEF FSpec

\* No length check of the switch refuses a complete request of any operation
\* that was read in one piece.
THEOREM CompleteAccepted == FSpec => []CompleteIsAccepted
<1>1. FInv => CompleteIsAccepted
  <2>. SUFFICES ASSUME FInv, phase = "handle", LaidOut(op, dup, got)
                PROVE  Decode(op, dup, got) = "ok"
    BY DEF CompleteIsAccepted
  <2>1. op \in OpCodes /\ dup \in BOOLEAN /\ got \in Nat
    BY DEF FInv
  <2>2. NamesSubkey(op, dup) \in BOOLEAN
    BY <2>1 DEF NamesSubkey
  <2>3. PICK sub \in {NamesSubkey(op, dup)} \cup (IF op = "Delete" THEN {FALSE} ELSE {}) :
          IF op \in ValueOps THEN got > FieldBytes(op, sub) ELSE got = FieldBytes(op, sub)
    BY DEF LaidOut
  <2>4. sub \in BOOLEAN /\ (sub = NamesSubkey(op, dup) \/ (op = "Delete" /\ sub = FALSE))
    BY <2>2
  <2>5. Supported(op, dup)
    BY DEF LaidOut
  <2>. QED
    BY <2>1, <2>2, <2>3, <2>4, <2>5, CompleteDecodes
<1>. QED
  BY <1>1, RequestsInvariance, PTL

\* An operation that is run has every field it cuts out of data, and a message
\* that lacks one ends the process only at one byte, or at the length that
\* Upsert, Insert and Append do not check.
THEOREM AcceptedComplete == FSpec => []AcceptedIsComplete
<1>1. FInv => AcceptedIsComplete
  <2>. SUFFICES ASSUME FInv, phase = "handle" PROVE AcceptedIsComplete
    BY DEF AcceptedIsComplete
  <2>. DEFINE fields == FieldBytes(op, NamesSubkey(op, dup) /\ op # "Delete")
              Unguarded == op \in CursorPuts /\ ~dup
              Run == /\ Supported(op, dup)
                     /\ op \in ValueOps => got > fields \/ (Unguarded /\ got = fields)
                     /\ op = "Delete" => got \in {FieldBytes(op, s) : s \in {FALSE, dup}}
                     /\ op = "Write" => got >= fields
                     /\ op \notin ValueOps \cup {"Delete", "Write"} => got = fields
              Died == got = 1 \/ (Unguarded /\ got < fields /\ got > fields - CursorIDBytes)
  <2>1. op \in OpCodes /\ dup \in BOOLEAN /\ got \in Nat /\ got > 0
    BY DEF FInv
  <2>2. ASSUME Decode(op, dup, got) = "ok" PROVE Run
    BY <2>1, <2>2, DecodedIsComplete, Zenon
  <2>3. ASSUME Decode(op, dup, got) = "panic" PROVE Died
    <3>1. CASE got = 1
      BY <3>1
    <3>2. CASE got > 1
      <4>1. Unguarded /\ got > 42 /\ got < 50
        BY <2>1, <2>3, <3>2, PanicLengths
      <4>2. fields = 50 /\ CursorIDBytes = 8
        BY <2>1, <4>1 DEF FieldBytes, NamesSubkey, ValueOps, CursorOps, OpCodes, Unhandled,
           CursorReads, KeySeeks, CursorPuts, DupMoves, CursorIDBytes, KeyBytes, SubKeyBytes
      <4>. QED
        BY <2>1, <4>1, <4>2
    <3>. QED
      BY <2>1, <3>1, <3>2
  <2>. HIDE DEF Run, Died
  <2>4. (Decode(op, dup, got) = "ok" => Run) /\ (Decode(op, dup, got) = "panic" => Died)
    BY <2>2, <2>3
  <2>. QED
    BY <2>4 DEF AcceptedIsComplete, Run, Died
<1>. QED
  BY <1>1, RequestsInvariance, PTL

\* The first part of a request is refused wherever the stream or the buffer has
\* cut it, but for part of a value and a Delete without its subkey.
THEOREM CutRefused == FSpec => []CutRequestsRefused
<1>1. FInv => CutRequestsRefused
  <2>. SUFFICES ASSUME FInv, phase = "handle", unread > 0, LaidOut(op, dup, got + unread),
                       Decode(op, dup, got) = "ok"
                PROVE  \/ op \in ValueOps /\ got >= FieldBytes(op, NamesSubkey(op, dup))
                       \/ op = "Delete" /\ dup /\ got = FieldBytes(op, FALSE)
    BY DEF CutRequestsRefused
  <2>1. op \in OpCodes /\ dup \in BOOLEAN /\ got \in Nat /\ got > 0 /\ unread \in Nat
    BY DEF FInv
  <2>2. NamesSubkey(op, dup) \in BOOLEAN /\ \A s \in BOOLEAN : FieldBytes(op, s) \in Nat
    BY <2>1 DEF NamesSubkey, FieldBytes, CursorIDBytes, KeyBytes, SubKeyBytes
  <2>3. got # 1
    BY <2>1, OneByte
  <2>4. CASE op \in ValueOps
    <3>1. op # "Delete"
      BY <2>4 DEF ValueOps, CursorPuts
    <3>2. (NamesSubkey(op, dup) /\ op # "Delete") = NamesSubkey(op, dup)
      BY <2>2, <3>1
    <3>3. LET f == FieldBytes(op, NamesSubkey(op, dup) /\ op # "Delete")
          IN got > f \/ got = f
      BY <2>1, <2>4, DecodedIsComplete
    <3>4. LET f == FieldBytes(op, NamesSubkey(op, dup))
          IN f \in Nat /\ (got > f \/ got = f)
      BY <2>2, <3>2, <3>3, Zenon
    <3>5. got >= FieldBytes(op, NamesSubkey(op, dup))
      BY <2>1, <3>4
    <3>. QED
      BY <2>4, <3>5
  <2>5. CASE op = "Delete"
    <3>1. FieldBytes(op, FALSE) = 42 /\ FieldBytes(op, TRUE) = 82 /\ op \notin ValueOps
      BY <2>5 DEF FieldBytes, ValueOps, CursorOps, OpCodes, Unhandled,
         CursorReads, KeySeeks, CursorPuts, DupMoves, CursorIDBytes, KeyBytes, SubKeyBytes
    <3>2. got = 42 \/ (dup /\ got = 82)
      BY <2>1, <2>3, <2>5, DecodeLengths
    <3>3. got + unread = 42 \/ (dup /\ got + unread = 82)
      <4>1. PICK sub \in {NamesSubkey(op, dup), FALSE} : got + unread = FieldBytes(op, sub)
        BY <2>5, <3>1 DEF LaidOut
      <4>2. NamesSubkey(op, dup) => dup
        BY DEF NamesSubkey
      <4>3. CASE sub = FALSE
        BY <3>1, <4>1, <4>3
      <4>4. CASE sub = TRUE
        BY <3>1, <4>1, <4>2, <4>4
      <4>. QED
        BY <2>2, <4>1, <4>3, <4>4
    <3>4. dup /\ got = 42
      BY <2>1, <3>2, <3>3
    <3>. QED
      BY <2>5, <3>1, <3>4
  <2>6. CASE op \notin ValueOps /\ op # "Delete"
    <3>1. got + unread = FieldBytes(op, NamesSubkey(op, dup))
      BY <2>6 DEF LaidOut
    <3>2. CASE op = "Write"
      <4>1. FieldBytes(op, NamesSubkey(op, dup)) = 2
        BY <2>1, <3>2 DEF FieldBytes, NamesSubkey, ValueOps, CursorOps, OpCodes, Unhandled,
           CursorReads, KeySeeks, CursorPuts, DupMoves, CursorIDBytes, KeyBytes, SubKeyBytes
      <4>. QED
        BY <2>1, <2>3, <3>1, <4>1
    <3>3. CASE op # "Write"
      <4>1. (NamesSubkey(op, dup) /\ op # "Delete") = NamesSubkey(op, dup)
        BY <2>2, <2>6
      <4>2. got = FieldBytes(op, NamesSubkey(op, dup) /\ op # "Delete")
        BY <2>1, <2>6, <3>3, DecodedIsComplete
      <4>. QED
        BY <2>1, <2>2, <3>1, <4>1, <4>2
    <3>. QED
      BY <3>2, <3>3
  <2>. QED
    BY <2>4, <2>5, <2>6
<1>. QED
  BY <1>1, RequestsInvariance, PTL

-----------------------------------------------------------------------------
(* Execution payloads *)

JsonValues == {"absent", "null", "set", "empty"}

\* What a decoding and an encoding leave of a payload: null for a field that is
\* missing, no witness, and everything else as it was.
Relayed(j) ==
    [f \in Fields |->
        IF f \in Ignored THEN "absent" ELSE IF Missing(j[f]) THEN "null" ELSE j[f]]

\* What is on its way is what was built, relayed; only a complete payload is
\* proposed, and none is rejected.
PInv ==
    /\ stage \in {"built", "notProposed", "proposed", "delivered"}
    /\ envelope \in [executionPayload : {"set", "null"}, blockValue : {"set", "null"}]
    /\ built \in [Fields -> JsonValues]
    /\ stage = "built" => json = built
    /\ stage \in {"proposed", "delivered"} => Complete(built) /\ json = Relayed(built)

\* Fields that are ignored have no place in the struct.
LEMMA FieldSets ==
    /\ Required \subseteq ExecutableData /\ ExecutableData \subseteq Fields
    /\ \A f \in Fields : f \in ExecutableData <=> f \notin Ignored
BY DEF Required, Bytes, Fixed, Optional, Ignored, ExecutableData, Fields

\* Payloads that an execution client sends say something of every field.
LEMMA SentType == Sent \subseteq [Fields -> JsonValues]
<1>. DEFINE O == {o \in [Optional \cup Ignored -> {"absent", "null", "set", "empty"}] :
                    \A f \in DOMAIN o : o[f] \in Json(f)}
            C == {r \in [Required -> {"set", "empty"}] : \A f \in Required : r[f] \in Json(f)}
            D == {[r EXCEPT ![f] = v] : r \in C, f \in Required, v \in {"absent", "null"}}
<1>1. \A r \in C \cup D : \A f \in Required : r[f] \in JsonValues
  BY DEF JsonValues
<1>2. \A o \in O : \A f \in Optional \cup Ignored : o[f] \in JsonValues
  BY DEF JsonValues
<1>3. \A f \in Fields : f \in Required \/ f \in Optional \cup Ignored
  BY DEF Fields, ExecutableData
<1>4. Sent = {[f \in Fields |-> IF f \in Required THEN r[f] ELSE o[f]] : r \in C \cup D, o \in O}
  BY DEF Sent
<1>. HIDE DEF O, C, D
<1>. QED
  BY <1>1, <1>2, <1>3, <1>4

\* Decoding and encoding a complete payload relays it; an incomplete one is not
\* decoded at all.
LEMMA DecodeEncode ==
    ASSUME NEW j \in [Fields -> JsonValues]
    PROVE  /\ Complete(j) => \E e : UnmarshalJSON(j) = {e} /\ MarshalJSON(e) = Relayed(j)
           /\ ~Complete(j) => UnmarshalJSON(j) = {}
<1>1. CASE Complete(j)
  <2>. DEFINE e == [f \in ExecutableData |-> IF Missing(j[f]) THEN "nil" ELSE j[f]]
  <2>1. UnmarshalJSON(j) = {e}
    BY <1>1 DEF UnmarshalJSON
  <2>2. ASSUME NEW f \in Fields PROVE MarshalJSON(e)[f] = Relayed(j)[f]
    <3>1. CASE f \in Ignored
      BY <3>1, FieldSets DEF MarshalJSON, Relayed
    <3>2. CASE f \in ExecutableData
      <4>1. f \notin Ignored /\ j[f] # "nil" /\ e[f] = IF Missing(j[f]) THEN "nil" ELSE j[f]
        BY <3>2, FieldSets DEF JsonValues
      <4>. HIDE DEF e
      <4>2. MarshalJSON(e)[f] = IF e[f] = "nil" THEN "null" ELSE e[f]
        BY <3>2, <4>1 DEF MarshalJSON
      <4>. QED
        BY <4>1, <4>2 DEF Relayed
    <3>. QED
      BY <3>1, <3>2, FieldSets
  <2>3. MarshalJSON(e) = Relayed(j)
    BY <2>2 DEF MarshalJSON, Relayed
  <2>. QED
    BY <1>1, <2>1, <2>3
<1>2. CASE ~Complete(j)
  BY <1>2 DEF UnmarshalJSON
<1>. QED
  BY <1>1, <1>2

\* A payload that was relayed once is relayed again without a change, and is as
\* complete as before.
LEMMA RelayedTwice ==
    ASSUME NEW j \in [Fields -> JsonValues], Complete(j)
    PROVE  /\ Relayed(j) \in [Fields -> JsonValues]
           /\ Complete(Relayed(j)) /\ Relayed(Relayed(j)) = Relayed(j)
<1>1. Relayed(j) \in [Fields -> JsonValues]
  BY DEF Relayed, JsonValues
<1>2. \A f \in Required : f \in Fields /\ f \notin Ignored
  BY FieldSets
<1>3. Complete(Relayed(j))
  BY <1>2 DEF Complete, Relayed, Missing
<1>4. \A f \in Fields : Relayed(Relayed(j))[f] = Relayed(j)[f]
  BY DEF Relayed, Missing
<1>5. Relayed(Relayed(j)) = Relayed(j)
  BY <1>4 DEF Relayed
<1>. QED
  BY <1>1, <1>3, <1>5

\* PrepareProposal proposes what it could decode, relayed.
LEMMA GetPayloadKeeps ==
    ASSUME PInv, GetPayload
    PROVE  PInv'
<1>1. /\ stage = "built" /\ json = built /\ UNCHANGED <<envelope, built>>
      /\ built \in [Fields -> JsonValues]
      /\ envelope \in [executionPayload : {"set", "null"}, blockValue : {"set", "null"}]
  BY DEF PInv, GetPayload
<1>2. CASE UnmarshalEnvelope(envelope, built) = {}
  BY <1>1, <1>2 DEF PInv, GetPayload
<1>3. CASE UnmarshalEnvelope(envelope, built) # {}
  <2>1. UnmarshalJSON(built) # {} /\ UnmarshalEnvelope(envelope, built) = UnmarshalJSON(built)
    BY <1>3 DEF UnmarshalEnvelope
  <2>3. PICK e : Complete(built) /\ UnmarshalJSON(built) = {e} /\ MarshalJSON(e) = Relayed(built)
    BY <1>1, <2>1, DecodeEncode
  <2>4. stage' = "proposed" /\ json' = Relayed(built)
    BY <1>1, <1>3, <2>1, <2>3 DEF GetPayload
  <2>. QED
    BY <1>1, <2>3, <2>4 DEF PInv, Complete
<1>. QED
  BY <1>2, <1>3

\* A validator decodes every proposal and passes it on as it was proposed.
LEMMA NewPayloadKeeps ==
    ASSUME PInv, NewPayload
    PROVE  PInv' /\ stage' = "delivered"
<1>1. /\ stage = "proposed" /\ json = Relayed(built) /\ UNCHANGED <<envelope, built>>
      /\ built \in [Fields -> JsonValues] /\ Complete(built)
  BY DEF PInv, NewPayload
<1>2. PICK e : UnmarshalJSON(json) = {e} /\ MarshalJSON(e) = Relayed(built)
  BY <1>1, RelayedTwice, DecodeEncode
<1>3. stage' = "delivered" /\ json' = Relayed(built)
  BY <1>1, <1>2 DEF NewPayload
<1>. QED
  BY <1>1, <1>3 DEF PInv, Complete

\* The inductive invariant of a payload's way.
THEOREM PayloadInvariance == PSpec => []PInv
<1>1. PInit => PInv
  BY SentType DEF PInit, PInv
<1>2. PInv /\ [PNext]_pvars => PInv'
  BY GetPayloadKeeps, NewPayloadKeeps DEF PNext, pvars, PInv, Complete
<1>. QED
  BY <1>1, <1>2, PTL DEF PSpec

\* No validator rejects what a proposer could decode and encode.
THEOREM ProposalsAccepted == PSpec => []ProposedIsAccepted
<1>1. PInv => ProposedIsAccepted
  BY DEF PInv, ProposedIsAccepted
<1>. QED
  BY <1>1, PayloadInvariance, PTL

\* Two decodings and encodings change no field a block hash covers.
THEOREM FieldsRelayed == PSpec => []RelayKeepsFields
<1>1. PInv => RelayKeepsFields
  BY FieldSets DEF PInv, RelayKeepsFields, Relayed, Missing
<1>. QED
  BY <1>1, PayloadInvariance, PTL
================================================================================
