--------------------------- MODULE RequestDecoding ---------------------------
(***************************************************************************)
(* How one message read from the database socket is decoded: the layout of *)
(* a request, and the length check of every operation in the switch of     *)
(* ethHandleDatabaseConnection (app/db_eth.go).  A message is              *)
(*                                                                         *)
(*     operation(1) tableCode(1) [cursorID(8)] [key(40)] [subkey(40)] value *)
(*                                                                         *)
(* Only the number n of bytes that conn.Read returned matters here.        *)
(***************************************************************************)
EXTENDS Naturals

CursorIDBytes == 8
KeyBytes == 40                                \* both tables
SubKeyBytes(dup) == IF dup THEN 40 ELSE 0     \* hashed_storages only

CursorReads == {"First", "Next", "Prev", "Last", "Current", "DeleteCurrent"}
KeySeeks    == {"SeekExact", "Seek"}
CursorPuts  == {"Upsert", "Insert", "Append"}
DupMoves    == {"NextDup", "NextNoDup", "DeleteCurrentDuplicates"}
Unhandled   == {"NextDupVal", "DropCursor"}   \* codes 18 and 22: no case

\* Every operation code of app/constants.go.
OpCodes == {"Put", "Get", "Delete", "Write"} \cup CursorReads \cup KeySeeks
             \cup CursorPuts \cup DupMoves \cup {"SeekByKeySubkey", "AppendDup"}
             \cup Unhandled

WriteOps == {"Put", "Delete", "Write", "Upsert", "Insert", "Append",
             "DeleteCurrent", "DeleteCurrentDuplicates", "AppendDup"}
ReadOps  == (OpCodes \ Unhandled) \ WriteOps
ValueOps == {"Put", "AppendDup"} \cup CursorPuts
CursorOps == (OpCodes \ Unhandled) \ {"Put", "Get", "Delete", "Write"}

-----------------------------------------------------------------------------

\* OP_GET compares with the bare key even in the dup-sorted table.
DecodeGet(n) == IF n # 2 + KeyBytes THEN "invalid" ELSE "ok"

DecodePut(dup, n) ==
    IF n <= 2 + KeyBytes + SubKeyBytes(dup) THEN "invalid" ELSE "ok"

\* Faulty variant: the dup-sorted table always wants the subkey.
DecodeDeleteFull(dup, n) ==
    IF n = 2 + KeyBytes + SubKeyBytes(dup) THEN "ok" ELSE "invalid"

\* Faulty variant: bytes behind the key are not looked at.
DecodeDeleteLax(dup, n) ==
    IF n >= 2 + KeyBytes THEN "ok" ELSE "invalid"

DecodeDelete(dup, n) ==
    IF n = 2 + KeyBytes \/ (dup /\ n = 2 + KeyBytes + SubKeyBytes(dup))
    THEN "ok" ELSE "invalid"

DecodeCursorRead(n) == IF n # 2 + CursorIDBytes THEN "invalid" ELSE "ok"

\* Faulty variant: the cursor id is left out of the check.
DecodeKeySeekShort(n) == IF n < 2 + KeyBytes THEN "invalid" ELSE "ok"

DecodeKeySeek(n) ==
    IF n # 2 + CursorIDBytes + KeyBytes THEN "invalid" ELSE "ok"

\* In the regular table the check leaves the cursor out; the value slice
\* data[2+CursorIDBytes+KeyBytes:] is then out of range for the lengths
\* between, and the goroutine panics.
DecodeCursorPut(dup, n) ==
    CASE dup /\ n <= 2 + CursorIDBytes + KeyBytes + SubKeyBytes(dup) -> "invalid"
      [] ~dup /\ n <= 2 + KeyBytes -> "invalid"
      [] ~dup /\ n > 2 + KeyBytes /\ n < 2 + CursorIDBytes + KeyBytes -> "panic"
      [] OTHER -> "ok"

DecodeDupMove(dup, n) ==
    IF ~dup \/ n # 2 + CursorIDBytes THEN "invalid" ELSE "ok"

DecodeSeekByKeySubkey(dup, n) ==
    IF ~dup \/ n # 2 + CursorIDBytes + KeyBytes + SubKeyBytes(dup)
    THEN "invalid" ELSE "ok"

DecodeAppendDup(dup, n) ==
    IF ~dup \/ n <= 2 + CursorIDBytes + KeyBytes + SubKeyBytes(dup)
    THEN "invalid" ELSE "ok"

\* The switch on the operation code; data[1], the table code, is read first.
Decode(op, dup, n) ==
    CASE n = 1                    -> "panic"
      [] n > 1 /\ op = "Get"      -> DecodeGet(n)
      [] n > 1 /\ op = "Put"      -> DecodePut(dup, n)
      [] n > 1 /\ op = "Delete"   -> DecodeDelete(dup, n)
      [] n > 1 /\ op = "Write"    -> "ok"
      [] n > 1 /\ op \in CursorReads -> DecodeCursorRead(n)
      [] n > 1 /\ op \in KeySeeks    -> DecodeKeySeek(n)
      [] n > 1 /\ op \in CursorPuts  -> DecodeCursorPut(dup, n)
      [] n > 1 /\ op \in DupMoves    -> DecodeDupMove(dup, n)
      [] n > 1 /\ op = "SeekByKeySubkey" -> DecodeSeekByKeySubkey(dup, n)
      [] n > 1 /\ op = "AppendDup"   -> DecodeAppendDup(dup, n)
      [] OTHER                       -> "unknown"

-----------------------------------------------------------------------------

\* The fields a client writes for an operation, independently of the checks
\* above: how many bytes precede the value.  sub: the key has a subkey.
FieldBytes(op, sub) ==
    2 + (IF op \in CursorOps THEN CursorIDBytes ELSE 0)
      + (IF op \in ValueOps \cup KeySeeks \cup {"Get", "Delete", "SeekByKeySubkey"}
         THEN KeyBytes ELSE 0)
      + (IF sub THEN SubKeyBytes(TRUE) ELSE 0)

\* Operations that name one entry of a dup-sorted table name its subkey too.
NamesSubkey(op, dup) ==
    dup /\ op \in ValueOps \cup {"SeekByKeySubkey", "Delete"}

\* Operations the table's kind supports.
Supported(op, dup) ==
    op \notin Unhandled
      /\ (op \in DupMoves \cup {"SeekByKeySubkey", "AppendDup"} => dup)
=============================================================================
