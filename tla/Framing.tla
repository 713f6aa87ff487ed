------------------------------- MODULE Framing -------------------------------
(***************************************************************************)
(* Requests on their way from an execution client into the switch of       *)
(* ethHandleDatabaseConnection (app/db_eth.go).  The socket is a stream and *)
(* the protocol has neither a length nor a delimiter: whatever one         *)
(* conn.Read returns is taken for one request, and the operation, the      *)
(* table and the fields are cut out of it by length.  A read may return    *)
(* less than was written, and a message may be longer than the buffer.     *)
(***************************************************************************)
EXTENDS Integers, RequestDecoding

CONSTANTS BufferBytes,   \* the handler's buffer (4096)
          MaxUnread      \* bound: bytes that a client has in the stream

ASSUME FramingAssumption == BufferBytes \in Nat \ {0} /\ MaxUnread \in Nat \ {0}

VARIABLES phase,         \* "client", "read", "handle", "dead", or "off"
          unread,        \* bytes in the stream
          first,         \* they begin with, and are, one message, until its answer
          op, dup, got   \* what the handler reads: operation, kind of table, n

fvars == <<phase, unread, first, op, dup, got>>

NoRequest == op = "Get" /\ dup = FALSE /\ got = 0

FInit == phase = "client" /\ unread = 0 /\ first = FALSE /\ NoRequest

\* The client writes a message of any length: nothing of it is in the stream
\* before the last one was answered, but what a short read has left may be.
Send ==
    /\ phase = "client" \/ (phase = "read" /\ ~first)
    /\ \E k \in 1..(MaxUnread - unread) : unread' = unread + k
    /\ first' = (phase = "client")
    /\ phase' = "read"
    /\ UNCHANGED <<op, dup, got>>

\* conn.Read returns at least one byte and no more than the buffer or the
\* stream has.  The first two bytes, whatever part of a message they are from,
\* are the operation and the table; a code without a case in the switch, or
\* without a table, is one of Unhandled.
Read ==
    /\ phase = "read" /\ phase' = "handle"
    /\ op' \in OpCodes /\ dup' \in BOOLEAN
    /\ got' \in 1..BufferBytes /\ got' <= unread /\ unread' = unread - got'
    /\ UNCHANGED first

\* One response for one read, or the end of the process.  The next read takes
\* what this one has left.
Handle ==
    /\ phase = "handle"
    /\ phase' = CASE Decode(op, dup, got) = "panic" -> "dead"
                  [] Decode(op, dup, got) # "panic" /\ unread = 0 -> "client"
                  [] OTHER -> "read"
    /\ first' = FALSE
    /\ op' = "Get" /\ dup' = FALSE /\ got' = 0
    /\ UNCHANGED unread

FNext == Send \/ Read \/ Handle

FSpec == FInit /\ [][FNext]_fvars

-----------------------------------------------------------------------------
(* Properties *)

\* A message of n bytes as a client lays it out for an operation: all fields,
\* and a non-empty value where the operation has one.  Delete may name a key
\* with or without its subkey.
LaidOut(o, d, n) ==
    /\ Supported(o, d)
    /\ \E sub \in {NamesSubkey(o, d)} \cup (IF o = "Delete" THEN {FALSE} ELSE {}) :
         IF o \in ValueOps THEN n > FieldBytes(o, sub) ELSE n = FieldBytes(o, sub)

\* A complete message that is read in one piece is accepted: no length check
\* of the switch refuses it.
CompleteIsAccepted ==
    phase = "handle" /\ first /\ unread = 0 /\ LaidOut(op, dup, got)
      => Decode(op, dup, got) = "ok"

\* What an operation cuts out of data is part of what was read, and never the
\* zero bytes behind it in the 4096-byte buffer: an operation that is run has
\* its whole cursor id, key and subkey, and a value, which only Upsert, Insert
\* and Append to the regular table may find empty.  Too short a message is
\* refused, or ends the process: at data[1] if it is one byte, and at the
\* value's slice if the same three operations get part of a cursor id beyond
\* the key, which their check (db_eth.go:306) forgets.
AcceptedIsComplete ==
    phase = "handle" =>
      LET fields == FieldBytes(op, NamesSubkey(op, dup) /\ op # "Delete")
          Unguarded == op \in CursorPuts /\ ~dup
      IN /\ Decode(op, dup, got) = "ok" =>
              /\ Supported(op, dup)
              /\ op \in ValueOps => got > fields \/ (Unguarded /\ got = fields)
              /\ op = "Delete" => got \in {FieldBytes(op, s) : s \in {FALSE, dup}}
              /\ op = "Write" => got >= fields
              /\ op \notin ValueOps \cup {"Delete", "Write"} => got = fields
         /\ Decode(op, dup, got) = "panic" =>
              got = 1 \/ (Unguarded /\ got < fields /\ got > fields - CursorIDBytes)

\* The first part of a message of which a read has returned only part (stream
\* sockets may do so, and must when the message exceeds the buffer) is not run
\* as a request of its own, but in two cases that no length can tell: the part
\* of a value is stored as the value, and the Delete of one duplicate, cut
\* right behind its key, deletes them all.
CutRequestsRefused ==
    phase = "handle" /\ first /\ unread > 0 /\ LaidOut(op, dup, got + unread)
      /\ Decode(op, dup, got) = "ok"
      => \/ op \in ValueOps /\ got >= FieldBytes(op, NamesSubkey(op, dup))
         \/ op = "Delete" /\ dup /\ got = FieldBytes(op, FALSE)
=============================================================================
