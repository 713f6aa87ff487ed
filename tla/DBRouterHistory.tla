--------------------------- MODULE DBRouterHistory ---------------------------
(***************************************************************************)
(* DBRouter with a history variable for what its comments promise across   *)
(* two requests: prev is the last request of each connection that was      *)
(* answered without an error.                                              *)
(***************************************************************************)
EXTENDS DBRouter

VARIABLE prev

HInit == Init /\ prev = [c \in Conns |-> NoRequest]

HNext ==
    /\ Next
    /\ prev' = [c \in Conns |->
         IF pc[c] = "top" /\ pc'[c] = "read" /\ reply[c].st \in {"ok", "entry"} THEN req[c]
         ELSE IF pc'[c] = "closed" THEN NoRequest ELSE prev[c]]

HSpec == HInit /\ [][HNext]_<<vars, prev>>

-----------------------------------------------------------------------------

\* "Put: adds a new entry": a client that puts an entry and then writes, with
\* nobody else connected, finds it in the table.
PutThenWriteLands ==
    \A c \in Conns :
      /\ pc[c] = "top" /\ req[c].op = "Write" /\ reply[c].st = "ok"
      /\ prev[c].op = "Put" /\ \A d \in Conns \ {c} : pc[d] = "closed"
      => store[prev[c].table][prev[c].key] = prev[c].val
=============================================================================
