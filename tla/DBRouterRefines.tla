--------------------------- MODULE DBRouterRefines ---------------------------
(***************************************************************************)
(* DBRouter implements TableService.  The mapping forgets the locks, who   *)
(* made a pending write, and where in its operation a goroutine is: an     *)
(* operation that only reads takes effect when it returns, whatever it     *)
(* looked up before it got the cursor lock.                                *)
(***************************************************************************)
EXTENDS DBRouter

TwoStep(c) ==
    /\ pc[c] \in {"cl", "incl"}
    /\ req[c].op \in {"Upsert", "Insert", "Append", "AppendDup", "DeleteCurrent"}

PhaseOf(c) ==
    CASE pc[c] = "closed" -> "closed"
      [] pc[c] = "read" -> "listening"
      [] pc[c] = "top" -> "done"
      [] TwoStep(c) -> "staged"
      [] OTHER -> "called"

Service == INSTANCE TableService WITH
    pending <- [t \in Tables |-> [k \in Bytes |->
                  [staged |-> k \in Dirty(t), val |-> cache[t][k].val]]],
    phase <- [c \in Conns |-> PhaseOf(c)],
    call <- req,
    later <- [c \in Conns |-> IF TwoStep(c) THEN [to |-> target[c], ans |-> reply[c]]
                              ELSE [to |-> Unset, ans |-> NoReply]],
    answer <- [c \in Conns |-> IF pc[c] \in {"cl", "incl"} THEN NoReply ELSE reply[c]],
    up <- alive

\* Every answer is the one that the operation, done in a single step on the
\* tables and the cursor map as they are at one instant, would give, and the
\* tables, the pending writes and the cursors change as that step says: the
\* two locks, their order and the places where operations give them up make
\* the twenty operations atomic, but for the cursor of the five that stage a
\* write first.
RefinesService == Service!SSpec
=============================================================================
