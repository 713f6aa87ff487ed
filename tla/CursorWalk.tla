----------------------------- MODULE CursorWalk -----------------------------
(***************************************************************************)
(* DBRouter with a history variable for what cursors are for: walking a    *)
(* table.  walk[u] is what the client has been shown of a table since it   *)
(* placed the cursor u on the table's first entry.                         *)
(***************************************************************************)
EXTENDS DBRouter

VARIABLE walk

wvars == <<vars, walk>>

\* The entries returned since First, and whether NextDup has reported the end
\* of the current key's duplicates.
Walk == [on : BOOLEAN, table : Tables, seen : SUBSET Bytes, drained : BOOLEAN]
NoWalk == [on |-> FALSE, table |-> HashedAccounts, seen |-> {}, drained |-> FALSE]

\* The step is the one in which c's operation returns.
Answers(c) == pc[c] \in {"in", "incl", "rec"} /\ pc'[c] = "top"

\* The walk w after the request r was answered with a.  Skipping to the next
\* key before its duplicates are drained ends the walk, and so does everything
\* that puts the cursor somewhere else.
Walked(w, r, a) ==
    LET same == w.on /\ w.table = r.table
        Shown(x) == [w EXCEPT !.seen = @ \cup {x}, !.drained = FALSE]
    IN CASE r.op = "First" /\ a.st = "entry" ->
              [on |-> TRUE, table |-> r.table, seen |-> {a.key}, drained |-> FALSE]
         [] same /\ r.op \in {"Next", "NextDup"} /\ a.st = "entry" -> Shown(a.key)
         [] same /\ r.op = "NextNoDup" /\ a.st = "entry" /\ w.drained -> Shown(a.key)
         [] same /\ r.op = "NextDup" /\ a.st = "ok" -> [w EXCEPT !.drained = TRUE]
         [] same /\ r.op \in {"Next", "NextNoDup"} /\ a.st = "ok" -> w
         [] same /\ r.op = "Current" -> w
         [] OTHER -> NoWalk

WInit == Init /\ walk = [u \in Cursors |-> NoWalk]

\* A change of the table ends every walk.
WNext ==
    /\ Next
    /\ walk' = [u \in Cursors |->
         IF store' # store \/ ~alive' THEN NoWalk
         ELSE IF \E c \in Conns : Answers(c) /\ req[c].cur = u
              THEN LET c == CHOOSE d \in Conns : Answers(d)
                   IN Walked(walk[u], req[c], reply'[c])
              ELSE walk[u]]

WSpec == WInit /\ [][WNext]_wvars

\* A walk is complete: when Next, or NextNoDup after the duplicates of the
\* last key, reports the end, the client has been shown every entry that the
\* table holds, whatever other connections had pending meanwhile.  The key that
\* the router itself stores apart: it may come back after First has looked.
WalkComplete ==
    [][\A c \in Conns :
         LET w == walk[req[c].cur]
         IN ( /\ Answers(c) /\ reply'[c].st = "ok"
              /\ req[c].op = "Next" \/ (req[c].op = "NextNoDup" /\ w.drained)
              /\ w.on /\ w.table = req[c].table )
            => w.seen \ {Sentinel} = Present(store[req[c].table]) \ {Sentinel}]_wvars
=============================================================================
