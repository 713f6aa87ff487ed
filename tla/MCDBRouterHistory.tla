-------------------------- MODULE MCDBRouterHistory --------------------------
(***************************************************************************)
(* Small instances of DBRouterHistory for TLC.                             *)
(***************************************************************************)
EXTENDS DBRouterHistory

CONSTANTS c1, c2, x1, x2, v1      \* connections, cursors, a value

Holding(A, S) ==
    [t \in Tables |-> [k \in Bytes |->
        IF k \in (IF t = HashedAccounts THEN A ELSE S) THEN v1 ELSE NoValue]]

\* What the node finds on disk.
EmptyOnly == {Holding({}, {})}

Shared == [c \in Conns |-> Cursors]
=============================================================================
