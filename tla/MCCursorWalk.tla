---------------------------- MODULE MCCursorWalk ----------------------------
(***************************************************************************)
(* Small instances of CursorWalk for TLC.                                  *)
(***************************************************************************)
EXTENDS CursorWalk, DBRouterRefines, TLC

CONSTANTS c1, c2, c3, x1, v1      \* connections, cursors, a value

Holding(A, S) ==
    [t \in Tables |-> [k \in Bytes |->
        IF k \in (IF t = HashedAccounts THEN A ELSE S) THEN v1 ELSE NoValue]]

\* What the node finds on disk.
Several == {Holding({<<1, 0>>, <<2, 0>>}, {<<1, 1>>, <<1, 2>>, <<2, 1>>}),
            Holding({}, {}), Holding({}, {<<1, 2>>, <<2, 1>>, <<2, 2>>})}

AccountAndStorages == {Holding({<<1, 0>>}, {<<1, 1>>, <<2, 1>>})}

Shared == [c \in Conns |-> Cursors]

Symmetry == Permutations(Conns)
=============================================================================
