----------------------------- MODULE MCDBRouter -----------------------------
(***************************************************************************)
(* Small instances of DBRouter for TLC.                                    *)
(***************************************************************************)
EXTENDS DBRouterRefines, TLC

CONSTANTS c1, c2, c3, x1, x2, v1      \* connections, cursors, a value

Holding(m, S) == [k \in Bytes |-> IF k \in S THEN v1 ELSE m[k]]
Nothing == [k \in Bytes |-> NoValue]

\* What the node finds on disk: nothing, or an entry or two in each table.
Empty == [t \in Tables |-> Nothing]
Accounts(S) == [Empty EXCEPT ![HashedAccounts] = Holding(@, S)]
Storages(S) == [Empty EXCEPT ![HashedStorages] = Holding(@, S)]

EmptyOnly == {Empty}
SomeAccounts == {Empty, Accounts({<<1, 0>>})}
OneStorage == {Storages({<<1, 1>>})}

\* All clients name the same cursor, or each its own.
Shared == [c \in Conns |-> Cursors]
Private == [c \in Conns |-> IF c = c1 THEN {x1} ELSE {x2}]

Symmetry == Permutations(Conns)
=============================================================================
