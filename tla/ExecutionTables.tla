--------------------------- MODULE ExecutionTables ---------------------------
(***************************************************************************)
(* The two tables of the execution client that the node stores: keys, the  *)
(* byte order on them, and the ranges the store iterators walk             *)
(* (app/tables.go, app/constants.go, app/client.go).                       *)
(*                                                                         *)
(* A byte string is a pair <<k, s>>.  s = 0 is a bare 40-byte key, s > 0 a *)
(* key followed by its 40-byte subkey.  The one-byte string []byte{1} that *)
(* the router itself stores is <<0, 0>>: it sorts before every key.        *)
(***************************************************************************)
EXTENDS Integers

CONSTANTS KeyIds,         \* keys of a table
          SubkeyIds,      \* subkeys of the dup-sorted table
          Values,         \* values a client stores
          SentinelValue,  \* the value []byte{1}
          NoValue,        \* no entry
          Unset           \* no position in the cursor map

ASSUME TablesAssumption ==
    /\ KeyIds \subseteq Nat \ {0}
    /\ SubkeyIds \subseteq Nat \ {0}
    /\ SentinelValue \notin Values
    /\ NoValue \notin Values \cup {SentinelValue}

HashedAccounts == 0
HashedStorages == 1
Tables == {HashedAccounts, HashedStorages}
DupSorted(t) == t = HashedStorages

Sentinel == <<0, 0>>
BareKeys == KeyIds \X {0}
FullKeys == KeyIds \X SubkeyIds
Bytes == {Sentinel} \cup BareKeys \cup FullKeys

ASSUME UnsetAssumption == Unset \notin Bytes

StoredValues == Values \cup {SentinelValue}
Contents == [Bytes -> StoredValues \cup {NoValue}]

\* Slicing a key to table.KeyBytes is out of range for the sentinel alone.
Short(k) == k = Sentinel

-----------------------------------------------------------------------------

\* bytes.Compare(i, j) < 0
Before(i, j) == i[1] < j[1] \/ (i[1] = j[1] /\ i[2] < j[2])

\* Where a forward, and a reverse, iterator over the entries S starts.
IsLeast(k, S) == k \in S /\ \A j \in S : ~Before(j, k)
IsGreatest(k, S) == k \in S /\ \A j \in S : ~Before(k, j)

\* Where a forward iterator over S stands after one Next, and whether it is
\* still valid there.
IsSecond(k, S) == \E f \in S : IsLeast(f, S) /\ IsLeast(k, S \ {f})
HasSecond(S) == \E i, j \in S : i # j

Present(m) == {k \in Bytes : m[k] # NoValue}

From(S, k) == {j \in S : ~Before(j, k)}           \* Iterator(k, nil)
Below(S, k) == {j \in S : Before(j, k)}           \* ReverseIterator(nil, k)
WithPrefix(S, k) == {j \in S : j[1] = k[1]}       \* Iterator(k, PrefixEndBytes(k))
BeyondPrefix(S, k) == {j \in S : j[1] > k[1]}     \* Iterator(PrefixEndBytes(k), nil)
=============================================================================
