----------------------------- MODULE CommandProofs -----------------------------
(***************************************************************************)
(* The two commands that write genesis files, without bounds: `export` for *)
(* any validators, delegations and heights (GenesisExport), and `testnet   *)
(* init-files` for any number of nodes, runs and failing steps             *)
(* (TestnetFiles).                                                         *)
(***************************************************************************)
EXTENDS TestnetFiles, GenesisExport, SequenceTheorems, TLAPS

-----------------------------------------------------------------------------
(* export *)

\* The pass for height zero is in it, or in the exports that follow it.
Zero(stages) == stage \in stages \/ (zero /\ stage = "export") \/ result = "zero"

\* Where the pass is says what it has reset.
HeightsOK ==
    /\ stage \in {"validators", "delegations"} => ctxHeight = 0
    /\ Zero({"creation", "jail", "update"}) =>
         ctxHeight = Height /\ \A d \in dels : since[d] = 0 /\ d[2] \in history
    /\ Zero({"jail", "update"}) /\ ~missed => created = 0
    /\ Zero({"update"}) /\ ~missed => \A v \in Validators : unbonding[v] = 0

\* A set that is updated after the jailing keeps out who was jailed.
PowersOK ==
    /\ powers \subseteq Validators
    /\ stage = "update" => ~closeFailed
    /\ stage = "update" /\ allowed # {} /\ ~missed => Validators \ allowed \subseteq jailed
    /\ Zero({}) /\ allowed # {} /\ ~missed /\ ~closeFailed => active \subseteq allowed

\* The pass ends once, and only its branch for height zero is staged.
StagesOK ==
    /\ stage # "stopped" => result = "none"
    /\ stage \notin {"context", "export", "stopped"} => zero
    /\ zero \in BOOLEAN /\ missed \in BOOLEAN /\ dels \subseteq Delegations

EInv == StagesOK /\ HeightsOK /\ PowersOK

\* The inductive invariant of the pass, stage by stage.
THEOREM ExportInvariance == ESpec => []EInv
<1>1. EInit => EInv
  BY DEF EInit, EInv, StagesOK, HeightsOK, PowersOK, Zero
<1>2. EInv /\ [ENext]_evars => EInv'
  <2>. SUFFICES ASSUME EInv, [ENext]_evars PROVE EInv'
    OBVIOUS
  <2>. USE DEF EInv, StagesOK, HeightsOK, PowersOK, Zero,
               GoOn, Stop, params, rewards, periods, staking
  <2>1. CASE Context
    BY <2>1 DEF Context
  <2>2. CASE CheckList \/ WithdrawCommissions \/ WithdrawRewards
    BY <2>2 DEF CheckList, WithdrawCommissions, WithdrawRewards
  <2>3. CASE ClearHistory
    BY <2>3 DEF ClearHistory
  <2>4. CASE ReinitValidators
    BY <2>4 DEF ReinitValidators
  <2>5. CASE ReinitDelegations
    BY <2>5 DEF ReinitDelegations
  <2>6. CASE ResetCreationHeights
    BY <2>6 DEF ResetCreationHeights
  <2>7. CASE JailOthers
    <3>1. PICK ok \in SUBSET Validators : StoreValidators(ok, allowed)
      BY <2>7 DEF JailOthers
    <3>2. /\ stage = "jail" /\ zero /\ result = "none" /\ result' = result
          /\ UNCHANGED <<zero, allowed, dels, ctxHeight, history, since, created, powers>>
          /\ missed' \in BOOLEAN
          /\ \/ ~closeFailed' /\ stage' = "update"
             \/ closeFailed' /\ stage' = "export"
      BY <2>7, <3>1 DEF JailOthers, StoreValidators
    <3>3. ~missed' => ~missed /\ ok = Validators
      BY <3>1 DEF StoreValidators
    <3>4. ~missed' => /\ \A v \in Validators : unbonding'[v] = 0
                      /\ allowed # {} => Validators \ allowed \subseteq jailed'
      BY <3>1, <3>3 DEF StoreValidators
    <3>. QED
      BY <3>2, <3>3, <3>4
  <2>8. CASE UpdateValidators
    BY <2>8 DEF UpdateValidators
  <2>9. CASE Export
    BY <2>9 DEF Export
  <2>10. CASE KeeperFails
    BY <2>10 DEF KeeperFails
  <2>11. CASE UNCHANGED evars
    BY <2>11 DEF evars
  <2>. QED
    BY <2>1, <2>2, <2>3, <2>4, <2>5, <2>6, <2>7, <2>8, <2>9, <2>10, <2>11 DEF ENext
<1>. QED
  BY <1>1, <1>2, PTL DEF ESpec

\* A genesis for height zero names no later height, whatever the state was.
THEOREM HeightsAreReset == ESpec => []HeightsReset
<1>1. EInv => HeightsReset
  BY DEF EInv, StagesOK, HeightsOK, Zero, HeightsReset, Delegations
<1>. QED
  BY <1>1, ExportInvariance, PTL

\* The exported validators are allowed, whichever were jailed before.
THEOREM OnlyAllowedExported == ESpec => []ExportedAreAllowed
<1>1. EInv => ExportedAreAllowed
  BY DEF EInv, PowersOK, Zero, ExportedAreAllowed
<1>. QED
  BY <1>1, ExportInvariance, PTL

-----------------------------------------------------------------------------
(* testnet init-files *)

Keys == {<<run, j>> : j \in 0..(n - 1)}
Addresses == {l[k] : l \in Lists \cup {<< >>}, k \in 1..MaxNodes} \cup Nat \cup {External, Invalid}

\* Node j has its key of this run, and its gentx with its address.
Written(j) ==
    keyOf[j] = <<run, j>> /\ gentxs[j] = [key |-> <<run, j>>, ip |-> ips[j + 1]]

\* Node k has its final genesis file and its peers.
Finished(k) ==
    /\ genesis[k] = [accounts |-> Keys, txs |-> Keys]
    /\ peers[k] = {<<j, ips[j + 1]>> : j \in (0..(n - 1)) \ {k}}

TypesOK ==
    /\ pc \in {"idle", "dirs", "keyring", "key", "gentx", "genesis", "collect", "done", "error"}
    /\ n \in 0..MaxNodes /\ run \in Nat /\ largest \in Nat
    /\ IF n = 0 THEN i = 0 /\ pc \in {"idle", "done"} ELSE i \in 0..(n - 1)
    /\ pc = "idle" \/ run > 0
    /\ n <= largest
    /\ list \in Lists \cup {<< >>} /\ start \in (0..(Octets - 1)) \cup {External}
    /\ ips \in Seq(Addresses)
    /\ DOMAIN keyOf = Nodes /\ DOMAIN gentxs = Nodes
    /\ DOMAIN genesis = Nodes /\ DOMAIN peers = Nodes

\* The gentx of a node is this run's or an earlier one's, and there is none of
\* a node that no run was for.
GentxsOK ==
    \A j \in Nodes :
      gentxs[j] = NoGentx \/ (j < largest /\ \E r \in 1..run : gentxs[j].key = <<r, j>>)

AddressesOK ==
    list = << >> /\ start # External => \A k \in 1..Len(ips) : ips[k] = start + (k - 1)

\* The loop over the nodes has written the files of those before i.
LoopOK ==
    pc \in {"dirs", "keyring", "key", "gentx"} =>
      /\ Len(ips) = IF pc = "dirs" THEN i ELSE i + 1
      /\ \A j \in 0..(i - 1) : Written(j)
      /\ pc = "gentx" => keyOf[i] = <<run, i>>

WrittenOK ==
    pc \in {"genesis", "collect", "done"} => Len(ips) = n /\ \A j \in 0..(n - 1) : Written(j)

\* The genesis files are written first without, then with the gentxs.
GenesisOK ==
    /\ pc = "genesis" => \A j \in 0..(i - 1) : genesis[j] = [accounts |-> Keys, txs |-> {}]
    /\ pc = "collect" =>
         \A j \in 0..(n - 1) :
           IF j < i THEN Finished(j) ELSE genesis[j] = [accounts |-> Keys, txs |-> {}]
    /\ pc = "done" => \A j \in 0..(n - 1) : Finished(j)

TInv ==
    /\ TypesOK /\ GentxsOK /\ AddressesOK /\ LoopOK /\ WrittenOK /\ GenesisOK
    /\ FaultFreeSucceeds

\* Nothing is there before the first run.
LEMMA TestnetInit == TInit => TInv
<1>. SUFFICES ASSUME TInit PROVE TInv
  OBVIOUS
<1>1. MaxNodes \in Nat \ {0} /\ Octets \in Nat \ {0}
  BY TestnetAssumption
<1>2. << >> \in Seq(Addresses) /\ Len(<< >>) = 0
  BY EmptySeq
<1>3. TypesOK
  BY <1>1, <1>2 DEF TInit, TypesOK
<1>. QED
  BY <1>2, <1>3 DEF TInit, TInv, GentxsOK, AddressesOK, LoopOK, WrittenOK, GenesisOK,
     FaultFreeSucceeds

\* A step that fails ends the run; what an emptied or a kept directory holds is
\* still of this or of an earlier run.
LEMMA ErrorKeeps ==
    ASSUME TInv, pc \notin {"idle", "done"}, pc' = "error", UNCHANGED <<i, ips, args>>, UNCHANGED files \/ EmptyDir,
           failed' \/ (getIP(i) = Invalid) \/ n < largest
    PROVE  TInv'
<1>1. TypesOK'
  BY DEF TInv, TypesOK, args, files, EmptyDir
<1>2. GentxsOK'
  BY DEF TInv, GentxsOK, args, files, EmptyDir
<1>3. AddressesOK'
  BY DEF TInv, AddressesOK, args
<1>4. LoopOK' /\ WrittenOK' /\ GenesisOK'
  BY DEF LoopOK, WrittenOK, GenesisOK
<1>5. FaultFreeSucceeds'
  <2>1. getIP(i)' = getIP(i) /\ i' < n'
    BY DEF getIP, calculateIP, args, TInv, TypesOK
  <2>. QED
    BY <2>1 DEF FaultFreeSucceeds, args
<1>. QED
  BY <1>1, <1>2, <1>3, <1>4, <1>5 DEF TInv

\* A new run starts from whatever is in the directory.
LEMMA InitFilesKeeps ==
    ASSUME TInv, InitFilesCmd
    PROVE  TInv'
<1>1. << >> \in Seq(Addresses) /\ Len(<< >>) = 0 /\ MaxNodes \in Nat
  BY EmptySeq, TestnetAssumption
<1>2. TypesOK'
  <2>1. /\ n' \in 0..MaxNodes /\ i' = 0 /\ (n' = 0 => pc' \in {"idle", "done"})
        /\ run' \in Nat /\ run' > 0 /\ largest' \in Nat /\ n' <= largest'
    BY <1>1 DEF TInv, TypesOK, InitFilesCmd
  <2>2. ips' \in Seq(Addresses) /\ UNCHANGED files
    BY <1>1 DEF InitFilesCmd, Addresses
  <2>3. pc' \in {"dirs", "idle", "done"} /\ list' \in Lists /\ start' \in (0..(Octets - 1)) \cup {External}
    BY DEF InitFilesCmd
  <2>4. IF n' = 0 THEN i' = 0 /\ pc' \in {"idle", "done"} ELSE i' \in 0..(n' - 1)
    <3>1. n' \in Nat
      BY <1>1, <2>1
    <3>2. \A k \in Nat : k # 0 => 0 \in 0..(k - 1)
      OBVIOUS
    <3>. QED
      BY <2>1, <3>1, <3>2
  <2>5. pc' = "idle" \/ run' > 0
    BY <2>1
  <2>. QED
    BY <2>1, <2>2, <2>3, <2>4, <2>5 DEF TInv, TypesOK, files
<1>3. GentxsOK'
  BY DEF TInv, TypesOK, GentxsOK, InitFilesCmd, files, Nodes
<1>4. AddressesOK' /\ LoopOK'
  BY <1>1 DEF InitFilesCmd, AddressesOK, LoopOK
<1>5. WrittenOK' /\ GenesisOK' /\ FaultFreeSucceeds'
  <2>1. pc' # "done" \/ n' = 0
    BY DEF InitFilesCmd
  <2>2. \A j \in 0..(0 - 1) : FALSE
    OBVIOUS
  <2>3. ips' = << >> /\ pc' \in {"dirs", "idle", "done"}
    BY DEF InitFilesCmd
  <2>. QED
    BY <1>1, <2>1, <2>2, <2>3 DEF WrittenOK, GenesisOK, FaultFreeSucceeds
<1>. QED
  BY <1>2, <1>3, <1>4, <1>5 DEF TInv

\* The address of a node is in the list, or counted from the first one.
LEMMA AddressOf ==
    ASSUME TInv, n # 0, getIP(i) # Invalid
    PROVE  /\ getIP(i) \in Addresses
           /\ list = << >> /\ start # External => getIP(i) = start + i
<1>1. i \in Nat /\ i + 1 \in 1..MaxNodes
  BY TestnetAssumption DEF TInv, TypesOK
<1>2. CASE list # << >>
  BY <1>1, <1>2 DEF TInv, TypesOK, getIP, Addresses
<1>3. CASE list = << >>
  <2>1. start = External \/ start \in Nat
    BY TestnetAssumption DEF TInv, TypesOK
  <2>2. start # External => getIP(i) = start + i
    BY <1>3 DEF getIP, calculateIP
  <2>. QED
    BY <1>1, <1>3, <2>1, <2>2 DEF getIP, Addresses
<1>. QED
  BY <1>2, <1>3

\* Directory and address of node i.
LEMMA NodeDirKeeps ==
    ASSUME TInv, NodeDir
    PROVE  TInv'
<1>1. CASE FailsAndRemoves \/ (Goes("error") /\ EmptyDir /\ UNCHANGED <<i, ips>> /\ getIP(i) = Invalid)
  BY <1>1, ErrorKeeps DEF NodeDir, At, FailsAndRemoves, Fails, Goes
<1>2. CASE /\ getIP(i) # Invalid /\ ips' = Append(ips, getIP(i))
           /\ Goes("keyring") /\ UNCHANGED <<i, files>>
  <2>. DEFINE a == getIP(i)
  <2>1. /\ pc = "dirs" /\ pc' = "keyring" /\ ips \in Seq(Addresses) /\ Len(ips) = i /\ i \in Nat
        /\ ips' = Append(ips, a) /\ UNCHANGED <<i, args, files>>
    BY <1>2, TestnetAssumption DEF NodeDir, At, Goes, TInv, LoopOK, TypesOK
  <2>2. a \in Addresses /\ (list = << >> /\ start # External => a = start + i)
    <3>1. n # 0
      BY <2>1 DEF TInv, TypesOK
    <3>. QED
      BY <1>2, <3>1, AddressOf
  <2>. HIDE DEF a
  <2>3. /\ ips' \in Seq(Addresses) /\ Len(ips') = i + 1 /\ ips'[i + 1] = a
        /\ \A k \in 1..i : ips'[k] = ips[k]
    BY <2>1, <2>2, AppendProperties
  <2>4. TypesOK'
    BY <2>1, <2>3 DEF TInv, TypesOK, args, files
  <2>5. GentxsOK' /\ WrittenOK' /\ GenesisOK' /\ FaultFreeSucceeds'
    BY <2>1 DEF TInv, GentxsOK, args, files, WrittenOK, GenesisOK, FaultFreeSucceeds
  <2>6. AddressesOK'
    <3>. SUFFICES ASSUME list = << >>, start # External, NEW k \in 1..(i + 1)
                  PROVE  ips'[k] = start + (k - 1)
      BY <2>1, <2>3 DEF AddressesOK, args
    <3>1. CASE k = i + 1
      BY <2>1, <2>2, <2>3, <3>1
    <3>2. CASE k \in 1..i
      BY <2>1, <2>3, <3>2 DEF TInv, AddressesOK
    <3>. QED
      BY <2>1, <3>1, <3>2
  <2>7. LoopOK'
    <3>1. \A j \in 0..(i - 1) : Written(j) /\ j + 1 \in 1..i
      BY <2>1 DEF TInv, LoopOK
    <3>2. \A j \in 0..(i - 1) : Written(j)'
      BY <2>1, <2>3, <3>1 DEF Written, args, files
    <3>. QED
      BY <2>1, <2>3, <3>2 DEF LoopOK
  <2>. QED
    BY <2>4, <2>5, <2>6, <2>7 DEF TInv
<1>. QED
  BY <1>1, <1>2 DEF NodeDir

\* The keyring is opened, and the key of node i is made.
LEMMA KeyKeeps ==
    ASSUME TInv, Keyring \/ CoinKey
    PROVE  TInv'
<1>1. CASE FailsAndLeaves \/ FailsAndRemoves
  BY <1>1, ErrorKeeps DEF Keyring, CoinKey, At, FailsAndLeaves, FailsAndRemoves, Fails
<1>2. CASE ~(FailsAndLeaves \/ FailsAndRemoves)
  <2>1. /\ UNCHANGED <<i, ips, args, gentxs, genesis, peers>>
        /\ \/ pc = "keyring" /\ pc' = "key" /\ keyOf' = keyOf
           \/ pc = "key" /\ pc' = "gentx" /\ keyOf' = [keyOf EXCEPT ![i] = <<run, i>>]
    BY <1>2 DEF Keyring, CoinKey, At, Goes, files
  <2>2. i \in Nodes /\ i \in Nat /\ DOMAIN keyOf = Nodes /\ Len(ips) = i + 1
        /\ \A j \in 0..(i - 1) : Written(j) /\ j # i /\ j \in Nodes
    BY <2>1, TestnetAssumption DEF TInv, TypesOK, LoopOK, Nodes
  <2>3. TypesOK'
    BY <2>1, <2>2 DEF TInv, TypesOK, args
  <2>4. /\ GentxsOK' /\ AddressesOK' /\ WrittenOK' /\ GenesisOK' /\ FaultFreeSucceeds'
    BY <2>1 DEF TInv, GentxsOK, AddressesOK, WrittenOK, GenesisOK, FaultFreeSucceeds, args
  <2>5. LoopOK'
    <3>1. \A j \in 0..(i - 1) : keyOf'[j] = keyOf[j]
      BY <2>1, <2>2
    <3>2. \A j \in 0..(i - 1) : Written(j)'
      BY <2>1, <2>2, <3>1 DEF Written, args
    <3>3. pc' = "gentx" => keyOf'[i] = <<run, i>>
      BY <2>1, <2>2
    <3>. QED
      BY <2>1, <2>2, <3>2, <3>3 DEF LoopOK, args
  <2>. QED
    BY <2>3, <2>4, <2>5 DEF TInv
<1>. QED
  BY <1>1, <1>2

\* The next node, or the first one for the next loop.
LEMMA NextNode ==
    ASSUME TypesOK, n # 0
    PROVE  /\ i \in Nat /\ i < n /\ n \in Nat /\ i \in Nodes
           /\ \A k \in 0..(n - 1) : k \in Nodes
           /\ i + 1 # n => i + 1 < n /\ (i + 1) % n = i + 1
           /\ i + 1 = n => (i + 1) % n = 0
<1>1. i \in Nat /\ i < n /\ n \in Nat \ {0} /\ n <= MaxNodes /\ MaxNodes \in Nat
  BY TestnetAssumption DEF TypesOK
<1>2. i \in Nodes /\ \A k \in 0..(n - 1) : k \in Nodes
  BY <1>1 DEF Nodes
<1>3. \A k \in Nat : k < n => k % n = k
  BY <1>1
<1>4. n % n = 0
  BY <1>1
<1>. QED
  BY <1>1, <1>2, <1>3, <1>4

\* The gentx of node i is written, over that of an earlier run.
LEMMA GentxKeeps ==
    ASSUME TInv, Gentx
    PROVE  TInv'
<1>1. CASE FailsAndLeaves
  BY <1>1, ErrorKeeps DEF Gentx, At, FailsAndLeaves, Fails
<1>2. CASE ~FailsAndLeaves
  <2>. DEFINE tx == [key |-> <<run, i>>, ip |-> ips[i + 1]]
  <2>1. /\ pc = "gentx" /\ gentxs' = [gentxs EXCEPT ![i] = [key |-> keyOf[i], ip |-> ips[i + 1]]]
        /\ UNCHANGED <<ips, args, keyOf, genesis, peers>>
        /\ \/ i' = i /\ pc' = "error" /\ failed'
           \/ i' = (i + 1) % n /\ pc' = (IF i + 1 = n THEN "genesis" ELSE "dirs")
    BY <1>2 DEF Gentx, At, Goes, Fails, writeFile
  <2>2. /\ TypesOK /\ n # 0 /\ Len(ips) = i + 1 /\ keyOf[i] = <<run, i>> /\ run \in Nat /\ run > 0
        /\ \A j \in 0..(i - 1) : Written(j)
    BY <2>1 DEF TInv, LoopOK, TypesOK
  <2>3. gentxs' = [gentxs EXCEPT ![i] = tx] /\ DOMAIN gentxs = Nodes
    BY <2>1, <2>2 DEF TypesOK
  <2>4. TypesOK'
    BY <2>1, <2>2, <2>3, NextNode DEF TypesOK, args
  <2>5. GentxsOK'
    <3>1. tx.key = <<run, i>> /\ run \in 1..run /\ i < largest
      BY <2>2, NextNode DEF TypesOK
    <3>. HIDE DEF tx
    <3>. QED
      BY <2>1, <2>3, <3>1 DEF TInv, GentxsOK, args
  <2>6. AddressesOK'
    BY <2>1 DEF TInv, AddressesOK, args
  <2>7. \A j \in 0..i : Written(j)'
    <3>1. \A j \in 0..i : j = i \/ j \in 0..(i - 1)
      BY <2>2, NextNode
    <3>2. \A j \in 0..(i - 1) : j # i /\ j \in Nodes /\ Written(j)
      BY <2>2, NextNode
    <3>3. \A j \in 0..(i - 1) : Written(j)'
      BY <2>1, <2>3, <3>2 DEF Written, args
    <3>4. keyOf'[i] = <<run, i>> /\ gentxs'[i] = [key |-> <<run, i>>, ip |-> ips[i + 1]]
      BY <2>1, <2>2, <2>3, NextNode
    <3>. QED
      BY <2>1, <3>1, <3>3, <3>4 DEF Written, args
  <2>8. LoopOK' /\ WrittenOK' /\ GenesisOK'
    <3>1. CASE pc' = "error"
      BY <3>1 DEF LoopOK, WrittenOK, GenesisOK
    <3>2. CASE pc' = "dirs" /\ i' = i + 1
      <4>1. \A j \in 0..(i' - 1) : j \in 0..i
        BY <2>2, <3>2, NextNode
      <4>. QED
        BY <2>1, <2>2, <2>7, <3>2, <4>1 DEF LoopOK, WrittenOK, GenesisOK, args
    <3>3. CASE pc' = "genesis" /\ i' = 0 /\ i + 1 = n
      <4>1. \A j \in 0..(n - 1) : j \in 0..i
        BY <2>2, <3>3, NextNode
      <4>. QED
        BY <2>1, <2>2, <2>7, <3>3, <4>1 DEF LoopOK, WrittenOK, GenesisOK, args
    <3>. QED
      BY <2>1, <2>2, <3>1, <3>2, <3>3, NextNode
  <2>9. FaultFreeSucceeds'
    BY <2>1 DEF FaultFreeSucceeds
  <2>. QED
    BY <2>4, <2>5, <2>6, <2>8, <2>9 DEF TInv
<1>. QED
  BY <1>1, <1>2

\* Every node gets a genesis file with the accounts of all.
LEMMA GenesisKeeps ==
    ASSUME TInv, initGenFiles
    PROVE  TInv'
<1>1. CASE FailsAndLeaves
  BY <1>1, ErrorKeeps DEF initGenFiles, At, FailsAndLeaves, Fails
<1>2. CASE ~FailsAndLeaves
  <2>. DEFINE empty == [accounts |-> Keys, txs |-> {}]
  <2>1. /\ pc = "genesis" /\ genesis' = [genesis EXCEPT ![i] = [accounts |-> Accounts, txs |-> {}]]
        /\ i' = (i + 1) % n /\ pc' = (IF i + 1 = n THEN "collect" ELSE "genesis")
        /\ UNCHANGED <<ips, gentxs, keyOf, peers, args>>
    BY <1>2 DEF initGenFiles, At, Goes
  <2>2. TypesOK /\ n # 0 /\ Len(ips) = n /\ (\A j \in 0..(n - 1) : Written(j))
        /\ (\A j \in 0..(i - 1) : genesis[j] = empty)
    BY <2>1 DEF TInv, TypesOK, WrittenOK, GenesisOK
  <2>3. Accounts = Keys
    BY <2>2 DEF Accounts, Keys, Written
  <2>4. genesis' = [genesis EXCEPT ![i] = empty] /\ DOMAIN genesis = Nodes
    BY <2>1, <2>2, <2>3 DEF TypesOK
  <2>5. TypesOK'
    BY <2>1, <2>2, <2>4, NextNode DEF TypesOK, args
  <2>6. GentxsOK' /\ AddressesOK' /\ LoopOK' /\ WrittenOK' /\ FaultFreeSucceeds'
    BY <2>1, <2>2 DEF TInv, GentxsOK, AddressesOK, LoopOK, WrittenOK, Written, FaultFreeSucceeds, args
  <2>7. Keys' = Keys
    BY <2>1 DEF Keys, args
  <2>8. \A j \in 0..i : genesis'[j] = empty
    <3>. HIDE DEF empty
    <3>1. \A j \in 0..i : j = i \/ j \in 0..(i - 1)
      BY <2>2, NextNode
    <3>2. \A j \in 0..(i - 1) : j # i /\ j \in Nodes
      BY <2>2, NextNode
    <3>3. i \in Nodes
      BY <2>2, NextNode
    <3>. QED
      BY <2>2, <2>4, <3>1, <3>2, <3>3
  <2>9. GenesisOK'
    <3>1. CASE i + 1 # n
      <4>1. pc' = "genesis" /\ i' = i + 1 /\ \A j \in 0..(i' - 1) : j \in 0..i
        BY <2>1, <2>2, <3>1, NextNode
      <4>. QED
        BY <2>7, <2>8, <4>1 DEF GenesisOK
    <3>2. CASE i + 1 = n
      <4>1. pc' = "collect" /\ i' = 0 /\ n' = n /\ \A j \in 0..(n - 1) : j \in 0..i /\ ~(j < 0)
        BY <2>1, <2>2, <3>2, NextNode DEF args
      <4>. QED
        BY <2>7, <2>8, <4>1 DEF GenesisOK
    <3>. QED
      BY <3>1, <3>2
  <2>. QED
    BY <2>5, <2>6, <2>9 DEF TInv
<1>. QED
  BY <1>1, <1>2

\* What a gentx that was written says.
LEMMA WrittenFields ==
    ASSUME NEW j, Written(j)
    PROVE  gentxs[j].key = <<run, j>> /\ gentxs[j].ip = ips[j + 1]
<1>1. \A a, b : [key |-> a, ip |-> b].key = a /\ [key |-> a, ip |-> b].ip = b
  OBVIOUS
<1>2. gentxs[j] = [key |-> <<run, j>>, ip |-> ips[j + 1]]
  BY DEF Written
<1>. QED
  BY <1>1, <1>2

\* Adding the gentxs to a genesis file that has none.
LEMMA AddTxs ==
    \A a, t : [[accounts |-> a, txs |-> {}] EXCEPT !.txs = t] = [accounts |-> a, txs |-> t]
OBVIOUS

\* While the gentxs are collected, those of this run's nodes are there; when all
\* can be collected there are no others, and when not the directory holds those
\* of more nodes.
LEMMA CollectedFacts ==
    ASSUME TInv, pc = "collect"
    PROVE  /\ genesis[i] = [accounts |-> Keys, txs |-> {}]
           /\ Collectable => Collected = 0..(n - 1)
           /\ ~Collectable => n < largest
<1>1. /\ TypesOK /\ run \in Nat /\ run > 0 /\ n \in Nat /\ n <= largest /\ largest \in Nat
      /\ i \in Nat /\ i \in 0..(n - 1)
      /\ \A j \in 0..(n - 1) : Written(j) /\ j \in Nodes
  BY NextNode DEF TInv, TypesOK, WrittenOK
<1>2. genesis[i] = [accounts |-> Keys, txs |-> {}]
  <2>1. ~(i < i)
    BY <1>1
  <2>. QED
    BY <1>1, <2>1 DEF TInv, GenesisOK
<1>3. genesis[i].accounts = Keys
  BY <1>2
<1>4. \A j \in 0..(n - 1) : gentxs[j].key = <<run, j>> /\ gentxs[j] # NoGentx
  <2>. SUFFICES ASSUME NEW j \in 0..(n - 1) PROVE gentxs[j].key = <<run, j>> /\ gentxs[j] # NoGentx
    OBVIOUS
  <2>1. gentxs[j].key = <<run, j>>
    BY <1>1, WrittenFields
  <2>2. NoGentx.key = <<0, 0>>
    BY DEF NoGentx, None
  <2>. QED
    BY <1>1, <2>1, <2>2
<1>5. \A j \in Collected : j < largest /\ \E r \in Nat : gentxs[j].key = <<r, j>>
  BY <1>1 DEF Collected, TInv, GentxsOK
<1>6. \A j \in Collected : j \in Nat /\ (gentxs[j].key \in Keys <=> j \in 0..(n - 1))
  <2>. SUFFICES ASSUME NEW j \in Collected
                PROVE  j \in Nat /\ (gentxs[j].key \in Keys <=> j \in 0..(n - 1))
    OBVIOUS
  <2>1. j \in Nat
    BY TestnetAssumption DEF Collected, Nodes
  <2>2. PICK r \in Nat : gentxs[j].key = <<r, j>>
    BY <1>5
  <2>3. ASSUME gentxs[j].key \in Keys PROVE j \in 0..(n - 1)
    BY <2>2, <2>3 DEF Keys
  <2>4. ASSUME j \in 0..(n - 1) PROVE gentxs[j].key \in Keys
    BY <1>4, <2>4 DEF Keys
  <2>. QED
    BY <2>1, <2>3, <2>4
<1>7. Collectable <=> \A j \in Collected : j \in 0..(n - 1)
  BY <1>3, <1>6 DEF Collectable
<1>8. \A j \in 0..(n - 1) : j \in Collected
  BY <1>1, <1>4 DEF Collected
<1>9. ~Collectable => n < largest
  BY <1>1, <1>5, <1>6, <1>7
<1>. QED
  BY <1>2, <1>7, <1>8, <1>9

\* The first node collects the gentxs, and the others copy its state.
LEMMA CollectKeeps ==
    ASSUME TInv, collectGenFiles
    PROVE  TInv'
<1>1. CASE FailsAndLeaves
  BY <1>1, ErrorKeeps DEF collectGenFiles, At, FailsAndLeaves, Fails
<1>2. CASE ~Collectable /\ ~FailsAndLeaves
  BY <1>2, ErrorKeeps, CollectedFacts DEF collectGenFiles, At, Goes
<1>3. CASE Collectable /\ ~FailsAndLeaves
  <2>. DEFINE full == [accounts |-> Keys, txs |-> Keys]
              known(k) == {<<j, ips[j + 1]>> : j \in (0..(n - 1)) \ {k}}
  <2>1. /\ pc = "collect"
        /\ genesis' = [genesis EXCEPT ![i] =
             IF i = 0 THEN [genesis[i] EXCEPT !.txs = {gentxs[j].key : j \in Collected}]
             ELSE genesis[0]]
        /\ peers' = [peers EXCEPT ![i] = {<<j, gentxs[j].ip>> : j \in Collected \ {i}}]
        /\ i' = (i + 1) % n /\ pc' = (IF i + 1 = n THEN "done" ELSE "collect")
        /\ UNCHANGED <<ips, gentxs, keyOf, args>>
    BY <1>3 DEF collectGenFiles, At, Goes
  <2>2. /\ TypesOK /\ n # 0 /\ Len(ips) = n /\ (\A j \in 0..(n - 1) : Written(j))
        /\ (\A j \in 0..(n - 1) : IF j < i THEN Finished(j)
                                  ELSE genesis[j] = [accounts |-> Keys, txs |-> {}])
        /\ DOMAIN genesis = Nodes /\ DOMAIN peers = Nodes
    BY <2>1 DEF TInv, WrittenOK, GenesisOK, TypesOK
  <2>3. Collected = 0..(n - 1) /\ genesis[i] = [accounts |-> Keys, txs |-> {}]
    BY <1>3, <2>1, CollectedFacts
  <2>. HIDE DEF full, known
  <2>4. {gentxs[j].key : j \in Collected} = Keys
    BY <2>2, <2>3, WrittenFields DEF Keys
  <2>5. {<<j, gentxs[j].ip>> : j \in Collected \ {i}} = known(i)
    BY <2>2, <2>3, WrittenFields DEF known
  <2>6. genesis' = [genesis EXCEPT ![i] = full]
    <3>1. CASE i = 0
      <4>1. [genesis[i] EXCEPT !.txs = Keys] = full
        BY <2>3, AddTxs DEF full
      <4>. QED
        BY <2>1, <2>4, <3>1, <4>1
    <3>2. CASE i # 0
      <4>1. 0 \in 0..(n - 1) /\ 0 < i
        BY <2>2, <3>2, NextNode
      <4>2. genesis[0] = full
        BY <2>2, <4>1 DEF Finished, full
      <4>. QED
        BY <2>1, <3>2, <4>2
    <3>. QED
      BY <3>1, <3>2
  <2>7. peers' = [peers EXCEPT ![i] = known(i)]
    BY <2>1, <2>5
  <2>8. TypesOK'
    BY <2>1, <2>2, NextNode DEF TypesOK, args
  <2>9. GentxsOK' /\ AddressesOK' /\ LoopOK' /\ WrittenOK' /\ FaultFreeSucceeds'
    BY <2>1, <2>2 DEF TInv, GentxsOK, AddressesOK, LoopOK, WrittenOK, Written, FaultFreeSucceeds, args
  <2>10. Keys' = Keys /\ n' = n /\ \A k : known(k)' = known(k)
    BY <2>1 DEF Keys, known, args
  <2>11. \A j \in 0..(n - 1) : j # i => genesis'[j] = genesis[j] /\ peers'[j] = peers[j]
    BY <2>2, <2>6, <2>7, NextNode
  <2>12. genesis'[i] = full /\ peers'[i] = known(i)
    BY <2>2, <2>6, <2>7, NextNode
  <2>13. \A j \in 0..i : Finished(j)'
    <3>. SUFFICES ASSUME NEW j \in 0..i PROVE Finished(j)'
      OBVIOUS
    <3>1. CASE j = i
      BY <2>10, <2>12, <3>1 DEF Finished, full, known
    <3>2. CASE j # i
      <4>1. j \in 0..(n - 1) /\ j < i
        BY <2>2, <3>2, NextNode
      <4>2. genesis[j] = full /\ peers[j] = known(j)
        BY <2>2, <4>1 DEF Finished, full, known
      <4>. QED
        BY <2>10, <2>11, <3>2, <4>1, <4>2 DEF Finished, full, known
    <3>. QED
      BY <3>1, <3>2
  <2>14. GenesisOK'
    <3>1. CASE i + 1 # n
      <4>1. /\ pc' = "collect" /\ i' = i + 1
            /\ \A j \in 0..(n - 1) : IF j < i' THEN j \in 0..i ELSE j # i /\ ~(j < i)
        BY <2>1, <2>2, <3>1, NextNode
      <4>2. \A j \in 0..(n - 1) : ~(j < i') => genesis'[j] = [accounts |-> Keys, txs |-> {}]
        BY <2>2, <2>11, <4>1
      <4>. QED
        BY <2>10, <2>13, <4>1, <4>2 DEF GenesisOK
    <3>2. CASE i + 1 = n
      <4>1. pc' = "done" /\ \A j \in 0..(n - 1) : j \in 0..i
        BY <2>1, <2>2, <3>2, NextNode
      <4>. QED
        BY <2>10, <2>13, <4>1 DEF GenesisOK
    <3>. QED
      BY <3>1, <3>2
  <2>. QED
    BY <2>8, <2>9, <2>14 DEF TInv
<1>. QED
  BY <1>1, <1>2, <1>3

\* The inductive invariant of init-files, over all its runs.
THEOREM TestnetInvariance == TSpec => []TInv
<1>1. TInv /\ UNCHANGED tvars => TInv'
  <2>. SUFFICES ASSUME TInv, UNCHANGED tvars PROVE TInv'
    OBVIOUS
  <2>. USE DEF TInv, tvars, args, files
  <2>1. TypesOK' /\ GentxsOK' /\ AddressesOK'
    BY DEF TypesOK, GentxsOK, AddressesOK, getIP, calculateIP
  <2>2. Keys' = Keys
    BY DEF Keys
  <2>3. \A j : (Written(j)' <=> Written(j)) /\ (Finished(j)' <=> Finished(j))
    BY <2>2 DEF Written, Finished
  <2>4. LoopOK' /\ WrittenOK'
    BY <2>3 DEF LoopOK, WrittenOK
  <2>5. GenesisOK'
    BY <2>2, <2>3 DEF GenesisOK
  <2>6. FaultFreeSucceeds'
    BY DEF FaultFreeSucceeds, getIP, calculateIP
  <2>. QED
    BY <2>1, <2>4, <2>5, <2>6
<1>2. TInv /\ [TNext]_tvars => TInv'
  BY <1>1, InitFilesKeeps, NodeDirKeeps, KeyKeeps, GentxKeeps, GenesisKeeps, CollectKeeps DEF TNext
<1>. QED
  BY <1>2, TestnetInit, PTL DEF TSpec

\* A run that ends well leaves the same genesis at every node, with the accounts
\* and gentxs of this run's nodes only, whatever failed or was there before.
THEOREM SuccessConsistent == TSpec => []SuccessIsConsistent
<1>1. TInv => SuccessIsConsistent
  BY DEF TInv, WrittenOK, GenesisOK, Written, Finished, Keys, SuccessIsConsistent
<1>. QED
  BY <1>1, TestnetInvariance, PTL

\* Addresses counted from a first one differ, for every length of the byte.
THEOREM AddressesDiffer == TSpec => []CountedAddressesDiffer
<1>1. TInv => CountedAddressesDiffer
  <2>. SUFFICES ASSUME TInv, list = << >>, start # External,
                       NEW j \in 1..Len(ips), NEW k \in 1..Len(ips), j # k
                PROVE  ips[j] # ips[k]
    BY DEF CountedAddressesDiffer
  <2>1. ips[j] = start + (j - 1) /\ ips[k] = start + (k - 1) /\ start \in Nat
    <3>1. start \in Nat
      BY TestnetAssumption DEF TInv, TypesOK
    <3>. QED
      BY <3>1 DEF TInv, AddressesOK
  <2>. QED
    BY <2>1
<1>. QED
  BY <1>1, TestnetInvariance, PTL

\* A run without a failing step ends in an error only where its addresses do not
\* fit or an earlier run was for more nodes.
THEOREM FaultFreeRuns == TSpec => []FaultFreeSucceeds
<1>1. TInv => FaultFreeSucceeds
  BY DEF TInv
<1>. QED
  BY <1>1, TestnetInvariance, PTL
================================================================================
