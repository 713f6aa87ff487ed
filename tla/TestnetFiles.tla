----------------------------- MODULE TestnetFiles -----------------------------
(***************************************************************************)
(* `testnet init-files` (client/testnet.go): the node directories, gentxs  *)
(* and genesis files that initTestnetFiles writes, step by step, when any  *)
(* step may fail and the command may be run again on the same output       *)
(* directory.                                                              *)
(*                                                                         *)
(* A key is the run and the index of the node it was made for; an address  *)
(* is its last byte.  Collecting the gentxs belongs to the SDK: it reads   *)
(* every file of the gentxs directory and refuses a transaction of an      *)
(* account without a genesis balance.                                      *)
(***************************************************************************)
EXTENDS Naturals, Sequences, FiniteSets

CONSTANTS MaxNodes,     \* bound: validators
          Octets,       \* number of values of the last byte of an address
          Invalid,      \* no address, or not a global unicast one
          External,     \* sdkserver.ExternalIP
          Lists,        \* values of --ip-addresses: << >> or a list
          MaxRuns,      \* bound: runs of the command
          MaxFaults     \* bound: failing steps

ASSUME TestnetAssumption ==
    /\ {MaxNodes, Octets, MaxRuns} \subseteq Nat \ {0}
    /\ MaxFaults \in Nat

Nodes == 0..(MaxNodes - 1)
None == <<0, 0>>              \* keys count their runs from 1

VARIABLES pc, i,     \* where initTestnetFiles is, and its loop variable
          n, ips,    \* --v, and the addresses of the nodes so far
          list, start,  \* --ip-addresses and --starting-ip-address
          run, faults,
          failed,    \* a step of this run has failed
          largest,   \* the most validators asked for so far
          gentxs,    \* the gentxs directory: key and address, by node
          keyOf,     \* the key in each node's keyring
          genesis,   \* each node's genesis file
          peers      \* the persistent peers in each node's config.toml

args == <<n, list, start, largest, run>>
files == <<gentxs, keyOf, genesis, peers>>
tvars == <<pc, i, ips, faults, failed, args, files>>

NoGenesis == [accounts |-> {}, txs |-> {}]
NoGentx == [key |-> None, ip |-> Invalid]
EmptyDir ==
    /\ gentxs' = [j \in Nodes |-> NoGentx]
    /\ keyOf' = [j \in Nodes |-> None]
    /\ genesis' = [j \in Nodes |-> NoGenesis]
    /\ peers' = [j \in Nodes |-> {}]

TInit ==
    /\ pc = "idle" /\ i = 0 /\ n = 1 /\ ips = << >>
    /\ list = << >> /\ start = 0
    /\ run = 0 /\ faults = 0 /\ failed = FALSE /\ largest = 1
    /\ gentxs = [j \in Nodes |-> NoGentx]
    /\ keyOf = [j \in Nodes |-> None]
    /\ genesis = [j \in Nodes |-> NoGenesis]
    /\ peers = [j \in Nodes |-> {}]

-----------------------------------------------------------------------------
(* Addresses *)

\* As many valid addresses as nodes; nothing asks that they differ.
validateIPAddresses(l, k) == Len(l) = k /\ \A j \in 1..k : l[j] # Invalid

\* Faulty variant: the last byte may wrap around.
calculateIPWraps(ip, k) == (ip + k) % Octets

\* The last byte is counted up, and wrapping to zero is an error.
calculateIP(ip, k) ==
    IF \E j \in 1..k : (ip + j) % Octets = 0 THEN Invalid ELSE ip + k

\* An empty starting address stands for the host's own.
getIP(k) ==
    IF list # << >> THEN list[k + 1]
    ELSE IF start = External THEN External ELSE calculateIP(start, k)

-----------------------------------------------------------------------------
(* The command *)

\* The command starts; a wrong list of addresses ends it before any file.  For
\* no validators every loop is empty and the command succeeds.
InitFilesCmd ==
    /\ pc \in {"idle", "done", "error"} /\ run < MaxRuns
    /\ n' \in 0..MaxNodes
    /\ largest' = IF n' > largest THEN n' ELSE largest
    /\ run' = run + 1
    /\ list' \in Lists
    /\ start' \in (0..(Octets - 1)) \cup {External}
    /\ i' = 0 /\ ips' = << >> /\ failed' = FALSE
    /\ pc' = IF list' # << >> /\ ~validateIPAddresses(list', n') THEN "idle"
             ELSE IF n' = 0 THEN "done" ELSE "dirs"
    /\ UNCHANGED <<faults, files>>

At(step) == pc = step /\ i < n

Fails == faults < MaxFaults /\ faults' = faults + 1 /\ failed' = TRUE /\ pc' = "error"

\* os.RemoveAll(args.outputDir): everything goes, other nodes' files too.
FailsAndRemoves == Fails /\ EmptyDir /\ UNCHANGED <<i, ips, args>>

FailsAndLeaves == Fails /\ UNCHANGED <<i, ips, args, files>>

Goes(step) == pc' = step /\ UNCHANGED <<faults, failed, args>>

\* Directory, address, node key and validator key.
NodeDir ==
    /\ At("dirs")
    /\ \/ FailsAndRemoves
       \/ /\ getIP(i) = Invalid
          /\ Goes("error") /\ EmptyDir /\ UNCHANGED <<i, ips>>
       \/ /\ getIP(i) # Invalid
          /\ ips' = Append(ips, getIP(i))
          /\ Goes("keyring") /\ UNCHANGED <<i, files>>

Keyring ==
    /\ At("keyring")
    /\ \/ FailsAndLeaves
       \/ Goes("key") /\ UNCHANGED <<i, ips, files>>

\* An existing key of that name is overwritten.
CoinKey ==
    /\ At("key")
    /\ \/ FailsAndRemoves
       \/ /\ keyOf' = [keyOf EXCEPT ![i] = <<run, i>>]
          /\ Goes("gentx") /\ UNCHANGED <<i, ips, gentxs, genesis, peers>>

\* Faulty variant: a file that is there already is kept.
writeFileKeeps(k) ==
    gentxs' = IF gentxs[k] # NoGentx THEN gentxs
              ELSE [gentxs EXCEPT ![k] = [key |-> keyOf[k], ip |-> ips[k + 1]]]

\* Faulty variant: every node's gentx has the same name.
writeFileSameName(k) == gentxs' = [gentxs EXCEPT ![0] = [key |-> keyOf[k], ip |-> ips[k + 1]]]

\* The gentx of node k, named after its directory.
writeFile(k) == gentxs' = [gentxs EXCEPT ![k] = [key |-> keyOf[k], ip |-> ips[k + 1]]]

\* Seed words, the signed gentx and app.toml; then the next node.
Gentx ==
    /\ At("gentx")
    /\ \/ FailsAndLeaves
       \/ /\ writeFile(i)
          /\ \/ Fails /\ UNCHANGED <<i, args>>
             \/ /\ i' = (i + 1) % n
                /\ Goes(IF i + 1 = n THEN "genesis" ELSE "dirs")
          /\ UNCHANGED <<ips, keyOf, genesis, peers>>

\* genAccounts and genBalances after the loop.
Accounts == {keyOf[j] : j \in 0..(n - 1)}

initGenFiles ==
    /\ At("genesis")
    /\ \/ FailsAndLeaves
       \/ /\ genesis' = [genesis EXCEPT ![i] = [accounts |-> Accounts, txs |-> {}]]
          /\ i' = (i + 1) % n
          /\ Goes(IF i + 1 = n THEN "collect" ELSE "genesis")
          /\ UNCHANGED <<ips, gentxs, keyOf, peers>>

\* genutil.GenAppStateFromConfig.
Collected == {j \in Nodes : gentxs[j] # NoGentx}
Collectable == \A j \in Collected : gentxs[j].key \in genesis[i].accounts

\* Each genesis file gets the application state that the first node collected.
collectGenFiles ==
    /\ At("collect")
    /\ \/ FailsAndLeaves
       \/ /\ ~Collectable
          /\ Goes("error") /\ UNCHANGED <<i, ips, files>>
       \/ /\ Collectable
          /\ genesis' = [genesis EXCEPT ![i] =
               IF i = 0 THEN [@ EXCEPT !.txs = {gentxs[j].key : j \in Collected}] ELSE genesis[0]]
          /\ peers' = [peers EXCEPT ![i] = {<<j, gentxs[j].ip>> : j \in Collected \ {i}}]
          /\ i' = (i + 1) % n
          /\ Goes(IF i + 1 = n THEN "done" ELSE "collect")
          /\ UNCHANGED <<ips, gentxs, keyOf>>

TNext ==
    \/ InitFilesCmd \/ NodeDir \/ Keyring \/ CoinKey \/ Gentx
    \/ initGenFiles \/ collectGenFiles

TSpec == TInit /\ [][TNext]_tvars

-----------------------------------------------------------------------------
(* Properties *)

\* After a successful run, whatever earlier runs left behind, all nodes have
\* the same genesis ("they should not differ"), with the accounts and the
\* gentxs of exactly this run's nodes, and every node knows every other one.
SuccessIsConsistent ==
    pc = "done" =>
      LET keys == {<<run, j>> : j \in 0..(n - 1)}
      IN \A k \in 0..(n - 1) :
           /\ keyOf[k] = <<run, k>>
           /\ genesis[k] = [accounts |-> keys, txs |-> keys]
           /\ peers[k] = {<<j, ips[j + 1]>> : j \in (0..(n - 1)) \ {k}}

\* Addresses counted up from a starting address differ, up to the end of the
\* byte: a network too large for it is refused, not wrapped around.
CountedAddressesDiffer ==
    list = << >> /\ start # External =>
      \A j, k \in 1..Len(ips) : j # k => ips[j] # ips[k]

\* A run in which no step fails, and whose addresses fit the byte, ends well
\* whatever an earlier run has left behind, unless that one was for more
\* validators: then the gentxs of the others are still there, and collecting
\* them fails because their accounts have no balance.
FaultFreeSucceeds ==
    pc = "error" => failed \/ (i < n /\ getIP(i) = Invalid) \/ n < largest
=============================================================================
