------------------------------ MODULE MCCommands ------------------------------
(***************************************************************************)
(* The two commands that write genesis files, for TLC: `testnet            *)
(* init-files`, repeatedly, or one `export`.                               *)
(***************************************************************************)
EXTENDS TestnetFiles, GenesisExport

\* No list, a good one for two nodes, and one with a bad address.
AddressLists == {<< >>, <<1, 2>>, <<1, Invalid>>}

NoExport ==
    /\ stage = "stopped" /\ result = "none"
    /\ zero = FALSE /\ allowed = {} /\ dels = {}
    /\ commission = [v \in Validators |-> 0] /\ reward = [d \in Delegations |-> 0]
    /\ scraps = [v \in Validators |-> 0] /\ paid = 0 /\ pool = 0
    /\ ctxHeight = 0 /\ history = {} /\ since = [d \in Delegations |-> 0]
    /\ created = 0 /\ unbonding = [v \in Validators |-> 0]
    /\ jailed = {} /\ powers = {} /\ active = {}
    /\ missed = FALSE /\ closeFailed = FALSE

Init == TInit /\ (EInit \/ NoExport)

\* One of the two: the commands share nothing.
Next ==
    \/ TNext /\ result = "none" /\ stage = "stopped" /\ UNCHANGED evars
    \/ ENext /\ UNCHANGED tvars

Spec == Init /\ [][Next]_<<tvars, evars>>
=============================================================================
