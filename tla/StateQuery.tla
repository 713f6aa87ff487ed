----------------------------- MODULE StateQuery -----------------------------
(***************************************************************************)
(* The state queries of an execution client: handleStateQuery, StateRoot   *)
(* and StateProof (app/state_transport.go) with getProof and its helpers   *)
(* (app/state_query_utils.go), while the chain goes on.                    *)
(*                                                                         *)
(* A version of the stores is the height of the block that made it; the    *)
(* header of block h carries the application hash of version h - 1.  The   *)
(* node's CometBFT, baseapp and pruning are outside the repository.        *)
(*                                                                         *)
(* Bytes are counted for the message; keys are sequences of 40-byte parts. *)
(* The keys of a request live in the buffer it was read into, behind the   *)
(* address: append(address, key...) writes into that buffer.               *)
(***************************************************************************)
EXTENDS Integers, Sequences

CONSTANTS Parts,       \* 40-byte strings: hashed addresses and slots
          Lengths,     \* lengths of messages
          Words,       \* 8-byte numbers are 0..Words-1
          MaxHeight,   \* bound: height of the chain
          KeepRecent   \* versions that pruning keeps

ASSUME StateQueryAssumption ==
    /\ Lengths \subseteq Nat
    /\ Words \in Nat \ {0} /\ Words % 2 = 0
    /\ MaxHeight \in Nat /\ KeepRecent \in Nat \ {0}

EthBlockNumberBytes == 8
EthBlockHashBytes == 32
SerializedHashedAccountsKeyBytes == 40
StorageKeyBytes == 80
Unknown == 0   \* no block has this hash

VARIABLES height,   \* last version committed
          saved,    \* last block stored
          phase,    \* where handleStateQuery is
          address, slots,  \* the buffer behind the block number or hash
          asked,    \* the storage keys as they were sent
          block,    \* BlockNumberOrHash, then the block's number
          answer,   \* the proofs gathered so far, the account's last
          root,     \* history: version of the last root answered for a block
          message,  \* history: the proof request being served or just refused
          alive

chain == <<height, saved>>
request == <<address, asked, block>>
NoMessage == [len |-> 0, spec |-> "other", keys |-> -1]
history == <<root, message>>
query == <<phase, slots, request, answer>>
vars == <<chain, query, history, alive>>

Init ==
    /\ height = 2 /\ saved = 2
    /\ phase = "read" /\ alive = TRUE
    /\ address \in Parts
    /\ slots = << >> /\ asked = << >> /\ block = Unknown
    /\ answer = << >> /\ root = 0
    /\ message = NoMessage

-----------------------------------------------------------------------------
(* The chain *)

\* CometBFT stores a block, and later the application commits its version.
SaveBlock ==
    /\ saved = height /\ height < MaxHeight
    /\ saved' = saved + 1
    /\ UNCHANGED <<height, query, history, alive>>

Commit ==
    /\ saved > height
    /\ height' = height + 1
    /\ UNCHANGED <<saved, query, history, alive>>

\* What a proof is of: a key and a version.
Proof(key, h) == [version |-> h, key |-> key]

\* baseapp and the stores answer for the versions they still have.
Available(h) == h <= height /\ h > height - KeepRecent

\* A query of a key in version h; a height of zero asks for the latest version,
\* and a proof needs a version above one.  The empty set is an error.
QueryABCI(key, h) ==
    LET version == IF h = 0 THEN height ELSE h
    IN IF version > 1 /\ Available(version) THEN {Proof(key, version)} ELSE {}

-----------------------------------------------------------------------------
(* handleStateQuery *)

\* int64(binary.BigEndian.Uint64(...))
Int64(w) == IF w < Words \div 2 THEN w ELSE w - Words

BlockSpecBytes(spec) == IF spec = "number" THEN EthBlockNumberBytes ELSE EthBlockHashBytes

\* Faulty variant: the division comes without the check of the remainder.
NoOfStorageKeysUnchecked(len, spec) ==
    LET rest == len - 2 - BlockSpecBytes(spec) - SerializedHashedAccountsKeyBytes
    IN IF spec = "other" \/ rest < 0 THEN -1 ELSE rest \div StorageKeyBytes

\* How many storage keys a proof request has, -1 when it is refused.
NoOfStorageKeys(len, spec) ==
    LET rest == len - 2 - BlockSpecBytes(spec) - SerializedHashedAccountsKeyBytes
    IN IF spec = "other" \/ rest < 0 \/ rest % StorageKeyBytes # 0
       THEN -1
       ELSE rest \div StorageKeyBytes

\* The response is written and the buffer is given up.
Respond ==
    /\ phase' = "read"
    /\ slots' = << >> /\ asked' = << >> /\ block' = Unknown /\ answer' = << >>
    /\ UNCHANGED address

\* Faulty variant: the hash is taken for that of the block's own version.
StateRootOwn(h) == h \in 1..saved /\ root' = h

\* The application hash in the header of block h, if it is stored.  What is
\* below -1 is refused; for -1 the answer is the working hash, of no version.
StateRoot(h) == h \in 1..saved /\ root' = h - 1

\* OP_STATE_ROOT.  The CometBFT client, or its answer, may fail at any height.
ReceiveRoot ==
    /\ alive /\ phase = "read"
    /\ \/ \E len \in Lengths \ {1 + EthBlockNumberBytes} : UNCHANGED root
       \/ /\ 1 + EthBlockNumberBytes \in Lengths
          /\ \E w \in 0..(Words - 1) : StateRoot(Int64(w)) \/ UNCHANGED root
    /\ Respond
    /\ message' = NoMessage
    /\ UNCHANGED <<chain, alive>>

\* OP_STATE_PROOF; the number or hash of a block is decoded here, and the hash
\* is looked up next.
ReceiveProof ==
    /\ alive /\ phase = "read"
    /\ \E len \in Lengths, spec \in {"number", "hash", "other"} :
         LET n == NoOfStorageKeys(len, spec)
         IN /\ message' = [len |-> len, spec |-> spec, keys |-> n]
            /\ \/ n < 0 /\ Respond
               \/ /\ n >= 0
                  /\ address' \in Parts
                  /\ slots' \in [1..n -> Parts \X Parts]
                  /\ asked' = slots'
                  /\ \E w \in 0..(Words - 1) :
                       block' = IF spec = "number" THEN Int64(w) ELSE w
                  /\ phase' = IF spec = "number" THEN "byNumber" ELSE "byHash"
                  /\ answer' = << >>
    /\ UNCHANGED <<chain, root, alive>>

-----------------------------------------------------------------------------
(* StateProof and getProof *)

\* An error of any call ends the request.
Refuse == Respond /\ message' = NoMessage

\* The client is made and the block's number found.  A hash that no stored
\* block has comes back without a block: a nil pointer.
blockNumberFromTendermint ==
    /\ alive /\ phase \in {"byNumber", "byHash"}
    /\ \/ Refuse /\ UNCHANGED alive
       \/ /\ phase = "byNumber" \/ block \in 1..saved
          /\ phase' = "storage"
          /\ UNCHANGED <<slots, request, answer, message, alive>>
       \/ /\ phase = "byHash" /\ block \notin 1..saved
          /\ alive' = FALSE
          /\ UNCHANGED <<query, message>>
    /\ UNCHANGED <<chain, root>>

\* Faulty variant: every height is passed on.
getProofForKeyUnguarded(key) == QueryABCI(key, block)

\* A query of one key at the block's height.
getProofForKey(key) == IF block <= 2 THEN {} ELSE QueryABCI(key, block)

Done == Len(answer)

\* Faulty variant: the storage keys are taken from the last to the first.
NextStorageKeyReversed == Len(slots) - Done

NextStorageKey == Done + 1

\* append(address, key...) puts the key where the first one is.
StorageProof ==
    /\ alive /\ phase = "storage" /\ Done < Len(slots)
    /\ LET key == slots[NextStorageKey]
       IN \/ Refuse
          \/ /\ \E f \in getProofForKey(<<address>> \o key) : answer' = Append(answer, f)
             /\ slots' = [slots EXCEPT ![1] = key]
             /\ UNCHANGED <<phase, request, message>>
    /\ UNCHANGED <<chain, root, alive>>

AccountProof ==
    /\ alive /\ phase = "storage" /\ Done = Len(slots)
    /\ \/ Refuse
       \/ /\ \E f \in getProofForKey(<<address>>) : answer' = Append(answer, f)
          /\ phase' = "send"
          /\ UNCHANGED <<slots, request, message>>
    /\ UNCHANGED <<chain, root, alive>>

\* The account's result is encoded and written.
SendProofs ==
    /\ alive /\ phase = "send"
    /\ Respond /\ message' = NoMessage
    /\ UNCHANGED <<chain, root, alive>>

Next ==
    \/ SaveBlock \/ Commit
    \/ ReceiveRoot \/ ReceiveProof
    \/ blockNumberFromTendermint \/ StorageProof \/ AccountProof \/ SendProofs

Spec == Init /\ [][Next]_vars

-----------------------------------------------------------------------------
(* Properties *)

\* The i-th proof is of the i-th key that was asked for, although every query
\* overwrites the first key in the buffer, and the account's comes last.  What
\* is sent has all of them: one failing query refuses the whole request.
ProofsMatchRequest ==
    /\ \A i \in 1..Done :
         answer[i].key = IF i <= Len(asked) THEN <<address>> \o asked[i] ELSE <<address>>
    /\ phase = "send" => Done = Len(asked) + 1

\* Though blocks are committed and versions pruned between the queries of one
\* request, its proofs are all of one version: the committed one of the block
\* that was named, and never of whatever is the latest.
ProofsOfOneVersion ==
    \A i \in 1..Done : answer[i].version = block /\ block \in 1..height

\* The root that is answered for a stored block is of a version the stores have
\* committed, so that proofs against it can be asked for, even if the block was
\* stored and its own version is not there yet.
RootsAreCommitted == root \in 0..height

\* A proof request is taken if and only if it holds a block, an address and
\* whole storage keys: then nothing of the message is left over.
DecodesWholeMessages ==
    \A n \in 0..message.len :
      message.keys = n <=>
        /\ message.spec # "other"
        /\ message.len = 2 + BlockSpecBytes(message.spec)
                          + SerializedHashedAccountsKeyBytes + n * StorageKeyBytes
=============================================================================
