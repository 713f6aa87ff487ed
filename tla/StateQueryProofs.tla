--------------------------- MODULE StateQueryProofs ---------------------------
(***************************************************************************)
(* What holds of the state queries (StateQuery) for any keys, message      *)
(* lengths, chain heights and pruning.                                     *)
(***************************************************************************)
EXTENDS StateQuery, SequenceTheorems, TLAPS

Key == Parts \X Parts

\* What getProofForKey can answer for a storage key or an account.
Answers == {Proof(<<a>> \o k, h) : a \in Parts, k \in Key, h \in Int}
             \cup {Proof(<<a>>, h) : a \in Parts, h \in Int}

\* The keys still to be taken are the ones that were sent; only the first place
\* of the buffer, whose key is taken first, is ever overwritten.
BufferOK ==
    /\ phase \in {"read", "byNumber", "byHash", "storage", "send"}
    /\ address \in Parts /\ block \in Int
    /\ slots \in Seq(Key) /\ asked \in Seq(Key) /\ Len(slots) = Len(asked)
    /\ answer \in Seq(Answers)
    /\ phase \notin {"storage", "send"} => answer = << >>
    /\ phase = "storage" => Done <= Len(asked)
    /\ \A i \in (Done + 1)..Len(asked) : slots[i] = asked[i]

\* The chain grows: a block is stored at most one ahead of the last version.
ChainOK == height \in Nat /\ saved \in Nat /\ saved <= height + 1

\* The request being served is what NoOfStorageKeys made of its length.
MessageOK ==
    \/ message = NoMessage
    \/ \E len \in Nat, spec \in {"number", "hash", "other"} :
         message = [len |-> len, spec |-> spec, keys |-> NoOfStorageKeys(len, spec)]

IInv ==
    /\ BufferOK /\ ChainOK /\ MessageOK
    /\ ProofsMatchRequest /\ ProofsOfOneVersion /\ RootsAreCommitted

-----------------------------------------------------------------------------
(* Operators *)

\* Numbers of blocks are integers, whatever the eight bytes were.
LEMMA Int64Type == \A w \in 0..(Words - 1) : Int64(w) \in Int /\ w \in Int
BY StateQueryAssumption DEF Int64

\* A request is refused, or has a whole number of storage keys.
LEMMA NoOfStorageKeysType ==
    ASSUME NEW len \in Nat, NEW spec
    PROVE  NoOfStorageKeys(len, spec) \in Nat \cup {-1}
BY DEF NoOfStorageKeys, BlockSpecBytes, EthBlockNumberBytes, EthBlockHashBytes,
   SerializedHashedAccountsKeyBytes, StorageKeyBytes

\* A request has n storage keys if and only if its length is that of the block,
\* the address and n keys.
LEMMA NoOfStorageKeysExact ==
    ASSUME NEW len \in Nat, NEW spec \in {"number", "hash", "other"}, NEW n \in Nat
    PROVE  NoOfStorageKeys(len, spec) = n <=>
             /\ spec # "other"
             /\ len = 2 + BlockSpecBytes(spec) + SerializedHashedAccountsKeyBytes
                        + n * StorageKeyBytes
BY DEF NoOfStorageKeys, BlockSpecBytes, EthBlockNumberBytes, EthBlockHashBytes,
   SerializedHashedAccountsKeyBytes, StorageKeyBytes

\* A response empties the buffer.
LEMMA RespondKeeps ==
    ASSUME IInv, Respond
    PROVE  BufferOK' /\ ProofsMatchRequest' /\ ProofsOfOneVersion'
<1>1. << >> \in Seq(Key) /\ << >> \in Seq(Answers) /\ Len(<< >>) = 0
  BY EmptySeq
<1>2. /\ phase' = "read" /\ slots' = << >> /\ asked' = << >> /\ answer' = << >>
      /\ block' = 0 /\ address' \in Parts /\ Done' = 0
  BY <1>1 DEF Respond, Unknown, IInv, BufferOK, Done
<1>. QED
  BY <1>1, <1>2 DEF BufferOK, ProofsMatchRequest, ProofsOfOneVersion

-----------------------------------------------------------------------------
(* The steps *)

\* The initial states.
LEMMA InitInv == Init => IInv
<1>. SUFFICES ASSUME Init PROVE IInv
  OBVIOUS
<1>1. << >> \in Seq(Key) /\ << >> \in Seq(Answers) /\ Len(<< >>) = 0
  BY EmptySeq
<1>2. BufferOK /\ ProofsMatchRequest /\ ProofsOfOneVersion
  BY <1>1 DEF Init, BufferOK, ProofsMatchRequest, ProofsOfOneVersion, Done, Unknown
<1>3. ChainOK /\ MessageOK /\ RootsAreCommitted
  BY DEF Init, ChainOK, MessageOK, RootsAreCommitted
<1>. QED
  BY <1>2, <1>3 DEF IInv

\* The chain goes on between two queries: what was committed stays so.
LEMMA ChainKeeps ==
    ASSUME IInv, SaveBlock \/ Commit \/ UNCHANGED vars
    PROVE  IInv'
<1>1. UNCHANGED <<query, history>>
  BY DEF SaveBlock, Commit, vars
<1>2. BufferOK' /\ MessageOK' /\ ProofsMatchRequest'
  BY <1>1 DEF IInv, query, request, history, BufferOK, MessageOK, ProofsMatchRequest, Done
<1>3. ChainOK' /\ height' >= height
  BY DEF IInv, ChainOK, SaveBlock, Commit, vars, chain
<1>4. RootsAreCommitted'
  BY <1>1, <1>3 DEF IInv, ChainOK, RootsAreCommitted, history
<1>5. ProofsOfOneVersion'
  BY <1>1, <1>3 DEF IInv, ChainOK, ProofsOfOneVersion, Done, query, request
<1>. QED
  BY <1>2, <1>3, <1>4, <1>5 DEF IInv

\* Nothing but the chain's own steps changes the chain.
LEMMA ChainStays ==
    ASSUME IInv, UNCHANGED <<chain, root>>
    PROVE  ChainOK' /\ RootsAreCommitted'
BY DEF IInv, ChainOK, RootsAreCommitted, chain

\* A refused request.
LEMMA RefuseKeeps ==
    ASSUME IInv, Refuse, UNCHANGED <<chain, root>>
    PROVE  IInv'
<1>1. MessageOK'
  BY DEF Refuse, MessageOK
<1>. QED
  BY <1>1, RespondKeeps, ChainStays DEF IInv, Refuse

\* OP_STATE_ROOT: the header of a stored block is of a committed version.
LEMMA ReceiveRootKeeps ==
    ASSUME IInv, ReceiveRoot
    PROVE  IInv'
<1>1. BufferOK' /\ ProofsMatchRequest' /\ ProofsOfOneVersion'
  BY RespondKeeps DEF ReceiveRoot
<1>2. root' = root \/ \E h \in 1..saved : root' = h - 1
  BY DEF ReceiveRoot, StateRoot
<1>3. ChainOK' /\ MessageOK' /\ height' = height
  BY DEF IInv, ChainOK, chain, MessageOK, ReceiveRoot
<1>4. RootsAreCommitted'
  BY <1>2, <1>3 DEF IInv, ChainOK, RootsAreCommitted
<1>. QED
  BY <1>1, <1>3, <1>4 DEF IInv

\* OP_STATE_PROOF: the keys are in the buffer as they were sent.
LEMMA ReceiveProofKeeps ==
    ASSUME IInv, ReceiveProof
    PROVE  IInv'
<1>1. PICK len \in Lengths, spec \in {"number", "hash", "other"} :
        LET n == NoOfStorageKeys(len, spec)
        IN /\ message' = [len |-> len, spec |-> spec, keys |-> n]
           /\ \/ n < 0 /\ Respond
              \/ /\ n >= 0
                 /\ address' \in Parts
                 /\ slots' \in [1..n -> Key]
                 /\ asked' = slots'
                 /\ \E w \in 0..(Words - 1) : block' = IF spec = "number" THEN Int64(w) ELSE w
                 /\ phase' = IF spec = "number" THEN "byNumber" ELSE "byHash"
                 /\ answer' = << >>
  BY DEF ReceiveProof, Key
<1>2. len \in Nat /\ NoOfStorageKeys(len, spec) \in Nat \cup {-1}
  BY <1>1, StateQueryAssumption, NoOfStorageKeysType
<1>3. MessageOK' /\ ChainOK' /\ RootsAreCommitted'
  <2>1. MessageOK'
    BY <1>1, <1>2 DEF MessageOK
  <2>. QED
    BY <2>1, ChainStays DEF ReceiveProof
<1>4. BufferOK' /\ ProofsMatchRequest' /\ ProofsOfOneVersion'
  <2>1. CASE Respond
    BY <2>1, RespondKeeps
  <2>2. CASE ~Respond
    <3>. DEFINE n == NoOfStorageKeys(len, spec)
    <3>1. /\ n \in Nat /\ address' \in Parts /\ slots' \in [1..n -> Key] /\ asked' = slots'
          /\ block' \in Int /\ phase' \in {"byNumber", "byHash"} /\ answer' = << >>
      BY <1>1, <1>2, <2>2, Int64Type
    <3>2. slots' \in Seq(Key)
      BY <3>1, SeqDef
    <3>3. answer' \in Seq(Answers) /\ Done' = 0
      BY <3>1, EmptySeq DEF Done
    <3>4. Len(slots') \in Nat
      BY <3>2, LenProperties
    <3>. QED
      BY <3>1, <3>2, <3>3, <3>4 DEF BufferOK, ProofsMatchRequest, ProofsOfOneVersion
  <2>. QED
    BY <2>1, <2>2
<1>. QED
  BY <1>3, <1>4 DEF IInv

\* The number of the block.
LEMMA BlockNumberKeeps ==
    ASSUME IInv, blockNumberFromTendermint
    PROVE  IInv'
<1>1. UNCHANGED <<chain, root>> /\ phase \in {"byNumber", "byHash"}
  BY DEF blockNumberFromTendermint
<1>2. CASE Refuse
  BY <1>1, <1>2, RefuseKeeps
<1>3. CASE ~Refuse
  <2>1. UNCHANGED <<slots, request, answer, message>> /\ phase' \in {"storage", phase}
    BY <1>3 DEF blockNumberFromTendermint, query
  <2>2. MessageOK' /\ ChainOK' /\ RootsAreCommitted'
    BY <1>1, <2>1, ChainStays DEF IInv, MessageOK
  <2>3. answer = << >> /\ Len(asked) \in Nat /\ Done = 0 /\ Done' = 0
    BY <1>1, <2>1, EmptySeq, LenProperties DEF IInv, BufferOK, Done
  <2>4. BufferOK'
    BY <1>1, <2>1, <2>3 DEF IInv, BufferOK, request
  <2>5. ProofsMatchRequest' /\ ProofsOfOneVersion'
    BY <1>1, <2>1, <2>3 DEF ProofsMatchRequest, ProofsOfOneVersion
  <2>. QED
    BY <2>2, <2>4, <2>5 DEF IInv
<1>. QED
  BY <1>2, <1>3

\* A query is answered at the height of the block, which is then committed: the
\* check for heights up to two keeps out the zero that stands for the latest.
LEMMA GetProofForKey ==
    ASSUME IInv, NEW key, NEW f \in getProofForKey(key)
    PROVE  f = [version |-> block, key |-> key] /\ block \in 1..height
<1>1. block \in Int /\ height \in Nat
  BY DEF IInv, BufferOK, ChainOK
<1>2. block > 2 /\ f \in QueryABCI(key, block)
  BY <1>1 DEF getProofForKey
<1>3. f = Proof(key, block) /\ Available(block)
  BY <1>1, <1>2 DEF QueryABCI
<1>. QED
  BY <1>1, <1>2, <1>3 DEF Proof, Available

\* One more proof, of the key at its place and of the block's version.
LEMMA AppendKeeps ==
    ASSUME IInv, NEW f \in Answers, answer' = Append(answer, f), UNCHANGED <<chain, request>>,
           phase = "storage", phase' \in {"storage", "send"},
           phase' = "send" <=> Done = Len(asked),
           f.version = block, block \in 1..height,
           f.key = IF Done < Len(asked) THEN <<address>> \o asked[Done + 1] ELSE <<address>>
    PROVE  /\ answer' \in Seq(Answers) /\ Done \in Nat /\ Done' = Done + 1
           /\ ProofsMatchRequest' /\ ProofsOfOneVersion'
<1>1. /\ answer \in Seq(Answers) /\ Done \in Nat /\ Len(asked) \in Nat /\ Done <= Len(asked)
      /\ UNCHANGED <<address, asked, block, height>>
  BY LenProperties DEF IInv, BufferOK, Done, request, chain
<1>2. /\ answer' \in Seq(Answers) /\ Done' = Done + 1 /\ answer'[Done + 1] = f
      /\ \A i \in 1..Done : answer'[i] = answer[i]
  BY <1>1, AppendProperties DEF Done
<1>3. \A i \in 1..Done' : i = Done + 1 \/ i \in 1..Done
  <2>. HIDE DEF Done
  <2>. QED
    BY <1>1, <1>2
<1>4. ProofsMatchRequest'
  <2>1. ASSUME NEW i \in 1..Done'
        PROVE  answer'[i].key = IF i <= Len(asked) THEN <<address>> \o asked[i] ELSE <<address>>
    <3>1. CASE i = Done + 1
      <4>1. i <= Len(asked) <=> Done < Len(asked)
        BY <1>1, <3>1
      <4>2. answer'[i] = f
        BY <1>2, <3>1
      <4>. QED
        BY <3>1, <4>1, <4>2
    <3>2. CASE i \in 1..Done
      BY <1>2, <3>2 DEF IInv, ProofsMatchRequest
    <3>. QED
      BY <1>3, <3>1, <3>2
  <2>. QED
    BY <1>1, <1>2, <2>1 DEF ProofsMatchRequest
<1>5. ProofsOfOneVersion'
  <2>. SUFFICES ASSUME NEW i \in 1..Done'
                PROVE  answer'[i].version = block /\ block \in 1..height
    BY <1>1 DEF ProofsOfOneVersion
  <2>1. CASE i = Done + 1
    BY <1>2, <2>1
  <2>2. CASE i \in 1..Done
    BY <1>2, <2>2 DEF IInv, ProofsOfOneVersion
  <2>. QED
    BY <1>3, <2>1, <2>2
<1>. QED
  BY <1>1, <1>2, <1>4, <1>5

\* A storage key is taken and its query overwrites the first place.
LEMMA StorageProofKeeps ==
    ASSUME IInv, StorageProof
    PROVE  IInv'
<1>1. UNCHANGED <<chain, root>> /\ phase = "storage"
  BY DEF StorageProof
<1>2. CASE Refuse
  BY <1>1, <1>2, RefuseKeeps
<1>3. CASE ~Refuse
  <2>. DEFINE key == slots[Done + 1]
  <2>1. PICK f \in getProofForKey(<<address>> \o key) :
          /\ Done < Len(slots) /\ answer' = Append(answer, f)
          /\ slots' = [slots EXCEPT ![1] = key] /\ UNCHANGED <<phase, request, message>>
    BY <1>3 DEF StorageProof, NextStorageKey
  <2>2. /\ slots \in Seq(Key) /\ asked \in Seq(Key) /\ Len(slots) = Len(asked) /\ Len(slots) \in Nat
        /\ Done \in Nat /\ address \in Parts /\ block \in Int
        /\ \A i \in (Done + 1)..Len(asked) : slots[i] = asked[i]
    BY LenProperties DEF IInv, BufferOK, Done
  <2>3. Done + 1 \in 1..Len(slots) /\ 1 \in 1..Len(slots)
    BY <2>1, <2>2
  <2>4. key \in Key /\ key = asked[Done + 1]
    BY <2>2, <2>3, ElementOfSeq
  <2>5. f = [version |-> block, key |-> <<address>> \o key] /\ block \in 1..height
    BY <2>1, GetProofForKey
  <2>. HIDE DEF key
  <2>6. f \in Answers
    <3>1. f = Proof(<<address>> \o key, block)
      BY <2>5 DEF Proof
    <3>. QED
      BY <2>2, <2>4, <3>1, SMTT(30) DEF Answers
  <2>7. /\ slots' \in Seq(Key) /\ Len(slots') = Len(slots)
        /\ \A j \in 1..Len(slots) : slots'[j] = IF j = 1 THEN key ELSE slots[j]
    BY <2>1, <2>2, <2>3, <2>4, ExceptSeq
  <2>8. /\ answer' \in Seq(Answers) /\ Done' = Done + 1
        /\ ProofsMatchRequest' /\ ProofsOfOneVersion'
    <3>1. f.version = block /\ f.key = <<address>> \o asked[Done + 1]
      BY <2>4, <2>5
    <3>2. Done < Len(asked) /\ Done # Len(asked)
      BY <2>1, <2>2
    <3>. QED
      BY <1>1, <2>1, <2>5, <2>6, <3>1, <3>2, AppendKeeps
  <2>9. BufferOK'
    BY <1>1, <2>1, <2>2, <2>3, <2>7, <2>8 DEF BufferOK, request
  <2>10. MessageOK' /\ ChainOK' /\ RootsAreCommitted'
    BY <1>1, <2>1, ChainStays DEF IInv, MessageOK
  <2>. QED
    BY <2>8, <2>9, <2>10 DEF IInv
<1>. QED
  BY <1>2, <1>3

\* The account's own proof is the last.
LEMMA AccountProofKeeps ==
    ASSUME IInv, AccountProof
    PROVE  IInv'
<1>1. UNCHANGED <<chain, root>> /\ phase = "storage"
  BY DEF AccountProof
<1>2. CASE Refuse
  BY <1>1, <1>2, RefuseKeeps
<1>3. CASE ~Refuse
  <2>1. PICK f \in getProofForKey(<<address>>) :
          /\ Done = Len(slots) /\ answer' = Append(answer, f)
          /\ phase' = "send" /\ UNCHANGED <<slots, request, message>>
    BY <1>3 DEF AccountProof
  <2>2. /\ Len(slots) = Len(asked) /\ Len(asked) \in Nat /\ address \in Parts /\ block \in Int
    BY LenProperties DEF IInv, BufferOK
  <2>3. f = [version |-> block, key |-> <<address>>] /\ block \in 1..height
    BY <2>1, GetProofForKey
  <2>4. f \in Answers
    <3>1. f = Proof(<<address>>, block)
      BY <2>3 DEF Proof
    <3>. QED
      BY <2>2, <3>1, SMTT(30) DEF Answers
  <2>5. f.version = block /\ f.key = <<address>> /\ ~(Done < Len(asked)) /\ Done = Len(asked)
    BY <2>1, <2>2, <2>3
  <2>6. /\ answer' \in Seq(Answers) /\ Done \in Nat /\ Done' = Done + 1
        /\ ProofsMatchRequest' /\ ProofsOfOneVersion'
    BY <1>1, <2>1, <2>3, <2>4, <2>5, AppendKeeps
  <2>7. BufferOK'
    BY <1>1, <2>1, <2>2, <2>6 DEF IInv, BufferOK, request
  <2>8. MessageOK' /\ ChainOK' /\ RootsAreCommitted'
    BY <1>1, <2>1, ChainStays DEF IInv, MessageOK
  <2>. QED
    BY <2>6, <2>7, <2>8 DEF IInv
<1>. QED
  BY <1>2, <1>3

\* The answer is written.
LEMMA SendProofsKeeps ==
    ASSUME IInv, SendProofs
    PROVE  IInv'
BY RefuseKeeps DEF SendProofs, Refuse

-----------------------------------------------------------------------------
(* The theorems *)

\* The inductive invariant of the state queries.
THEOREM Invariance == Spec => []IInv
<1>1. IInv /\ [Next]_vars => IInv'
  BY ChainKeeps, ReceiveRootKeeps, ReceiveProofKeeps, BlockNumberKeeps, StorageProofKeeps,
     AccountProofKeeps, SendProofsKeeps DEF Next
<1>. QED
  BY <1>1, InitInv, PTL DEF Spec

\* Every proof of an answer is of the key that was asked for at its place,
\* although append writes into the request, and what is sent has all of them.
THEOREM ProofsMatch == Spec => []ProofsMatchRequest
<1>1. IInv => ProofsMatchRequest
  BY DEF IInv
<1>. QED
  BY <1>1, Invariance, PTL

\* The proofs of one answer are of one committed version, the block's, however
\* many blocks are committed and versions pruned between its queries.
THEOREM ProofsOneVersion == Spec => []ProofsOfOneVersion
<1>1. IInv => ProofsOfOneVersion
  BY DEF IInv
<1>. QED
  BY <1>1, Invariance, PTL

\* A root that was answered for a block is of a committed version.
THEOREM RootsCommitted == Spec => []RootsAreCommitted
<1>1. IInv => RootsAreCommitted
  BY DEF IInv
<1>. QED
  BY <1>1, Invariance, PTL

\* A proof request is taken exactly when nothing of its message is left over,
\* for messages of every length.
THEOREM WholeMessagesDecoded == Spec => []DecodesWholeMessages
<1>1. IInv => DecodesWholeMessages
  <2>. SUFFICES ASSUME IInv, NEW n \in 0..message.len
                PROVE  message.keys = n <=>
                         /\ message.spec # "other"
                         /\ message.len = 2 + BlockSpecBytes(message.spec)
                                          + SerializedHashedAccountsKeyBytes + n * StorageKeyBytes
    BY DEF DecodesWholeMessages
  <2>1. CASE message = NoMessage
    BY <2>1 DEF NoMessage
  <2>2. CASE message # NoMessage
    <3>1. PICK len \in Nat, spec \in {"number", "hash", "other"} :
            message = [len |-> len, spec |-> spec, keys |-> NoOfStorageKeys(len, spec)]
      BY <2>2 DEF IInv, MessageOK
    <3>2. n \in Nat /\ message.len = len /\ message.spec = spec
          /\ message.keys = NoOfStorageKeys(len, spec)
      BY <3>1
    <3>. QED
      BY <3>2, NoOfStorageKeysExact
  <2>. QED
    BY <2>1, <2>2
<1>. QED
  BY <1>1, Invariance, PTL
=============================================================================
