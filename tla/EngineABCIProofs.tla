-------------------------- MODULE EngineABCIProofs --------------------------
(***************************************************************************)
(* Proofs about EngineABCI for any validators, quorums, payloads, heights  *)
(* and number of faults.  The inductive invariant IInv follows a payload   *)
(* from the proposer's head through the votes to the decision, and says of *)
(* every block an execution client holds, wants or has for its head where  *)
(* it comes from.                                                          *)
(***************************************************************************)
EXTENDS EngineABCI, SequenceTheorems, TLAPS

\* What consensus has agreed on, genesis included.
Agreed == Decisions \cup {Genesis}

\* How far a round is: nobody votes before there is a proposal, and there is a
\* height left.
RoundOK ==
    /\ proposer = NoValidator => proposal = NoBlock
    /\ proposer # NoValidator => Len(decided) < MaxHeight
    /\ proposal = NoBlock => \A v \in Validators : vote[v] = "none"

\* What the round is built on.
ProposalOK ==
    /\ latest # NoBlock => latest \in Agreed /\ ~Invalid(latest)
    /\ proposal \notin {NoBlock, Unusable} => Parent(proposal) \in Agreed

\* What an acceptance stands for.
VotesOK ==
    \A v \in Validators :
      vote[v] = "accept" =>
        /\ proposal # Unusable
        /\ Invalid(proposal) \/ proposal \in held[v]

\* Execution clients have genesis, the blocks their head is built on, and no
\* INVALID block; what they sync to was decided.
ClientsOK ==
    \A v \in Validators :
      /\ Genesis \in held[v]
      /\ head[v] \in Executed(v)
      /\ \A b \in held[v] : ~Invalid(b)
      /\ want[v] # NoBlock => want[v] \in Agreed

\* Consensus has agreed on every ancestor of a block it agreed on: under the
\* number it was told a proposer finds such an ancestor, even when the chain of
\* its execution client has changed since.
AncestorsAgreed ==
    \A b \in Agreed : \A n \in 0..Len(b) : SubSeq(b, 1, n) \in Agreed

IInv ==
    /\ TypeOK /\ RoundOK /\ ProposalOK /\ VotesOK /\ ClientsOK /\ AncestorsAgreed
    /\ UnusableNeverDecided /\ DecidedIsHeld /\ HeadIsDecided /\ SafeIsAncestor

-----------------------------------------------------------------------------
(* Blocks *)

\* Genesis is a block and nothing precedes it.
LEMMA GenesisFacts ==
    Genesis \in Block /\ Len(Genesis) = 0 /\ ~Invalid(Genesis)
BY EmptySeq DEF Genesis, Block, Invalid

\* A prefix of a block is a block, and an ancestor of it.
LEMMA Prefixes ==
    ASSUME NEW b \in Block, NEW n \in Nat, n <= Len(b)
    PROVE  SubSeq(b, 1, n) \in Block /\ Ancestor(SubSeq(b, 1, n), b)
<1>1. Len(b) \in Nat /\ \A i \in 1..n : b[i] \in Payload
  BY LenProperties, ElementOfSeq DEF Block
<1>2. SubSeq(b, 1, n) \in Block /\ Len(SubSeq(b, 1, n)) = n
  BY <1>1, SubSeqProperties DEF Block
<1>. QED
  BY <1>1, <1>2 DEF Ancestor

\* The parent of a block is a block and an ancestor of it, and so is every
\* block of itself.
LEMMA ParentFacts ==
    ASSUME NEW b \in Block
    PROVE  Parent(b) \in Block /\ Ancestor(Parent(b), b) /\ Ancestor(b, b)
<1>1. Len(b) \in Nat
  BY LenProperties DEF Block
<1>2. SubSeq(b, 1, Len(b)) = b
  BY SubSeqFull DEF Block
<1>3. CASE Len(b) = 0
  <2>1. b = Genesis
    BY <1>3, EmptySeq DEF Block, Genesis
  <2>2. Parent(b) = Genesis
    BY <1>3, SubSeqEmpty DEF Parent, Genesis
  <2>. QED
    BY <1>1, <1>2, <2>1, <2>2, GenesisFacts DEF Ancestor
<1>4. CASE Len(b) > 0
  BY <1>1, <1>2, <1>4, Prefixes DEF Parent, Ancestor
<1>. QED
  BY <1>1, <1>3, <1>4

\* The payload of a proposal has the head it was built on for its parent.
LEMMA BuiltOn ==
    ASSUME NEW b \in Block, NEW p \in Payload
    PROVE  Append(b, p) \in Block /\ Parent(Append(b, p)) = b
<1>1. /\ Append(b, p) \in Block /\ Len(Append(b, p)) = Len(b) + 1
      /\ Append(b, p) = b \o <<p>> /\ Len(b) \in Nat
  BY AppendProperties, AppendIsConcat, LenProperties DEF Block
<1>2. SubSeq(Append(b, p), 1, Len(b)) = b
  <2>1. \A i \in 1..Len(b) : Append(b, p)[i] = b[i] /\ b[i] \in Payload
    BY AppendProperties, ElementOfSeq DEF Block
  <2>2. /\ SubSeq(Append(b, p), 1, Len(b)) \in Seq(Payload)
        /\ Len(SubSeq(Append(b, p), 1, Len(b))) = Len(b)
        /\ \A i \in 1..Len(b) : SubSeq(Append(b, p), 1, Len(b))[i] = b[i]
    <3>1. /\ SubSeq(Append(b, p), 1, Len(b)) \in Seq(Payload)
          /\ Len(SubSeq(Append(b, p), 1, Len(b))) = (IF 1 <= Len(b) THEN Len(b) - 1 + 1 ELSE 0)
          /\ \A i \in 1..(Len(b) - 1 + 1) : SubSeq(Append(b, p), 1, Len(b))[i] = Append(b, p)[1 + i - 1]
      BY <1>1, <2>1, SubSeqProperties
    <3>. QED
      BY <1>1, <2>1, <3>1
  <2>. QED
    BY <2>2, SeqEqual DEF Block
<1>. QED
  BY <1>1, <1>2 DEF Parent

\* The ancestors of a block are itself and the ancestors of its parent.
LEMMA PrefixOfParent ==
    ASSUME NEW b \in Block, NEW n \in 0..Len(b)
    PROVE  \/ SubSeq(b, 1, n) = b
           \/ n \in 0..Len(Parent(b)) /\ SubSeq(b, 1, n) = SubSeq(Parent(b), 1, n)
<1>1. Len(b) \in Nat
  BY LenProperties DEF Block
<1>2. CASE n = Len(b)
  BY <1>2, SubSeqFull DEF Block
<1>3. CASE n < Len(b)
  <2>. DEFINE p == Parent(b)
              m == Len(b) - 1
  <2>1. m \in Nat /\ n \in 0..m /\ \A i \in 1..Len(b) : b[i] \in Payload
    <3>1. m \in Nat /\ n \in 0..m
      BY <1>1, <1>3
    <3>. QED
      BY <3>1, ElementOfSeq DEF Block
  <2>2. p \in Seq(Payload) /\ Len(p) = m /\ \A i \in 1..m : p[i] = b[i]
    <3>. HIDE DEF m
    <3>1. m <= Len(b)
      BY <1>1 DEF m
    <3>2. p = SubSeq(b, 1, m)
      BY DEF Parent, m
    <3>3. \A i \in 1..m : b[i] \in Payload
      BY <1>1, <2>1, <3>1
    <3>. QED
      BY <1>1, <2>1, <3>1, <3>2, <3>3, SubSeqProperties DEF Block
  <2>. HIDE DEF p, m
  <2>3. /\ SubSeq(b, 1, n) \in Seq(Payload) /\ Len(SubSeq(b, 1, n)) = n
        /\ \A i \in 1..n : SubSeq(b, 1, n)[i] = b[i]
    BY <1>1, <1>3, <2>1, SubSeqProperties DEF Block
  <2>4. /\ SubSeq(p, 1, n) \in Seq(Payload) /\ Len(SubSeq(p, 1, n)) = n
        /\ \A i \in 1..n : SubSeq(p, 1, n)[i] = p[i]
    <3>1. \A i \in 1..n : p[i] \in Payload
      BY <2>1, <2>2, ElementOfSeq
    <3>. QED
      BY <2>1, <2>2, <3>1, SubSeqProperties
  <2>5. SubSeq(b, 1, n) = SubSeq(p, 1, n)
    BY <2>1, <2>2, <2>3, <2>4, SeqEqual
  <2>. QED
    BY <2>1, <2>2, <2>5 DEF p
<1>. QED
  BY <1>1, <1>2, <1>3

-----------------------------------------------------------------------------
(* What the steps have in common *)

\* The start of the chain satisfies the invariant.
LEMMA InitInv == Init => IInv
<1>. SUFFICES ASSUME Init PROVE IInv
  OBVIOUS
<1>. USE DEF Init
<1>1. decided = << >> /\ DOMAIN decided = {} /\ Decisions = {} /\ Len(decided) = 0
  BY EmptySeq DEF Decisions
<1>2. TypeOK
  BY <1>1, GenesisFacts, EmptySeq, EngineAssumption DEF TypeOK
<1>3. RoundOK /\ ProposalOK /\ VotesOK
  BY DEF RoundOK, ProposalOK, VotesOK
<1>3a. \A n \in 0..Len(Genesis) : SubSeq(Genesis, 1, n) = Genesis
  BY GenesisFacts, SubSeqEmpty DEF Genesis
<1>4. ClientsOK /\ AncestorsAgreed
  BY <1>1, <1>3a, GenesisFacts DEF ClientsOK, AncestorsAgreed, Agreed, Executed
<1>5. UnusableNeverDecided /\ DecidedIsHeld /\ HeadIsDecided
  BY <1>1, GenesisFacts DEF UnusableNeverDecided, DecidedIsHeld, HeadIsDecided
<1>6. SafeIsAncestor
  BY GenesisFacts, ParentFacts DEF SafeIsAncestor
<1>. QED
  BY <1>2, <1>3, <1>4, <1>5, <1>6 DEF IInv

\* Agreed blocks are blocks.
LEMMA AgreedBlocks ==
    ASSUME TypeOK, UnusableNeverDecided
    PROVE  Agreed \subseteq Block /\ Decisions \subseteq Block
<1>1. \A i \in DOMAIN decided : decided[i] \in Block \cup {Unusable}
  BY ElementOfSeq, LenProperties DEF TypeOK
<1>. QED
  BY <1>1, GenesisFacts DEF Agreed, Decisions, UnusableNeverDecided

\* While nothing is decided and the execution clients only gain blocks, what
\* was decided stays held.
LEMMA HeldGrows ==
    ASSUME DecidedIsHeld, decided' = decided,
           \A v \in Validators : held[v] \subseteq held'[v]
    PROVE  /\ DecidedIsHeld' /\ Decisions' = Decisions
           /\ AncestorsAgreed => AncestorsAgreed'
           /\ \A v \in Validators : Executed(v) \subseteq Executed(v)'
<1>1. /\ Decisions' = Decisions
      /\ AncestorsAgreed => AncestorsAgreed'
      /\ \A v \in Validators : Executed(v) \subseteq Executed(v)'
  BY DEF Decisions, AncestorsAgreed, Agreed, Executed
<1>2. SUFFICES ASSUME NEW b \in Decisions \ {Unusable}, ~Invalid(b)
               PROVE  \E Q \in Quorums : \A v \in Q : b \in held'[v]
  BY <1>1 DEF DecidedIsHeld
<1>3. PICK Q \in Quorums : \A v \in Q : b \in held[v]
  BY <1>2 DEF DecidedIsHeld
<1>. QED
  BY <1>1, <1>3, EngineAssumption

\* An execution client that is told to adopt a block that was agreed on keeps
\* what the invariant says of it, whether it adopts the block, has passed it or
\* has to sync.
LEMMA ForkchoiceKeeps ==
    ASSUME IInv, NEW v \in Validators, NEW b \in Agreed,
           \/ TakesForkchoice(v, b, Parent(b))
           \/ UNCHANGED forkchoice,
           UNCHANGED <<decided, held>>
    PROVE  /\ head' \in [Validators -> Block] /\ safe' \in [Validators -> Block]
           /\ fin' \in [Validators -> Block] /\ want' \in [Validators -> Block \cup {NoBlock}]
           /\ ClientsOK' /\ HeadIsDecided' /\ SafeIsAncestor'
           /\ UnusableNeverDecided' /\ DecidedIsHeld' /\ AncestorsAgreed' /\ Agreed' = Agreed
<1>. USE DEF IInv, TypeOK
<1>1. b \in Block /\ Parent(b) \in Block /\ Ancestor(Parent(b), b)
  BY AgreedBlocks, ParentFacts
<1>2. /\ DecidedIsHeld' /\ AncestorsAgreed' /\ Decisions' = Decisions /\ Agreed' = Agreed
      /\ \A w \in Validators : Executed(w) \subseteq Executed(w)'
  BY HeldGrows DEF Agreed
<1>3. UnusableNeverDecided'
  BY <1>2 DEF UnusableNeverDecided
<1>4. CASE UNCHANGED forkchoice
  BY <1>2, <1>3, <1>4 DEF forkchoice, ClientsOK, HeadIsDecided, SafeIsAncestor
<1>5. CASE /\ b \notin Executed(v)
           /\ want' = [want EXCEPT ![v] = b]
           /\ UNCHANGED <<head, safe, fin>>
  <2>1. ClientsOK'
    BY <1>2, <1>5 DEF ClientsOK
  <2>. QED
    BY <1>1, <1>2, <1>3, <1>5, <2>1 DEF HeadIsDecided, SafeIsAncestor
<1>6. CASE /\ b \in Executed(v)
           /\ head' = [head EXCEPT ![v] = b]
           /\ safe' = [safe EXCEPT ![v] = Parent(b)]
           /\ fin' = [fin EXCEPT ![v] = Parent(b)]
           /\ want' = [want EXCEPT ![v] = NoBlock]
  <2>1. ~Invalid(b)
    BY <1>6 DEF Executed, ClientsOK
  <2>2. ClientsOK'
    <3>1. \A w \in Validators : head'[w] \in Executed(w)'
      BY <1>2, <1>6 DEF ClientsOK
    <3>. QED
      BY <1>2, <1>6, <3>1 DEF ClientsOK
  <2>3. HeadIsDecided'
    BY <1>2, <1>6, <2>1 DEF HeadIsDecided, Agreed
  <2>4. SafeIsAncestor'
    BY <1>1, <1>6 DEF SafeIsAncestor
  <2>. QED
    BY <1>1, <1>2, <1>3, <1>6, <2>2, <2>3, <2>4
<1>. QED
  BY <1>4, <1>5, <1>6 DEF TakesForkchoice

\* A step that leaves decisions and execution clients alone.
LEMMA NothingAdopted ==
    ASSUME IInv, UNCHANGED <<decided, held, forkchoice>>
    PROVE  /\ UnusableNeverDecided' /\ DecidedIsHeld' /\ HeadIsDecided' /\ SafeIsAncestor'
           /\ ClientsOK' /\ AncestorsAgreed' /\ Agreed' = Agreed
BY HeldGrows DEF IInv, forkchoice, UnusableNeverDecided, HeadIsDecided, SafeIsAncestor,
   ClientsOK, Agreed

\* A failing call counts up to the bound.
LEMMA FaultsBounded ==
    ASSUME TypeOK, CallFails \/ CallWorks
    PROVE  faults' \in 0..MaxFaults
BY EngineAssumption DEF TypeOK, CallFails, CallWorks

-----------------------------------------------------------------------------
(* One lemma per handler *)

\* PrepareProposal, up to the number of the latest block.
LEMMA LatestBlockNumberKeeps ==
    ASSUME IInv, NEW v \in Validators, LatestBlockNumber(v)
    PROVE  IInv'
<1>. USE DEF IInv
<1>1. /\ UNCHANGED <<decided, latest, vote, applied, up, held, forkchoice>>
      /\ proposer' = v /\ proposer = NoValidator /\ proposal = NoBlock
      /\ Len(decided) < MaxHeight /\ (CallFails \/ CallWorks)
      /\ \/ proposal' = Unusable /\ number' = number
         \/ proposal' = NoBlock /\ number' = Len(head[v])
  BY DEF LatestBlockNumber, RoundOK
<1>2. TypeOK'
  <2>1. Len(head[v]) \in Nat
    BY LenProperties DEF TypeOK, Block
  <2>. QED
    BY <1>1, <2>1, FaultsBounded DEF TypeOK, forkchoice
<1>3. /\ UnusableNeverDecided' /\ DecidedIsHeld' /\ HeadIsDecided' /\ SafeIsAncestor'
      /\ ClientsOK' /\ AncestorsAgreed' /\ Agreed' = Agreed
  BY <1>1, NothingAdopted
<1>4. RoundOK'
  BY <1>1, NotBlocks, EngineAssumption DEF RoundOK, TypeOK
<1>5. ProposalOK' /\ VotesOK'
  BY <1>1, <1>3 DEF ProposalOK, VotesOK, RoundOK
<1>. QED
  BY <1>2, <1>3, <1>4, <1>5

\* ... and up to the block under that number, which was agreed on whatever the
\* chain of the execution client has become.
LEMMA LatestBlockKeeps ==
    ASSUME IInv, NEW v \in Validators, LatestBlock(v)
    PROVE  IInv'
<1>. USE DEF IInv
<1>1. /\ UNCHANGED <<decided, proposer, vote, applied, up, held, forkchoice>>
      /\ number' = 0 /\ proposer = v /\ proposal = NoBlock /\ latest = NoBlock
      /\ CallFails \/ CallWorks
      /\ \/ proposal' = Unusable /\ latest' = latest
         \/ /\ proposal' = NoBlock /\ number <= Len(head[v])
            /\ latest' = SubSeq(head[v], 1, number)
  BY DEF LatestBlock, Looking, BlockByNumber
<1>2. \A n \in 0..Len(head[v]) :
        /\ SubSeq(head[v], 1, n) \in Agreed /\ SubSeq(head[v], 1, n) \in Block
        /\ ~Invalid(SubSeq(head[v], 1, n))
  <2>1. head[v] \in Agreed /\ head[v] \in Executed(v)
    BY DEF HeadIsDecided, ClientsOK, Agreed
  <2>. QED
    BY <2>1, AgreedBlocks DEF AncestorsAgreed, Executed, ClientsOK
<1>3. number \in 0..Len(head[v]) \/ ~(number <= Len(head[v]))
  BY LenProperties DEF TypeOK, Block
<1>4. \/ proposal' = Unusable /\ latest' = latest
      \/ /\ proposal' = NoBlock /\ latest' \in Agreed /\ latest' \in Block
         /\ ~Invalid(latest')
  BY <1>1, <1>2, <1>3
<1>5. TypeOK'
  BY <1>1, <1>4, FaultsBounded DEF TypeOK, forkchoice
<1>6. /\ UnusableNeverDecided' /\ DecidedIsHeld' /\ HeadIsDecided' /\ SafeIsAncestor'
      /\ ClientsOK' /\ AncestorsAgreed' /\ Agreed' = Agreed
  BY <1>1, NothingAdopted
<1>7. RoundOK'
  BY <1>1, <1>4, NotBlocks, EngineAssumption DEF RoundOK, TypeOK
<1>8. ProposalOK'
  BY <1>1, <1>4, <1>6 DEF ProposalOK, Invalid
<1>9. VotesOK'
  BY <1>1 DEF VotesOK, RoundOK
<1>. QED
  BY <1>5, <1>6, <1>7, <1>8, <1>9

\* The rest of PrepareProposal.
LEMMA PrepareProposalKeeps ==
    ASSUME IInv, NEW v \in Validators, PrepareProposal(v)
    PROVE  IInv'
<1>. USE DEF IInv
<1>1. /\ UNCHANGED <<decided, proposer, number, latest, vote, applied, up, held>>
      /\ proposer = v /\ proposal = NoBlock /\ latest # NoBlock
      /\ TakesForkchoice(v, latest, Parent(latest)) \/ UNCHANGED forkchoice
      /\ CallFails \/ CallWorks
      /\ \/ proposal' = Unusable
         \/ \E t \in Tags : proposal' = Append(latest, <<Len(decided) + 1, t>>)
  BY DEF PrepareProposal
<1>2. latest \in Agreed /\ latest \in Block /\ Len(decided) < MaxHeight /\ Len(decided) \in Nat
  BY <1>1, AgreedBlocks, EngineAssumption, LenProperties DEF RoundOK, ProposalOK, TypeOK
<1>3. \/ proposal' = Unusable
      \/ proposal' \in Block /\ Parent(proposal') = latest
  <2>1. \A t \in Tags : <<Len(decided) + 1, t>> \in Payload
    BY <1>2, EngineAssumption DEF Payload
  <2>. QED
    BY <1>1, <1>2, <2>1, BuiltOn
<1>4. /\ head' \in [Validators -> Block] /\ safe' \in [Validators -> Block]
      /\ fin' \in [Validators -> Block] /\ want' \in [Validators -> Block \cup {NoBlock}]
      /\ ClientsOK' /\ HeadIsDecided' /\ SafeIsAncestor'
      /\ UnusableNeverDecided' /\ DecidedIsHeld' /\ AncestorsAgreed' /\ Agreed' = Agreed
  BY <1>1, <1>2, ForkchoiceKeeps
<1>5. TypeOK'
  BY <1>1, <1>3, <1>4, FaultsBounded DEF TypeOK
<1>6. RoundOK'
  BY <1>1, <1>2, <1>3, NotBlocks, EngineAssumption DEF RoundOK
<1>7. ProposalOK'
  BY <1>1, <1>2, <1>3, <1>4 DEF ProposalOK
<1>8. VotesOK'
  BY <1>1 DEF VotesOK, RoundOK
<1>. QED
  BY <1>4, <1>5, <1>6, <1>7, <1>8

\* ProcessProposal: an acceptance means that the execution client has taken the
\* payload, a failed call or an unusable proposal that there is none.
LEMMA ProcessProposalKeeps ==
    ASSUME IInv, NEW v \in Validators, ProcessProposal(v)
    PROVE  IInv'
<1>. USE DEF IInv
<1>1. /\ UNCHANGED <<decided, proposer, number, latest, proposal, applied, up, forkchoice>>
      /\ proposal # NoBlock /\ (CallFails \/ CallWorks)
      /\ \/ /\ vote' = [vote EXCEPT ![v] = "reject"]
            /\ held' = held \/ (proposal # Unusable /\ TakesPayload(v, proposal))
         \/ /\ vote' = [vote EXCEPT ![v] = "accept"]
            /\ proposal # Unusable /\ TakesPayload(v, proposal)
  BY DEF ProcessProposal, Voting, CallWorks
<1>2. /\ held' \in [Validators -> SUBSET Block]
      /\ \A w \in Validators : held[w] \subseteq held'[w]
      /\ \A w \in Validators : \A b \in held'[w] : b \in held[w] \/ ~Invalid(b)
  <2>1. CASE held' = held
    BY <2>1 DEF TypeOK
  <2>2. CASE proposal # Unusable /\ TakesPayload(v, proposal)
    <3>. DEFINE kept == IF Invalid(proposal) THEN {} ELSE {proposal}
    <3>1. proposal \in Block
      BY <1>1, <2>2 DEF TypeOK
    <3>2. kept \subseteq Block /\ \A b \in kept : ~Invalid(b)
      BY <3>1
    <3>3. held' = [held EXCEPT ![v] = @ \cup kept]
      BY <2>2 DEF TakesPayload
    <3>. HIDE DEF kept
    <3>4. held \in [Validators -> SUBSET Block]
      BY DEF TypeOK
    <3>. QED
      BY <3>2, <3>3, <3>4
  <2>. QED
    BY <1>1, <2>1, <2>2
<1>3. TypeOK'
  <2>1. vote' \in [Validators -> {"none", "accept", "reject"}]
    BY <1>1 DEF TypeOK
  <2>. QED
    BY <1>1, <1>2, <2>1, FaultsBounded DEF TypeOK, forkchoice
<1>4. RoundOK' /\ ProposalOK'
  <2>1. Decisions' = Decisions
    BY <1>1 DEF Decisions
  <2>. QED
    BY <1>1, <2>1 DEF RoundOK, ProposalOK, Agreed
<1>5. VotesOK'
  BY <1>1, <1>2 DEF VotesOK, TakesPayload, TypeOK
<1>6. /\ UnusableNeverDecided' /\ DecidedIsHeld' /\ HeadIsDecided' /\ SafeIsAncestor'
      /\ AncestorsAgreed' /\ Agreed' = Agreed
      /\ \A w \in Validators : Executed(w) \subseteq Executed(w)'
  BY <1>1, <1>2, HeldGrows DEF UnusableNeverDecided, HeadIsDecided, SafeIsAncestor, forkchoice, Agreed
<1>7. ClientsOK'
  BY <1>1, <1>2, <1>6 DEF ClientsOK, forkchoice
<1>. QED
  BY <1>3, <1>4, <1>5, <1>6, <1>7

\* A round that ends leaves nothing behind.
LEMMA NewRoundKeeps ==
    ASSUME NewRound
    PROVE  /\ RoundOK' /\ ProposalOK' /\ VotesOK'
           /\ proposer' = NoValidator /\ number' = 0 /\ latest' = NoBlock /\ proposal' = NoBlock
           /\ vote' \in [Validators -> {"none", "accept", "reject"}]
BY DEF NewRound, RoundOK, ProposalOK, VotesOK

\* A decision: the quorum that accepted holds the payload.
LEMMA DecideKeeps ==
    ASSUME IInv, Decide
    PROVE  IInv'
<1>. USE DEF IInv
<1>1. PICK Q \in Quorums : \A v \in Q : v \in Validators /\ vote[v] = "accept"
  BY DEF Decide, Voted
<1>2. PICK v \in Q : v \in Validators /\ vote[v] = "accept"
  BY <1>1, EngineAssumption
<1>3. proposal \in Block /\ Parent(proposal) \in Agreed /\ Len(decided) < MaxHeight
  BY <1>2, NotBlocks, EngineAssumption DEF TypeOK, RoundOK, ProposalOK, VotesOK
<1>4. /\ decided' = Append(decided, proposal)
      /\ UNCHANGED <<applied, up, held, forkchoice, faults>>
  BY DEF Decide
<1>5. RoundOK' /\ ProposalOK' /\ VotesOK' /\ proposer' = NoValidator /\ latest' = NoBlock
      /\ number' = 0 /\ proposal' = NoBlock /\ vote' \in [Validators -> {"none", "accept", "reject"}]
  BY NewRoundKeeps DEF Decide
<1>6. /\ decided' \in Seq(Block \cup {Unusable}) /\ Len(decided') = Len(decided) + 1
      /\ Len(decided) \in Nat
      /\ \A i \in 1..Len(decided) : decided'[i] = decided[i]
      /\ decided'[Len(decided) + 1] = proposal
  BY <1>3, <1>4, AppendProperties, LenProperties DEF TypeOK
<1>7. Decisions' = Decisions \cup {proposal}
  <2>1. DOMAIN decided = 1..Len(decided) /\ DOMAIN decided' = 1..(Len(decided) + 1)
    BY <1>6, LenProperties DEF TypeOK
  <2>2. \A i \in 1..(Len(decided) + 1) : i \in 1..Len(decided) \/ i = Len(decided) + 1
    BY <1>6
  <2>3. 1..Len(decided) \subseteq 1..(Len(decided) + 1) /\ Len(decided) + 1 \in 1..(Len(decided) + 1)
    BY <1>6
  <2>4. Decisions' = {decided'[i] : i \in 1..(Len(decided) + 1)}
    BY <2>1 DEF Decisions
  <2>5. Decisions = {decided[i] : i \in 1..Len(decided)}
    BY <2>1 DEF Decisions
  <2>. QED
    BY <1>6, <2>2, <2>3, <2>4, <2>5
<1>8. TypeOK'
  BY <1>3, <1>4, <1>5, <1>6, EngineAssumption DEF TypeOK, forkchoice
<1>9. UnusableNeverDecided'
  BY <1>3, <1>7, NotBlocks DEF UnusableNeverDecided
<1>10. DecidedIsHeld'
  <2>. SUFFICES ASSUME NEW b \in Decisions' \ {Unusable}, ~Invalid(b)
                PROVE  \E R \in Quorums : \A w \in R : b \in held[w]
    BY <1>4 DEF DecidedIsHeld
  <2>1. CASE b = proposal
    BY <1>1, <2>1 DEF VotesOK
  <2>2. CASE b \in Decisions
    BY <2>2 DEF DecidedIsHeld
  <2>. QED
    BY <1>7, <2>1, <2>2
<1>11. HeadIsDecided'
  BY <1>3, <1>4, <1>7 DEF HeadIsDecided, Agreed, forkchoice
<1>12. ClientsOK'
  BY <1>4, <1>7 DEF ClientsOK, forkchoice, Agreed, Executed
<1>13. SafeIsAncestor'
  BY <1>4 DEF SafeIsAncestor, forkchoice
<1>14. AncestorsAgreed'
  <2>1. Agreed' = Agreed \cup {proposal}
    BY <1>7 DEF Agreed
  <2>2. \A n \in 0..Len(proposal) : SubSeq(proposal, 1, n) \in Agreed'
    BY <1>3, <2>1, PrefixOfParent DEF AncestorsAgreed
  <2>. QED
    BY <2>1, <2>2 DEF AncestorsAgreed
<1>. QED
  BY <1>5, <1>8, <1>9, <1>10, <1>11, <1>12, <1>13, <1>14

\* A round that times out.
LEMMA TimeoutKeeps ==
    ASSUME IInv, NEW early, Timeout(early)
    PROVE  IInv'
<1>. USE DEF IInv
<1>1. UNCHANGED <<decided, applied, up, held, forkchoice>> /\ (CallFails \/ CallWorks)
  BY DEF Timeout
<1>2. RoundOK' /\ ProposalOK' /\ VotesOK' /\ proposer' = NoValidator /\ latest' = NoBlock
      /\ number' = 0 /\ proposal' = NoBlock /\ vote' \in [Validators -> {"none", "accept", "reject"}]
  BY NewRoundKeeps DEF Timeout
<1>3. TypeOK'
  BY <1>1, <1>2, FaultsBounded DEF TypeOK, forkchoice
<1>4. /\ UnusableNeverDecided' /\ DecidedIsHeld' /\ HeadIsDecided' /\ SafeIsAncestor'
      /\ ClientsOK' /\ AncestorsAgreed'
  BY <1>1, NothingAdopted
<1>. QED
  BY <1>2, <1>3, <1>4

\* PreBlock, whether its call works, fails before or after it took effect.
LEMMA PreBlockKeeps ==
    ASSUME IInv, NEW v \in Validators, PreBlock(v)
    PROVE  IInv'
<1>. USE DEF IInv
<1>1. applied[v] \in Nat /\ applied[v] < Len(decided) /\ Len(decided) \in Nat
      /\ Len(decided) <= MaxHeight
  BY LenProperties, EngineAssumption DEF PreBlock, Finalizing, TypeOK
<1>2. Due(v) \in Agreed /\ Due(v) # Unusable
  <2>1. applied[v] + 1 \in DOMAIN decided
    BY <1>1, LenProperties DEF TypeOK
  <2>. QED
    BY <2>1 DEF Due, Decisions, Agreed, UnusableNeverDecided
<1>3. /\ UNCHANGED <<decided, round, held>> /\ (CallFails \/ CallWorks)
      /\ TakesForkchoice(v, Due(v), Parent(Due(v))) \/ UNCHANGED forkchoice
      /\ up' = up \/ up' = [up EXCEPT ![v] = FALSE]
      /\ applied' = applied \/ applied' = [applied EXCEPT ![v] = @ + 1]
  BY <1>2 DEF PreBlock
<1>4. /\ head' \in [Validators -> Block] /\ safe' \in [Validators -> Block]
      /\ fin' \in [Validators -> Block] /\ want' \in [Validators -> Block \cup {NoBlock}]
      /\ ClientsOK' /\ HeadIsDecided' /\ SafeIsAncestor'
      /\ UnusableNeverDecided' /\ DecidedIsHeld' /\ AncestorsAgreed' /\ Agreed' = Agreed
  BY <1>2, <1>3, ForkchoiceKeeps
<1>5. applied' \in [Validators -> 0..MaxHeight] /\ up' \in [Validators -> BOOLEAN]
  <2>1. applied[v] + 1 \in 0..MaxHeight
    BY <1>1, EngineAssumption
  <2>. QED
    BY <1>3, <2>1 DEF TypeOK
<1>6. TypeOK'
  BY <1>3, <1>4, <1>5, FaultsBounded DEF TypeOK, round
<1>7. RoundOK' /\ ProposalOK' /\ VotesOK'
  BY <1>3, <1>4 DEF RoundOK, ProposalOK, VotesOK, round
<1>. QED
  BY <1>4, <1>6, <1>7

\* A client that syncs gets valid blocks only, because a peer has executed them.
LEMMA SyncKeeps ==
    ASSUME IInv, NEW v \in Validators, Sync(v)
    PROVE  IInv'
<1>. USE DEF IInv
<1>. DEFINE b == want[v]
            chain == {SubSeq(b, 1, n) : n \in 0..Len(b)}
<1>1. /\ b # NoBlock /\ UNCHANGED <<decided, round, applied, up, faults>>
      /\ held' = [held EXCEPT ![v] = @ \cup chain]
      /\ head' = [head EXCEPT ![v] = b]
      /\ safe' = [safe EXCEPT ![v] = Parent(b)]
      /\ fin' = [fin EXCEPT ![v] = Parent(b)]
      /\ want' = [want EXCEPT ![v] = NoBlock]
  BY DEF Sync
<1>2. PICK w \in Validators : b \in Executed(w)
  BY DEF Sync
<1>3. chain \subseteq held[w] /\ b \in held[w] /\ b \in Block /\ b \in Agreed
  BY <1>1, <1>2 DEF Executed, TypeOK, ClientsOK
<1>4. ~Invalid(b) /\ \A c \in chain : ~Invalid(c) /\ c \in Block
  BY <1>3 DEF ClientsOK, TypeOK
<1>5. Parent(b) \in Block /\ Ancestor(Parent(b), b)
  BY <1>3, ParentFacts
<1>. HIDE DEF b, chain
<1>6. \A u \in Validators : held[u] \subseteq held'[u] /\ held'[u] \subseteq held[u] \cup chain
  BY <1>1 DEF TypeOK
<1>7. /\ DecidedIsHeld' /\ AncestorsAgreed' /\ Decisions' = Decisions /\ Agreed' = Agreed
      /\ \A u \in Validators : Executed(u) \subseteq Executed(u)'
  BY <1>1, <1>6, HeldGrows DEF Agreed
<1>8. TypeOK'
  BY <1>1, <1>3, <1>4, <1>5, <1>6 DEF TypeOK, round
<1>9. RoundOK' /\ ProposalOK' /\ VotesOK'
  BY <1>1, <1>6, <1>7 DEF RoundOK, ProposalOK, VotesOK, round
<1>10. ClientsOK'
  <2>1. b \in held'[v] /\ \A n \in 0..Len(b) : SubSeq(b, 1, n) \in held'[v]
    BY <1>1, <1>3, SubSeqFull, LenProperties DEF chain, TypeOK, Block
  <2>2. \A u \in Validators : head'[u] \in Executed(u)'
    BY <1>1, <1>7, <2>1 DEF Executed, ClientsOK, TypeOK
  <2>. QED
    BY <1>1, <1>4, <1>6, <1>7, <2>2 DEF ClientsOK
<1>11. UnusableNeverDecided' /\ HeadIsDecided'
  BY <1>1, <1>3, <1>4, <1>7 DEF UnusableNeverDecided, HeadIsDecided, Agreed
<1>12. SafeIsAncestor'
  BY <1>1, <1>5 DEF SafeIsAncestor, TypeOK
<1>. QED
  BY <1>7, <1>8, <1>9, <1>10, <1>11, <1>12

\* Starting a validator again, and steps of others.
LEMMA RestartKeeps ==
    ASSUME IInv, (\E v \in Validators : Restart(v)) \/ UNCHANGED vars
    PROVE  IInv'
<1>. USE DEF IInv
<1>1. /\ UNCHANGED <<decided, round, applied, held, forkchoice, faults>>
      /\ up' = up \/ \E v \in Validators : up' = [up EXCEPT ![v] = TRUE]
  BY DEF Restart, vars
<1>2. TypeOK'
  BY <1>1 DEF TypeOK, round, forkchoice
<1>3. /\ UnusableNeverDecided' /\ DecidedIsHeld' /\ HeadIsDecided' /\ SafeIsAncestor'
      /\ ClientsOK' /\ AncestorsAgreed' /\ Agreed' = Agreed
  BY <1>1, NothingAdopted
<1>4. RoundOK' /\ ProposalOK' /\ VotesOK'
  BY <1>1, <1>3 DEF RoundOK, ProposalOK, VotesOK, round
<1>. QED
  BY <1>2, <1>3, <1>4

-----------------------------------------------------------------------------
(* The theorems *)

\* The inductive invariant holds: every block that consensus or an execution
\* client knows comes from a head that was decided.
THEOREM Invariance == Spec => []IInv
<1>1. IInv /\ [Next]_vars => IInv'
  <2>. SUFFICES ASSUME IInv, [Next]_vars PROVE IInv'
    OBVIOUS
  <2>1. ASSUME NEW v \in Validators, Step(v) PROVE IInv'
    BY <2>1, LatestBlockNumberKeeps, LatestBlockKeeps, PrepareProposalKeeps, ProcessProposalKeeps, PreBlockKeeps,
       SyncKeeps, RestartKeeps DEF Step
  <2>2. CASE Decide
    BY <2>2, DecideKeeps
  <2>3. CASE Timeout(TRUE) \/ Timeout(FALSE)
    BY <2>3, TimeoutKeeps
  <2>4. CASE UNCHANGED vars
    BY <2>4, RestartKeeps
  <2>. QED
    BY <2>1, <2>2, <2>3, <2>4 DEF Next
<1>. QED
  BY <1>1, InitInv, PTL DEF Spec

\* Every variable keeps its type.
THEOREM TypeCorrect == Spec => []TypeOK
<1>1. IInv => TypeOK
  BY DEF IInv
<1>. QED
  BY <1>1, Invariance, PTL

\* A round whose PrepareProposal failed is never decided, at any validator set.
THEOREM NoUnusableDecision == Spec => []UnusableNeverDecided
<1>1. IInv => UnusableNeverDecided
  BY DEF IInv
<1>. QED
  BY <1>1, Invariance, PTL

\* A decided payload is in the execution clients of a whole quorum, unless all
\* of them refuse it.
THEOREM QuorumHoldsDecision == Spec => []DecidedIsHeld
<1>1. IInv => DecidedIsHeld
  BY DEF IInv
<1>. QED
  BY <1>1, Invariance, PTL

\* Although no handler looks at a status, no execution client ever has a head
\* that was not decided or is INVALID, and decisions build on decisions.
THEOREM HeadsAreDecided == Spec => []HeadIsDecided
<1>1. IInv => HeadIsDecided
  BY DEF IInv
<1>. QED
  BY <1>1, Invariance, PTL

\* The safe and the final block of every execution client precede its head.
THEOREM SafePrecedesHead == Spec => []SafeIsAncestor
<1>1. IInv => SafeIsAncestor
  BY DEF IInv
<1>. QED
  BY <1>1, Invariance, PTL
=============================================================================
