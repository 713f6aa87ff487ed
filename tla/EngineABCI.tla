------------------------------ MODULE EngineABCI ------------------------------
(***************************************************************************)
(* Consensus drives the execution clients: PrepareProposal, ProcessProposal *)
(* and PreBlock (execution/evm/abci_handler.go) of every validator, over   *)
(* the Engine API of its own execution client (engine.go, rpc.go).         *)
(*                                                                         *)
(* CometBFT, baseapp and the execution client are outside the repository.  *)
(* Consensus is taken to be correct: a height has rounds with one proposal *)
(* each, and a proposal that a quorum accepts may be decided, once.        *)
(* baseapp turns an error or a panic of PrepareProposal into a proposal of *)
(* whatever CometBFT's mempool held, and one of ProcessProposal into a     *)
(* rejection; an error of PreBlock halts the validator until it is started *)
(* again.                                                                  *)
(*                                                                         *)
(* A block of the execution chain is the sequence of payloads that leads   *)
(* to it from genesis; that sequence stands for its hash.                  *)
(***************************************************************************)
EXTENDS Naturals, Sequences

CONSTANTS Validators,
          NoValidator,
          Quorums,       \* sets of validators with more than 2/3 of the power
          Tags,          \* what tells payloads of one height apart
          BlobTags,      \* payloads with blob transactions
          NoBlock,
          Unusable,      \* a proposal without an execution payload
          MaxHeight,     \* bound: heights decided
          MaxFaults      \* bound: calls that fail and rounds that are too short

ASSUME EngineAssumption ==
    /\ NoValidator \notin Validators
    /\ Quorums \subseteq SUBSET Validators
    /\ BlobTags \subseteq Tags
    /\ \A Q, R \in Quorums : Q \cap R # {}
    /\ MaxHeight \in Nat /\ MaxFaults \in Nat

Payload == (1..MaxHeight) \X Tags
Block == Seq(Payload)
Genesis == << >>

ASSUME NotBlocks == {NoBlock, Unusable} \cap Block = {} /\ NoBlock # Unusable

\* executableData.ParentHash, bh.ParentHash.
Parent(b) == SubSeq(b, 1, Len(b) - 1)

\* a is b or one of its ancestors.
Ancestor(a, b) == Len(a) <= Len(b) /\ a = SubSeq(b, 1, Len(a))

VARIABLES decided,   \* the proposals decided, by height
          proposer,  \* the validator inside PrepareProposal, if any
          number,    \* the number it was told the latest block has
          latest,    \* the block it found under that number
          proposal,  \* this round's proposal
          vote,      \* what ProcessProposal answered
          applied,   \* how many decided proposals each validator finalized
          up,        \* validators whose consensus has not halted
          held,      \* the blocks each execution client was given
          head, safe, fin,  \* its forkchoice
          want,      \* the head it is syncing to
          faults     \* calls that have failed, rounds that were too short

round == <<proposer, number, latest, proposal, vote>>
forkchoice == <<head, safe, fin, want>>
vars == <<decided, round, applied, up, held, forkchoice, faults>>

-----------------------------------------------------------------------------
(* The execution client *)

\* A block is executed once all its ancestors are there.
Executed(v) == {b \in held[v] : \A n \in 0..Len(b) : SubSeq(b, 1, n) \in held[v]}

\* The handler passes no versioned hashes, so a payload with blobs is INVALID.
Invalid(b) == b # Genesis /\ b[Len(b)][2] \in BlobTags

\* engine_newPayloadV3: a block that is VALID or SYNCING is kept.
TakesPayload(v, b) ==
    held' = [held EXCEPT ![v] = @ \cup (IF Invalid(b) THEN {} ELSE {b})]

\* engine_forkchoiceUpdatedV3.  An ancestor of the head changes nothing; a
\* block that is not executed yet is synced to and adopted later.
TakesForkchoice(v, b, s) ==
    \/ /\ b \in Executed(v)
       /\ b = head[v] \/ ~Ancestor(b, head[v])
       /\ head' = [head EXCEPT ![v] = b]
       /\ safe' = [safe EXCEPT ![v] = s]
       /\ fin' = [fin EXCEPT ![v] = Parent(b)]
       /\ want' = [want EXCEPT ![v] = NoBlock]
    \/ /\ b \in Executed(v) /\ b # head[v] /\ Ancestor(b, head[v])
       /\ UNCHANGED forkchoice
    \/ /\ b \notin Executed(v)
       /\ want' = [want EXCEPT ![v] = b]
       /\ UNCHANGED <<head, safe, fin>>

\* The missing ancestors arrive from a peer that has executed them.
Sync(v) ==
    LET b == want[v]
    IN /\ b # NoBlock
       /\ \E w \in Validators : b \in Executed(w)
       /\ held' = [held EXCEPT ![v] = @ \cup {SubSeq(b, 1, n) : n \in 0..Len(b)}]
       /\ head' = [head EXCEPT ![v] = b]
       /\ safe' = [safe EXCEPT ![v] = Parent(b)]
       /\ fin' = [fin EXCEPT ![v] = Parent(b)]
       /\ want' = [want EXCEPT ![v] = NoBlock]
       /\ UNCHANGED <<decided, round, applied, up, faults>>

CallFails == faults < MaxFaults /\ faults' = faults + 1
CallWorks == UNCHANGED faults

-----------------------------------------------------------------------------
(* The handlers *)

\* v has finalized every decided block and takes part in the next height.
Ready(v) == up[v] /\ applied[v] = Len(decided)

NewRound ==
    /\ proposer' = NoValidator
    /\ number' = 0
    /\ latest' = NoBlock
    /\ proposal' = NoBlock
    /\ vote' = [v \in Validators |-> "none"]

\* PrepareProposal asks the execution client for the number of its latest
\* block.
LatestBlockNumber(v) ==
    /\ Ready(v) /\ proposer = NoValidator /\ Len(decided) < MaxHeight
    /\ proposer' = v
    /\ \/ CallFails /\ proposal' = Unusable /\ UNCHANGED number
       \/ CallWorks /\ number' = Len(head[v]) /\ UNCHANGED proposal
    /\ UNCHANGED <<decided, latest, vote, applied, up, held, forkchoice>>

\* v has the number and asks for the block.
Looking(v) == proposer = v /\ proposal = NoBlock /\ latest = NoBlock

\* The block with that number on the chain the client has by now, if any.
BlockByNumber(v) ==
    IF number <= Len(head[v]) THEN SubSeq(head[v], 1, number) ELSE Unusable

\* Faulty variant: the error of GetBlockByNumber is ignored.
LatestBlockUnchecked(v) ==
    /\ Looking(v)
    /\ \/ CallFails /\ latest' = Unusable
       \/ CallWorks /\ latest' = BlockByNumber(v)
    /\ number' = 0
    /\ UNCHANGED <<decided, proposer, proposal, vote, applied, up, held, forkchoice>>

\* ... then for the block that has this number by the time of the second call;
\* a chain that has become shorter has none, which is an error too.
LatestBlock(v) ==
    /\ Looking(v)
    /\ \/ CallFails /\ proposal' = Unusable /\ UNCHANGED latest
       \/ /\ CallWorks
          /\ IF BlockByNumber(v) = Unusable
             THEN proposal' = Unusable /\ UNCHANGED latest
             ELSE latest' = BlockByNumber(v) /\ UNCHANGED proposal
    /\ number' = 0
    /\ UNCHANGED <<decided, proposer, vote, applied, up, held, forkchoice>>

\* ... sets it as the head with payload attributes, and fetches the payload.
\* Without a payload id (the head has moved on), or when a call fails, before
\* or after the execution client has acted on it, the handler returns an error.
PrepareProposal(v) ==
    /\ proposer = v /\ latest # NoBlock /\ proposal = NoBlock
    /\ \/ /\ CallFails
          /\ proposal' = Unusable
          /\ TakesForkchoice(v, latest, Parent(latest)) \/ UNCHANGED forkchoice
       \/ /\ CallWorks
          /\ TakesForkchoice(v, latest, Parent(latest))
          /\ IF head'[v] = latest
             THEN \E t \in Tags :
                    proposal' = Append(latest, <<Len(decided) + 1, t>>)
             ELSE proposal' = Unusable
    /\ UNCHANGED <<decided, proposer, number, latest, vote, applied, up, held>>

Voting(v, answer) ==
    /\ Ready(v) /\ proposal # NoBlock /\ vote[v] = "none"
    /\ vote' = [vote EXCEPT ![v] = answer]
    /\ UNCHANGED <<decided, proposer, number, latest, proposal, applied, up>>

\* Faulty variant: a failed NewPayload is taken for an answer.
ProcessProposalLenient(v) ==
    \/ /\ proposal = Unusable
       /\ Voting(v, "reject")
       /\ UNCHANGED <<held, forkchoice, faults>>
    \/ /\ proposal # Unusable
       /\ Voting(v, "accept")
       /\ \/ CallWorks /\ TakesPayload(v, proposal)
          \/ CallFails /\ UNCHANGED held
       /\ UNCHANGED forkchoice

\* Faulty variant: a proposal without transactions is let through.
ProcessProposalEmpty(v) ==
    \/ /\ proposal = Unusable
       /\ Voting(v, "accept")
       /\ UNCHANGED <<held, forkchoice, faults>>
    \/ /\ proposal # Unusable
       /\ Voting(v, "accept") /\ CallWorks
       /\ TakesPayload(v, proposal)
       /\ UNCHANGED forkchoice

\* Faulty variant: the payload becomes the head before it is decided.
ProcessProposalAdopting(v) ==
    \/ /\ proposal = Unusable
       /\ Voting(v, "reject")
       /\ UNCHANGED <<held, forkchoice, faults>>
    \/ /\ proposal # Unusable
       /\ Voting(v, "accept") /\ CallWorks
       /\ Parent(proposal) \in Executed(v)
       /\ TakesPayload(v, proposal)
       /\ head' = [head EXCEPT ![v] = proposal]
       /\ UNCHANGED <<safe, fin, want>>

\* Txs[0] is missing or is no payload: a panic or an error, hence a rejection.
\* Otherwise every answer of NewPayload, whatever its status, is an acceptance.
ProcessProposal(v) ==
    \/ /\ proposal = Unusable
       /\ Voting(v, "reject")
       /\ UNCHANGED <<held, forkchoice, faults>>
    \/ /\ proposal # Unusable
       /\ \/ Voting(v, "accept") /\ CallWorks /\ TakesPayload(v, proposal)
          \/ Voting(v, "reject") /\ CallFails /\ (TakesPayload(v, proposal) \/ UNCHANGED held)
       /\ UNCHANGED forkchoice

Voted(answer) == {v \in Validators : vote[v] = answer}

Decide ==
    /\ \E Q \in Quorums : Q \subseteq Voted("accept")
    /\ decided' = Append(decided, proposal)
    /\ NewRound
    /\ UNCHANGED <<applied, up, held, forkchoice, faults>>

Hopeless == \A Q \in Quorums : Q \cap Voted("reject") # {}

\* The round ends without a decision, once no quorum can accept the proposal
\* any more, or too early.
Timeout(early) ==
    /\ proposal # NoBlock /\ (early <=> ~Hopeless)
    /\ IF early THEN CallFails ELSE CallWorks
    /\ NewRound
    /\ UNCHANGED <<decided, applied, up, held, forkchoice>>

\* The decided proposal whose finalization is next.
Due(v) == decided[applied[v] + 1]

Finalizing(v) == up[v] /\ applied[v] < Len(decided)

\* Faulty variant: an error of ForkchoiceUpdated is logged and forgotten.
PreBlockLenient(v) ==
    /\ Finalizing(v) /\ Due(v) # Unusable
    /\ applied' = [applied EXCEPT ![v] = @ + 1]
    /\ \/ CallFails /\ UNCHANGED forkchoice
       \/ CallWorks /\ TakesForkchoice(v, Due(v), Parent(Due(v)))
    /\ UNCHANGED <<decided, round, up, held>>

\* Faulty variant: the block that was the head so far is called safe.
PreBlockOldHeadSafe(v) ==
    /\ Finalizing(v) /\ Due(v) # Unusable
    /\ applied' = [applied EXCEPT ![v] = @ + 1] /\ CallWorks
    /\ TakesForkchoice(v, Due(v), head[v])
    /\ UNCHANGED <<decided, round, up, held>>

\* The decided payload becomes the head and its parent safe and final, or will
\* when the execution client has synced: the status is not looked at.
PreBlock(v) ==
    /\ Finalizing(v)
    /\ IF Due(v) = Unusable
       THEN up' = [up EXCEPT ![v] = FALSE] /\ UNCHANGED <<applied, forkchoice, faults>>
       ELSE \/ /\ CallFails
               /\ up' = [up EXCEPT ![v] = FALSE]
               /\ TakesForkchoice(v, Due(v), Parent(Due(v))) \/ UNCHANGED forkchoice
               /\ UNCHANGED applied
            \/ /\ CallWorks
               /\ TakesForkchoice(v, Due(v), Parent(Due(v)))
               /\ applied' = [applied EXCEPT ![v] = @ + 1]
               /\ UNCHANGED up
    /\ UNCHANGED <<decided, round, held>>

\* The operator starts the validator again; what it decided is replayed.
Restart(v) ==
    /\ ~up[v]
    /\ up' = [up EXCEPT ![v] = TRUE]
    /\ UNCHANGED <<decided, round, applied, held, forkchoice, faults>>

-----------------------------------------------------------------------------

Init ==
    /\ decided = << >>
    /\ proposer = NoValidator /\ number = 0 /\ latest = NoBlock /\ proposal = NoBlock
    /\ vote = [v \in Validators |-> "none"]
    /\ applied = [v \in Validators |-> 0]
    /\ up = [v \in Validators |-> TRUE]
    /\ held = [v \in Validators |-> {Genesis}]
    /\ head = [v \in Validators |-> Genesis]
    /\ safe = [v \in Validators |-> Genesis]
    /\ fin = [v \in Validators |-> Genesis]
    /\ want = [v \in Validators |-> NoBlock]
    /\ faults = 0

Step(v) ==
    \/ LatestBlockNumber(v) \/ LatestBlock(v) \/ PrepareProposal(v)
    \/ ProcessProposal(v) \/ PreBlock(v) \/ Sync(v) \/ Restart(v)

Next == (\E v \in Validators : Step(v)) \/ Decide \/ Timeout(TRUE) \/ Timeout(FALSE)

Spec == Init /\ [][Next]_vars

\* Nobody sleeps for ever: consensus goes on, execution clients sync, halted
\* validators are started again.
FairSpec ==
    /\ Spec
    /\ WF_vars(Decide) /\ WF_vars(Timeout(FALSE))
    /\ WF_vars(\E v \in Validators : LatestBlockNumber(v))
    /\ \A v \in Validators :
         /\ WF_vars(LatestBlock(v)) /\ WF_vars(PrepareProposal(v)) /\ WF_vars(ProcessProposal(v))
         /\ WF_vars(PreBlock(v)) /\ WF_vars(Sync(v)) /\ WF_vars(Restart(v))

-----------------------------------------------------------------------------
(* Properties *)

\* Every variable holds a value of its kind.
TypeOK ==
    /\ decided \in Seq(Block \cup {Unusable}) /\ Len(decided) <= MaxHeight
    /\ proposer \in Validators \cup {NoValidator}
    /\ number \in Nat
    /\ latest \in Block \cup {NoBlock}
    /\ proposal \in Block \cup {NoBlock, Unusable}
    /\ vote \in [Validators -> {"none", "accept", "reject"}]
    /\ applied \in [Validators -> 0..MaxHeight]
    /\ up \in [Validators -> BOOLEAN]
    /\ held \in [Validators -> SUBSET Block]
    /\ head \in [Validators -> Block]
    /\ safe \in [Validators -> Block]
    /\ fin \in [Validators -> Block]
    /\ want \in [Validators -> Block \cup {NoBlock}]
    /\ faults \in 0..MaxFaults

Decisions == {decided[i] : i \in DOMAIN decided}

\* A round whose PrepareProposal failed is never decided: PreBlock would fail
\* on it at every validator and at every restart.
UnusableNeverDecided == Unusable \notin Decisions

\* A decided payload that is not INVALID is in the execution clients of a whole
\* quorum, so that one that missed it can get it: ProcessProposal accepts only
\* after NewPayload was answered.
DecidedIsHeld ==
    \A b \in Decisions \ {Unusable} :
      Invalid(b) \/ \E Q \in Quorums : \A v \in Q : b \in held[v]

\* No execution client ever has a head that was not decided or that is INVALID,
\* not even the proposer's that builds one payload after the other, although
\* the handlers never look at a status; and so every decided payload is built
\* on decided ones.
HeadIsDecided ==
    /\ \A v \in Validators :
         head[v] \in Decisions \cup {Genesis} /\ ~Invalid(head[v])
    /\ \A b \in Decisions \ {Unusable} : Parent(b) \in Decisions \cup {Genesis}

\* "This value MUST be either equal to or an ancestor of headBlockHash": the
\* safe and the final block of every execution client, through reorgs and late
\* syncs.
SafeIsAncestor ==
    \A v \in Validators : Ancestor(safe[v], head[v]) /\ Ancestor(fin[v], head[v])

\* When calls stop failing and rounds are long enough, every height is decided
\* and, unless an INVALID payload was decided, every execution client ends up
\* with the last decided block as its head.
AllAdopt ==
    <>[](/\ Len(decided) = MaxHeight
         /\ \/ \E b \in Decisions : Invalid(b)
            \/ \A v \in Validators : head[v] = decided[MaxHeight])
=============================================================================
