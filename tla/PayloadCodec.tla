----------------------------- MODULE PayloadCodec -----------------------------
(***************************************************************************)
(* The way of an execution payload from the proposer's execution client to *)
(* those of the validators: the JSON methods of ExecutionPayloadEnvelope   *)
(* and ExecutableData (execution/evm/primitives.go), composed as           *)
(* GetPayload, PrepareProposal, ProcessProposal and NewPayload do.         *)
(*                                                                         *)
(* A JSON object says of each field whether it is absent, null, an empty   *)
(* list or string, or some value; a Go struct whether it is nil, empty or  *)
(* some value.                                                             *)
(***************************************************************************)
EXTENDS FiniteSets

Bytes == {"logsBloom", "extraData"}
Fixed == {"parentHash", "feeRecipient", "stateRoot", "receiptsRoot", "prevRandao",
          "blockNumber", "gasLimit", "gasUsed", "timestamp", "baseFeePerGas", "blockHash"}
Required == Bytes \cup Fixed \cup {"transactions"}
Optional == {"withdrawals", "blobGasUsed", "excessBlobGas"}
Ignored == {"executionWitness"}    \* decoded, but without a place in the struct
ExecutableData == Required \cup Optional
Fields == ExecutableData \cup Ignored

\* What a JSON field can be: only lists and byte strings can be empty.
Json(f) == {"absent", "null", "set"}
             \cup (IF f \in Bytes \cup {"transactions", "withdrawals"} THEN {"empty"} ELSE {})

Missing(v) == v \in {"absent", "null"}

\* What an execution client may send: at most one required field is missing.
Sent ==
    LET Optionals == {o \in [Optional \cup Ignored -> {"absent", "null", "set", "empty"}] :
                        \A f \in DOMAIN o : o[f] \in Json(f)}
        Complete == {r \in [Required -> {"set", "empty"}] : \A f \in Required : r[f] \in Json(f)}
        Damaged == {[r EXCEPT ![f] = v] : r \in Complete, f \in Required, v \in {"absent", "null"}}
    IN {[f \in Fields |-> IF f \in Required THEN r[f] ELSE o[f]] :
          r \in Complete \cup Damaged, o \in Optionals}

VARIABLES stage,
          envelope, built,  \* what the proposer's execution client sent
          json              \* what is on its way
pvars == <<stage, envelope, built, json>>

PInit ==
    /\ stage = "built"
    /\ envelope \in [executionPayload : {"set", "null"}, blockValue : {"set", "null"}]
    /\ built \in Sent
    /\ json = built

-----------------------------------------------------------------------------

Complete(j) == \A f \in Required : ~Missing(j[f])

\* The decoded struct, or nothing on an error.
UnmarshalJSON(j) ==
    IF Complete(j)
    THEN {[f \in ExecutableData |-> IF Missing(j[f]) THEN "nil" ELSE j[f]]}
    ELSE {}

\* Faulty variant: the list of transactions is made only when there are some.
MarshalJSONOmitsEmpty(e) ==
    [f \in Fields |->
        CASE f \in Ignored -> "absent"
          [] f \in ExecutableData /\ e[f] = "nil" -> "null"
          [] f = "transactions" /\ e[f] = "empty" -> "null"
          [] OTHER -> e[f]]

\* Faulty variant: a pointer field is copied without its value.
MarshalJSONForgets(e) ==
    [f \in Fields |->
        CASE f \in Ignored -> "absent"
          [] f = "excessBlobGas" -> "null"
          [] f \in ExecutableData /\ e[f] = "nil" -> "null"
          [] OTHER -> e[f]]

\* A nil pointer or list becomes null; the witness is left out.
MarshalJSON(e) ==
    [f \in Fields |->
        CASE f \in Ignored -> "absent"
          [] f \in ExecutableData /\ e[f] = "nil" -> "null"
          [] OTHER -> e[f]]

\* ExecutionPayloadEnvelope: both fields are required.
UnmarshalEnvelope(env, j) ==
    IF Missing(env.executionPayload) \/ Missing(env.blockValue) THEN {} ELSE UnmarshalJSON(j)

-----------------------------------------------------------------------------

\* PrepareProposal: GetPayload decodes the envelope and the payload goes into
\* the proposal's first transaction.
GetPayload ==
    /\ stage = "built"
    /\ LET decoded == UnmarshalEnvelope(envelope, json)
       IN \/ decoded = {} /\ stage' = "notProposed" /\ UNCHANGED json
          \/ \E e \in decoded :
               stage' = "proposed" /\ json' = MarshalJSON(e)
    /\ UNCHANGED <<envelope, built>>

\* ProcessProposal decodes it, and NewPayload encodes it for the validator's
\* execution client.
NewPayload ==
    /\ stage = "proposed"
    /\ LET decoded == UnmarshalJSON(json)
       IN IF decoded = {}
          THEN stage' = "rejected" /\ UNCHANGED json
          ELSE \E e \in decoded : stage' = "delivered" /\ json' = MarshalJSON(e)
    /\ UNCHANGED <<envelope, built>>

PNext == GetPayload \/ NewPayload

PSpec == PInit /\ [][PNext]_pvars

-----------------------------------------------------------------------------
(* Properties *)

\* What a proposer could decode and encode, every validator can decode: a block
\* without transactions, withdrawals or blob fields as well as a full one.
ProposedIsAccepted == stage # "rejected"

\* A validator's execution client gets what the proposer's has built: on every
\* field that a block hash covers the payload is the same after two decodings
\* and encodings, but for null where a field was absent.
RelayKeepsFields ==
    stage = "delivered" =>
      \A f \in ExecutableData :
        json[f] = built[f] \/ (Missing(json[f]) /\ Missing(built[f]))
=============================================================================
