---------------------------- MODULE GenesisExport ----------------------------
(***************************************************************************)
(* ExportAppStateAndValidators and prepForZeroHeightGenesis                *)
(* (app/export.go): one pass over the staking and distribution state that  *)
(* turns it into a genesis, at the last height or, forZeroHeight, as if    *)
(* the chain began.  A step is one loop or one call of the pass.  The      *)
(* keepers belong to the SDK and are modelled by what the pass needs of    *)
(* them.                                                                   *)
(***************************************************************************)
EXTENDS Integers, FiniteSets, FiniteSetsExt, Functions

CONSTANTS Validators, Delegators,
          Height,         \* app.LastBlockHeight()
          Coins           \* amounts a commission or a reward may have

ASSUME ExportAssumption ==
    /\ IsFiniteSet(Validators) /\ IsFiniteSet(Delegators)
    /\ Height \in Nat \ {0}
    /\ Coins \subseteq Nat

Delegations == Delegators \X Validators
NoAddress == "not an address"     \* an entry of the list that is not bech32

VARIABLES stage,        \* the next loop or call
          zero,         \* forZeroHeight
          allowed,      \* jailAllowedAddrs
          dels,         \* the delegations
          commission,   \* accumulated commission of a validator
          reward,       \* what a delegation may withdraw
          scraps,       \* the part of a validator's outstanding rewards nobody can claim
          paid,         \* coins in accounts
          pool,         \* the community pool
          ctxHeight,    \* ctx.BlockHeight()
          history,      \* validators with historical rewards to start from
          since,        \* height at which a delegation's reward period starts
          created,      \* the latest creation height of redelegations and unbondings
          unbonding,    \* UnbondingHeight of a validator
          jailed,       \* validators marked jailed
          powers,       \* validators in the power index
          active,       \* the last validator set, which WriteValidators exports
          missed,       \* an ignored error has left entries or validators as they were
          closeFailed,  \* the iterator reported an error when it was closed
          result        \* the exported height, "failed", or nothing yet

evars == <<stage, zero, allowed, dels, commission, reward, scraps, paid, pool, ctxHeight,
           history, since, created, unbonding, jailed, powers, active, missed, closeFailed,
           result>>

rewards == <<commission, reward, scraps, paid, pool>>
periods == <<history, since>>
staking == <<created, unbonding, jailed, powers, active, missed, closeFailed>>
params == <<zero, allowed, dels>>

\* Failing withdrawals leave the coins where they are.
EInit ==
    /\ stage = "context"
    /\ zero \in BOOLEAN
    /\ allowed \in SUBSET (Validators \cup {NoAddress})
    /\ dels \in SUBSET Delegations
    /\ commission \in [Validators -> Coins]
    /\ reward \in [Delegations -> Coins]
    /\ \A d \in Delegations \ dels : reward[d] = 0
    /\ scraps \in [Validators -> Coins]
    /\ paid = 0 /\ pool = 0
    /\ ctxHeight = 0
    /\ history = Validators
    /\ since = [d \in Delegations |-> Height]
    /\ created = Height
    /\ unbonding = [v \in Validators |-> Height]
    /\ jailed \in SUBSET Validators
    /\ powers = Validators \ jailed
    /\ active = powers
    /\ missed = FALSE /\ closeFailed = FALSE
    /\ result = "none"

Outstanding(v) ==
    scraps[v] + commission[v] + SumFunctionOnSet(reward, {d \in Delegations : d[2] = v})

Stop(r) == stage' = "stopped" /\ result' = r
GoOn(s) == stage' = s /\ UNCHANGED result

-----------------------------------------------------------------------------
(* The stages, in the order of the code *)

\* ctx is the context of a transaction check at the last height: nothing that
\* the pass changes reaches the disk.
Context ==
    /\ stage = "context"
    /\ ctxHeight' = Height
    /\ GoOn(IF zero THEN "list" ELSE "export")
    /\ UNCHANGED <<params, rewards, periods, staking>>

\* log.Fatal at an entry that is not an address, before anything is touched.
CheckList ==
    /\ stage = "list"
    /\ IF NoAddress \in allowed THEN Stop("fatal") ELSE GoOn("commissions")
    /\ UNCHANGED <<params, rewards, ctxHeight, periods, staking>>

\* Errors are ignored, of a withdrawal as of the iteration, which may end early:
\* any of the withdrawals may not happen.
WithdrawCommissions ==
    /\ stage = "commissions"
    /\ \E ok \in SUBSET Validators :
         /\ paid' = paid + SumFunctionOnSet(commission, ok)
         /\ commission' = [v \in Validators |-> IF v \in ok THEN 0 ELSE commission[v]]
    /\ GoOn("rewards")
    /\ UNCHANGED <<params, reward, scraps, pool, ctxHeight, periods, staking>>

WithdrawRewards ==
    /\ stage = "rewards"
    /\ \E ok \in SUBSET dels :
         /\ paid' = paid + SumFunctionOnSet(reward, ok)
         /\ reward' = [d \in Delegations |-> IF d \in ok THEN 0 ELSE reward[d]]
    /\ GoOn("clear")
    /\ UNCHANGED <<params, commission, scraps, pool, ctxHeight, periods, staking>>

\* Faulty variant: the context keeps the height of the last block.
ClearHistoryAtHeight ==
    /\ stage = "clear"
    /\ history' = {}
    /\ GoOn("validators")
    /\ UNCHANGED <<params, rewards, ctxHeight, since, staking>>

\* Slash events and historical rewards go; from here the height is zero.
ClearHistory ==
    /\ stage = "clear"
    /\ history' = {}
    /\ ctxHeight' = 0
    /\ GoOn("validators")
    /\ UNCHANGED <<params, rewards, since, staking>>

\* Faulty variant: the outstanding rewards are not donated.
ReinitValidatorsOnly ==
    /\ stage = "validators"
    /\ scraps' = [v \in Validators |-> 0]
    /\ commission' = [v \in Validators |-> 0]
    /\ reward' = [d \in Delegations |-> 0]
    /\ history' = Validators
    /\ GoOn("delegations")
    /\ UNCHANGED <<params, paid, pool, ctxHeight, since, staking>>

\* What was not withdrawn goes to the community pool, then the hook
\* AfterValidatorCreated starts the validator's accounts afresh.  An iteration
\* that ends early, its error ignored, leaves the other validators without a
\* history.
ReinitValidators ==
    /\ stage = "validators"
    /\ \E ok \in SUBSET Validators :
         /\ pool' = pool + SumFunctionOnSet([v \in Validators |-> Outstanding(v)], ok)
         /\ scraps' = [v \in Validators |-> IF v \in ok THEN 0 ELSE scraps[v]]
         /\ commission' = [v \in Validators |-> IF v \in ok THEN 0 ELSE commission[v]]
         /\ reward' = [d \in Delegations |-> IF d[2] \in ok THEN 0 ELSE reward[d]]
         /\ history' = ok
    /\ GoOn("delegations")
    /\ UNCHANGED <<params, paid, ctxHeight, since, staking>>

\* The hooks need a history to start from, or panic; then the height of the
\* context is set back.
ReinitDelegations ==
    /\ stage = "delegations"
    /\ IF \E d \in dels : d[2] \notin history
       THEN Stop("panic") /\ UNCHANGED <<since, ctxHeight>>
       ELSE /\ since' = [d \in Delegations |-> IF d \in dels THEN ctxHeight ELSE since[d]]
            /\ ctxHeight' = Height
            /\ GoOn("creation")
    /\ UNCHANGED <<params, rewards, history, staking>>

\* Ignored errors of the iterations, SetRedelegation and SetUnbondingDelegation
\* leave some of the entries at their old height.
ResetCreationHeights ==
    /\ stage = "creation"
    /\ created' \in {0, created} /\ missed' = (created' # 0)
    /\ GoOn("jail")
    /\ UNCHANGED <<params, rewards, ctxHeight, periods, unbonding, jailed, powers, active, closeFailed>>

\* The validators ok are stored with unbonding height zero, those of them outside
\* the list marked jailed; the power index is not touched.  An error of
\* SetValidator is ignored, one of iter.Close is logged and ends the pass.
StoreValidators(ok, list) ==
    /\ unbonding' = [v \in Validators |-> IF v \in ok THEN 0 ELSE unbonding[v]]
    /\ jailed' = IF allowed = {} THEN jailed ELSE jailed \cup (ok \ list)
    /\ missed' = (missed \/ ok # Validators)
    /\ closeFailed' \in BOOLEAN
    /\ GoOn(IF closeFailed' THEN "export" ELSE "update")
    /\ UNCHANGED <<params, rewards, ctxHeight, periods, created, powers, active>>

\* Faulty variant: the listed validators are jailed.
JailListed ==
    /\ stage = "jail"
    /\ \E ok \in SUBSET Validators : StoreValidators(ok, Validators \ allowed)

JailOthers ==
    /\ stage = "jail"
    /\ \E ok \in SUBSET Validators : StoreValidators(ok, allowed)

\* ApplyAndReturnValidatorSetUpdates panics at a jailed validator in the power
\* index.
UpdateValidators ==
    /\ stage = "update"
    /\ IF powers \cap jailed # {} THEN Stop("panic") /\ UNCHANGED active
       ELSE active' = powers /\ GoOn("export")
    /\ UNCHANGED <<params, rewards, ctxHeight, periods, created, unbonding, jailed, powers,
                   missed, closeFailed>>

\* ExportGenesis, the encoding or WriteValidators may fail.
Export ==
    /\ stage = "export"
    /\ Stop("failed") \/ Stop(IF zero THEN "zero" ELSE "next")
    /\ UNCHANGED <<params, rewards, ctxHeight, periods, staking>>

\* An error that is not ignored ends the process, by a panic or log.Fatal; what
\* the pass has changed is lost with its context.
KeeperFails ==
    /\ stage \in {"commissions", "rewards", "validators", "delegations", "jail", "update"}
    /\ Stop("panic")
    /\ UNCHANGED <<params, rewards, ctxHeight, periods, staking>>

ENext ==
    \/ Context \/ CheckList \/ WithdrawCommissions \/ WithdrawRewards \/ ClearHistory
    \/ ReinitValidators \/ ReinitDelegations \/ ResetCreationHeights \/ JailOthers
    \/ UpdateValidators \/ Export \/ KeeperFails

ESpec == EInit /\ [][ENext]_evars

-----------------------------------------------------------------------------
(* Properties *)

Total == paid + pool + SumFunction([v \in Validators |-> Outstanding(v)])

\* No coin appears or disappears, whichever of the withdrawals fail unnoticed:
\* what is not paid out is donated before the accounts are started afresh.
CoinsConserved == [][Total' = Total]_evars

\* A genesis for height zero names no later height: the reward periods of all
\* delegations start at height zero from a history of their validator, even when
\* the iteration that starts the histories ends early unnoticed, although the
\* pass is done in a context of the last height; and unless an ignored error has
\* left one as it was, redelegations, unbondings and validators date from zero.
HeightsReset ==
    result = "zero" =>
      /\ ctxHeight = Height
      /\ \A d \in dels : since[d] = 0 /\ d[2] \in history
      /\ ~missed => created = 0 /\ \A v \in Validators : unbonding[v] = 0

\* With a list of allowed validators the exported set holds nobody else, unless
\* a validator could not be stored or the iterator not be closed, which the code
\* ignores or only logs.
ExportedAreAllowed ==
    result = "zero" /\ allowed # {} /\ ~missed /\ ~closeFailed => active \subseteq allowed
=============================================================================
