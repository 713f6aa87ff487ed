# Scalerize: TLA+ models, checks and proofs

Scalerize is a Cosmos SDK node that keeps the state of an Ethereum execution
client (reth) in its own store. The execution client reads and writes two
tables through a unix socket; consensus drives the execution client through the
Engine API. This directory models the node from its source.

## Inventory

| Component | State | Operations | Interacts with |
|---|---|---|---|
| Database router (`app/db_eth.go`, `db_transport.go`, `constants.go`, `tables.go`, `errors.go`) | committed multistore, one shared write cache, map cursor id → key, `rwMutex`, `ethIteratorsCurrentKeyLock`, one goroutine per connection | accept, head of loop, receive, twenty operations | execution client over the socket; `Commit` of consensus on the same multistore |
| Request decoding (`app/db_eth.go` switch) | the buffer of a connection | one read per request, length checks and slices of each operation | the router |
| Engine API handlers (`execution/evm/abci_handler.go`, `engine.go`, `rpc.go`, `primitives.go`) | head, safe and finalized block of the execution client | PrepareProposal, ProcessProposal, PreBlock; JSON of payloads | CometBFT, execution client |
| Engine client connection (`execution/evm/client.go`, `jwt.go`, `config.go`, `app/client.go`) | two RPC clients, a token, a start-up channel, a shared ticker | Start, connect, refresh | execution client, node start-up |
| Node start-up (`app/app.go`, `cmd/scalerized/cmd/commands.go`) | mounted stores, goroutines | newApp, appExport, NewScalerizeApp | router, client connection |
| State queries (`app/state_transport.go`, `state_query_utils.go`) | the buffer of a connection | StateRoot, StateProof | CometBFT RPC; the server is never started |
| Testnet files (`client/testnet.go`) | node directories, keys, gentxs, genesis files | init-files | operator |
| Genesis export (`app/export.go`) | staking and distribution state in a discarded context | ExportAppStateAndValidators, prepForZeroHeightGenesis | SDK keepers |
| Node commit (`app/app.go`) | committed versions, application hash | finalize, commit | router (unlocked), consensus; not modelled |
| Command line, parameters, protobuf | none of their own | SDK wiring | not modelled |

What is hard about it:

* **concurrency**: a goroutine per connection, two reader-writer locks taken in
  different combinations, a write cache replaced without any lock, a map read
  outside its lock;
* **failure**: nothing recovers from a panic, so one bad request ends the node
  and with it every cursor; a failing engine call ends a round or halts a
  validator, even when the execution client has already acted on it; an export
  ignores some errors, `init-files` removes everything on some errors only;
* **ordering**: check-then-act between the table and the cursor map; node and
  execution client wait for each other at start-up; forkchoice updates that
  arrive before the execution client has synced;
* **timeouts**: connecting and token refresh are driven by tickers, rounds of
  consensus end early.

What makes the parts correct:

* router: writers are alone; a reader answers with what is in the table; a
  pending write is committed by a Write or not at all; a cursor walk over a table
  that does not change meanwhile shows every entry; every request is answered;
* decoding: complete messages are accepted, no operation runs without its fields,
  and a part of a message is not taken for a shorter one;
* Engine API: a decided payload is held by a quorum, every head is decided, the
  safe block is an ancestor of the head, a failed proposal is never decided, all
  execution clients end up with what was decided; a payload survives its codec;
* start-up: it ends once both endpoints are there, never before, and the token
  is then kept fresh;
* state queries: all proofs of an answer are of one committed version and of the
  keys asked for; a root is of a version that is there;
* testnet: a successful run is consistent, whatever was there before;
* export: no coin lost, no height left over, nobody exported who is not allowed.

`PROJECT.json` lists the hazards line by line with the properties about them.

## Modules

| Module | Models |
|---|---|
| `ExecutionTables` | the two tables, keys and their byte order, iterator ranges |
| `RWMutex` | Go's `sync.RWMutex` (external): a waiting writer stops new readers |
| `RequestDecoding` | the message layout and each length check of the switch |
| `Framing` | the stream below it: whatever one `conn.Read` returns is taken for one request |
| `RouterMessages` | requests, errors and replies |
| `DBRouter` | connections, locks, cache, cursors and every operation; its properties |
| `CursorWalk` | `DBRouter` and what a client has been shown during a walk |
| `DBRouterHistory` | `DBRouter` and the previous request of each connection |
| `TableService` | the abstract router: no goroutines, no locks, one step per call |
| `DBRouterRefines` | `DBRouter` implements `TableService`: the mapping |
| `DBRouterProofs` | the router's inductive invariant and theorems |
| `DBRouterRefinesProofs` | the refinement, step by step |
| `CursorWalkProofs` | the invariant and theorem about a walk |
| `EngineABCI` | the ABCI handlers of several validators over their execution clients |
| `PayloadCodec` | a payload on its way through JSON, from one execution client to the others |
| `NodeStartup` | NewScalerizeApp and its callers, `EVMClient.Start`, token refresh, the execution client's start |
| `StateQuery` | handleStateQuery, StateRoot, getProof, while the chain goes on |
| `TestnetFiles` | `testnet init-files`, step by step |
| `GenesisExport` | the export pass, stage by stage |
| `EngineABCIProofs`, `NodeStartupProofs`, `StateQueryProofs` | theorems about the modules they are named after |
| `CodecProofs` | theorems about `Framing`, `RequestDecoding` and `PayloadCodec` |
| `CommandProofs` | theorems about `GenesisExport` and `TestnetFiles` |
| `MC*` | constants for TLC; `MCCodecs` and `MCCommands` put two small modules into one run |

Definitions whose comment starts with *Faulty variant* are plausible mistakes in
the definition that follows them. No specification uses them; they are there to
show that each property notices such a mistake.

### How DBRouter corresponds to the code

`pc[c]` says where the goroutine of connection `c` is:

    closed -Accept-> top -LoopTop-> read -Receive-> rw -AcquireR / Announce, AcquireW->
        in -body-> top                         operations on the table alone
        in -body-> cl -AcquireCursorLock-> incl -PlaceCursor-> top
                                               First, Last, seeks, Upsert, Insert,
                                               Append, AppendDup, DeleteCurrent
        cl -AcquireCursorLock-> incl -body-> top
                                               Next, Prev, NextDup, NextNoDup,
                                               Current, DeleteCurrentDuplicates
        incl -Recurse-> rec -Nested-> top | stuck
                                               a move whose cursor is unset

* Key bytes are pairs of a key and a subkey number, ordered lexicographically;
  the one-byte key that line 39 of `db_eth.go` stores on every request is the
  smallest. Values are opaque.
* `cache` is the cachekv layer: pending sets and deletes over `store`. Its field
  `by` remembers the goroutine; the code has no such record, and no guard reads
  it except to tell a pending entry from none.
* A body of an operation is one step because `rwMutex` is held: a replacement of
  the cache by another goroutine in the middle of it loses the write whether it
  comes before or after the `Set`, since the operation keeps the old pointer.
  Operations that write the cache and then wait for the cursor lock write it
  when they capture the pointer; AppendDup writes it after the wait in the code,
  but nobody can look at that cache meanwhile.
* Data races are choices. An unlocked `Set` of line 39 during a flush replaces
  the same tree root, so `Write` may lose entries of `hashed_accounts` when
  another connection is in `conn.Read`. A map read during a map write ends the
  process (`MapRace`).
* `Panic` ends the process; `Restart` starts from any table contents that
  `app.Load` may find (`Loadable`), with no cursors and no connections.
* A response is written when the operation returns; `conn.Write` is taken not to
  block. `conn.Read` is taken to return one whole message, well formed or of an
  odd length; what the stream can do to a message is in `Framing`.
* `NextDup` is only called with `onlyVal = false`; codes 18 and 22 have no case.

### TableService and the refinement

`TableService` says what a client may rely on. A call takes effect in one step
on the committed tables, the pending writes and the cursor map; the answer is
what that step found. Five operations (Upsert, Insert, Append, AppendDup,
DeleteCurrent) stage a write and then wait for the cursor lock. Meanwhile another
connection may replace the cache and, Upsert having left `rwMutex` already, read,
write and flush; so there the cursor may follow in a second step (`StageFirst`,
`PlaceLater`). `MoveTarget`,
`ReadResult` and `WriteResult` define each operation as a function of a table, a
cursor position and a request; they share nothing with the actions of `DBRouter`
but the key order.

`DBRouterRefines` maps places of goroutines to phases of calls. A read takes
effect when it returns, although First, Last and the seeks look up their entry
before they wait for the cursor lock: `rwMutex` keeps that entry as it is. The
one exception is the key that line 39 of `db_eth.go` sets without a lock. With
three connections a flush can delete it and another request restore it between
the lookup and the answer, so the service lets a read miss it (`Shown`), and a
flush lose entries of `hashed_accounts` to it (`Commit`). Without `Shown` the
refinement fails.

### How EngineABCI corresponds to the code

A block is the sequence of payloads from genesis and stands for its hash.
`PrepareProposal` is three steps: `LatestBlockNumber` (`eth_blockNumber`),
`LatestBlock` (the block that has this number by then, or an error when the chain
has become shorter), and the forkchoice with attributes and `GetPayload`. Between
them the execution client may sync or change to another chain. `ProcessProposal` and `PreBlock` are one call each and one step each. Every
call can fail before or after the execution client acted on it (`CallFails`).
An error of PrepareProposal becomes a proposal without a payload (`Unusable`),
one of ProcessProposal a rejection, one of PreBlock a halt until `Restart`; that
is what baseapp and CometBFT make of them. A payload tag in `BlobTags` is one
with blob transactions, INVALID because the handler sends no versioned hashes.

Taken for granted of parts outside the repository: consensus decides at most one
proposal per height, one that a quorum accepted; an execution client answers
`newPayload` and `forkchoiceUpdated` as the Engine API says (an unknown head is
synced to, an ancestor of the head changes nothing) and can fetch a block that
another one has executed.

### How NodeStartup corresponds to the code

`main` is the place in NewScalerizeApp, newApp and appExport, `starter` that in
`EVMClient.Start`, `conn[e]` that of its two connecting goroutines. They share
one ticker; `queue` is the order in which they wait at its channel, `ticked` the
one tick it can hold. Time passes in units of the check interval; `age` is that
of the token in `engineClient`. The execution client opens its tables through
the router before it serves its endpoints, may crash, and may be of another
chain until the operator replaces it. The command (start, export, export at a
height), the flags (good ones for HTTP or a websocket, or what is wrong with
them) and what the host lets fail (a store, the socket) are chosen at the
beginning. Dialling an HTTP endpoint always works, dialling a websocket only
while the endpoint is served, so a redial of the refresh loop can fail and leaves
the old token. The router is started and then listens in a step of its own. That
the refresh loop runs within `RefreshDelay` of its tick is an assumption about
time, without which no bound on the token's age could hold.

### The other modules

* `StateQuery` counts bytes of a message and represents keys by 40-byte parts.
  The request's keys live in the buffer that `append(address, key...)` writes
  into (`slots`). Header `h` carries the application hash of version `h - 1`. A
  block is stored before its version is committed, versions are pruned, and every
  call (client, block, block by hash, ABCI query) may fail.
* `PayloadCodec` tracks for every JSON field whether it is absent, null, empty
  or set, through the four methods in the order the handlers call them.
* `Framing`: `Send` puts a message of any length into the stream, also behind the
  rest of an earlier one; `Read` returns any number of bytes that are there, up to
  the buffer's length.
* `TestnetFiles`: each step of a node can fail, with `os.RemoveAll` or without.
  A key is the run and node it was made for; an address is its last byte.
  Collecting gentxs belongs to the SDK, which reads all files of the directory.
  For zero validators the command succeeds and writes nothing; a negative number
  ends it in `make`, before any file, and is left out.
* `GenesisExport`: a step is a loop or a call of the pass. Where the code ignores
  errors (withdrawals, iterations over validators, redelegations and unbondings,
  `SetValidator`) any part of the step may be left undone; `missed` remembers it
  where the properties must tell. Every checked error ends the process. The
  validator update panics at a jailed validator in the power index (SDK).

## Runs

| Run | Instance | Shows |
|---|---|---|
| `router_three` | 3 connections, 1 shared cursor, 1 key, `hashed_accounts`, 15 operations | `TypeOK`, `Exclusion`, `MapExclusion`, `StableReads`, `PendingBelongsToUnfinished`, `FlushIsForeign`, `StuckFreezesDatabase`, `RefinesService` |
| `live` | 2 connections, private cursors, 1 entry of `hashed_storages`, deadlock checked | `EveryRequestAnswered`, and `RefinesService` for the operations on duplicates |
| `walk_alone` | 1 connection, both tables and an unknown one, 2 keys of 2 subkeys, odd lengths, panics and restarts | `WalkComplete`, `RefinesService` |
| `walk_shared` | 3 connections, 1 shared cursor, both tables, 2 keys of 1 subkey, deletions and flushes | `WalkComplete` while others move the cursor; a flush that changes the table ends the walk |
| `codecs` | 22 operation codes, two kinds of table, a buffer of 92 bytes and up to 95 in the stream; the 18 fields of a payload | a complete message in one piece is accepted (`CompleteIsAccepted`), what is run has its fields (`AcceptedIsComplete`), a first part is refused but for two cases that no length can tell (`CutRequestsRefused`); a payload gets through unchanged (`ProposedIsAccepted`, `RelayKeepsFields`) |
| `engine` | 3 validators, 2 of them a quorum, 3 heights, 2 faults, a blob payload per height | `TypeOK`, `UnusableNeverDecided`, `DecidedIsHeld`, `HeadIsDecided`, `SafeIsAncestor`, `AllAdopt` |
| `startup` | 2 crashes, 3 commands, 9 kinds of flags, 3 of hosts, wrong or right chain, refresh every 2 intervals and up to 1 late | `TypeOK`, `HandlersHaveClients`, `StartupCompletes`, `TokenSettles` |
| `state_query` | heights 2..6, 2 versions kept, up to 2 storage keys | `ProofsMatchRequest`, `ProofsOfOneVersion`, `RootsAreCommitted`, `DecodesWholeMessages` |
| `commands` | 2 runs, 0 to 4 nodes, 3 octet values, 2 failing steps; 2 validators, 1 delegator | `SuccessIsConsistent`, `CountedAddressesDiffer`, `FaultFreeSucceeds`; `CoinsConserved`, `HeightsReset`, `ExportedAreAllowed` |

Runs that end in a counterexample, each against a comment in `db_eth.go`:

| Run | Comment | What the code does |
|---|---|---|
| `put_then_write` | 556 "Put: adds a new entry" | the head of the loop (18) drops the cached entry before the connection's Write can flush it |
| `append_first` | 925 "Append: stores new entries in the table" | the greatest key of a table without entries is the router's one-byte key; slicing it panics |
| `next_unset` | 722 "if current key is not set ... first entry is returned" | First is called with the cursor lock held and locks it again |

**Bounds.** Committed tables change only when one connection flushes what a
second one wrote, so a property about a third one that watches, a reader or a
stuck goroutine, needs three connections; with two it would hold for the wrong
reason. Two connections are enough for what one goroutine does to one other.
Two keys give a key to skip and a boundary between prefixes, two subkeys (in
`walk_alone`) a duplicate to skip. One value suffices because no operation compares values.
`SYMMETRY` on connections is used only where all name the same cursor and no
liveness is checked. `BufferBytes = 92` stands for 4096: it is past the longest
fixed part of a message (90 bytes), and `MaxUnread = 95` lets the stream hold more
than the buffer, so messages are cut by the read and by the buffer; beyond the
fixed parts no check depends on the length. Three validators of which two decide leave one
that misses payloads and must sync; three heights let it miss one, propose on
its old head and be overtaken; two faults suffice for a lost answer followed by
a failed finalization. Four nodes over three octet values make addresses
overflow. `CHECK_DEADLOCK FALSE` stands where goroutines can be stuck for good
(unset cursors), where the bounded system comes to its end (heights, runs of a
command, one export, one payload), or in runs that look for a counterexample.

**Fairness.** *DBRouter*: a goroutine that can go on does (the Go scheduler), and
whoever waits for a lock that is free again and again gets it (a reader is let
in when the writer it waited for unlocks; `sync.Mutex` switches to
first-in-first-out after a millisecond). Clients need not send anything and
nobody need restart the node. `EveryRequestAnswered` is under the named
assumption `PositionedClients`: clients move only cursors they have placed;
`next_unset` shows what happens without it. *EngineABCI*: consensus goes on,
handlers return, execution clients sync from a peer that has the block, a halted
validator is started again. Rounds may be too short and calls may fail, but
finitely often (`MaxFaults`), which is CometBFT's growing round timeouts and a
network that recovers. *NodeStartup*: goroutines run, time passes, calls end, the
execution client boots when it is down and a client of another chain is
replaced; it crashes finitely often. A channel serves its receivers in order.

**Seen while modelling.** Behaviour that the models contain and that no comment,
document or test speaks about:

* Next after an Upsert whose key is not committed skips the entry that follows
  (`db_eth.go:743`); Delete of a bare key leaves a duplicate that another
  connection has pending (`db_eth.go:591`).
* First can miss the router's one-byte key: a flush deletes it, First looks its
  entry up, another request restores it (`db_eth.go:39`), and only then First
  places the cursor (`db_eth.go:644`), behind the restored key. It takes three
  connections. `WalkComplete` therefore leaves that key out.
* The rest of a message that was not read in one piece, or is longer than 4096
  bytes, is taken for the next request (`db_eth.go:25`). Of the first part
  `CutRequestsRefused` names the two cases that are run: part of a value, and the
  Delete of a duplicate without its subkey.
* Upsert, Insert and Append to the regular table pass the length check with 43 to
  49 bytes and panic at the value's slice (`db_eth.go:306`); `AcceptedIsComplete`
  names these lengths.
* A validator whose execution client is still syncing proposes on its old head
  (`abci_handler.go:24`); if that is decided, a block that was final for the
  others is no longer on the chain. `SafeIsAncestor` is therefore about one
  forkchoice, not about the history of final blocks.
* A payload with blobs is INVALID at every execution client and decided all the
  same (`abci_handler.go:119`); the head stays where it was, and `AllAdopt` makes
  an exception for it.
* The first handlers may run with a token older than its refresh interval,
  because the refresh loop starts when both endpoints are up (`client.go:48`).
* An export at a height starts the router before the stores are mounted
  (`app.go:191`); the execution client's first request ends the process.
  `StartupCompletes` leaves that command out.
* A storage proof is looked up under 120 bytes, the address and an 80-byte key
  (`state_query_utils.go:88`); no key of `hashed_storages` has that length.
* `init-files` for fewer validators than before fails on the old gentxs
  (`testnet.go:378`); `FaultFreeSucceeds` makes an exception for it.
* A validator that `export --for-zero-height` marks jailed stays in the power
  index (`export.go:208`), so the update that follows panics, unless it was
  jailed before. When storing it fails, or closing the iterator, the old set is
  exported; `ExportedAreAllowed` leaves these cases out.
* When the iteration that starts the validators' histories again ends early
  (`export.go:117`), the pass ends in a panic at the first delegation of one that
  was left out, or exports without those that have none.

## Proofs

Every theorem holds for all values of the constants. The assumptions on the
constants stand in the modules that declare them, and TLC evaluates them in the
runs: markers for "none" are not ordinary values, requests are built from the
constants, quorums intersect, a loaded table has nothing but the router's own
mark under the router's one-byte key (no message can name that key).

None of the properties is inductive as it stands. Each proof module states the
inductive invariant, proves that the initial states have it and that each action
keeps it, and derives the properties.

**Router (`DBRouterProofs`).** `TypeCorrect`, `TablesExclusive`,
`CursorsExclusive`, `PendingWrites` prove the invariants `TypeOK`, `Exclusion`,
`MapExclusion`, `PendingBelongsToUnfinished`; `ForeignFlush` that `OP_WRITE`
commits only the writes of other connections; `StuckFreezes` that a stuck
goroutine freezes tables and cursors; `ReadsStable` that what a reader looked up
is still in the table when it answers. `IInv` adds to `TypeOK`:

* `RequestsOK`: a request being served names a known table and a handled
  operation, and only certain operations reach certain places;
* `TableLockOK`, `CursorLockOK`: each mutex is held by exactly the goroutines
  whose `pc` is between lock and unlock, which is what the exclusion properties
  follow from;
* `PendingOK`: the goroutine of a pending entry is at the head of its loop or
  about to place its cursor, and its operation is not one that could still call
  First from there. That excludes the goroutine that is flushing.

The argument goes by the *shape* of a step. Every operation either responds,
goes on to the cursor lock, or panics, leaves the tables typed and marks what it
caches as its own (`Shape`, proved once per operation). Each shape preserves the
invariant (`OperatesKeeps`); the remaining steps are done one by one.

`ReadsStable` needs `ReadInv` besides: `SentinelOK`, the one-byte key holds the
router's mark or nothing, and `AnswersOK`, the reply of First, Last or a seek
that waits for the cursor lock is an entry of its table, or the mark. It is kept
because a flush, the only step that changes a table under `rwMutex`, runs alone
(`WriteRunsAlone`).

**Refinement (`DBRouterRefinesProofs`).** `RouterRefines` proves
`Spec => RefinesService`. The mapping needs `RInv`:

* `NoReplyYet`: a goroutine whose operation has not found anything yet has no
  reply, so the mapped answer does not change when it gets one later;
* `ArgumentsOK`: an operation without a cursor names none, SeekByKeySubkey is in
  `hashed_storages`, what is stored has a key;
* `UnsetOK`: a cursor without a position stays so while its move is in the inner
  call, since the goroutine holds the cursor lock there;
* `FoundOK`: what First, Last or a seek has found (`Finds`) it would find in the
  table as it is now, the one-byte key apart. This is why a read may take effect
  when it returns.

It is inductive together with `IInv` (`RInductive`; `FoundOK` is kept because a
flush finds nobody between looking up and placing, `WriteFindsNobody`). The
argument has three layers. First, the operators: an entry that an iterator stands
on is the one that `LeastOf`, `GreatestOf` or `SecondOf` chooses, because the byte
order is total (`Chosen`, `ChosenSecond`), and each outcome of an operation is
that of `ReadResult` or `WriteResult`. Second, the mapped state: how ending an
operation, staging in the cache, going on to the cursor lock or replacing the
cache changes the service's variables (`AnswerStep`, `StageStep`,
`StageFirstStep`, `CleanPending`, `SilentStep`). Third, one lemma per operation,
from `GetReads` to `WriteCommits`, puts the two together; `StepRefines` collects
them and the steps of connections, panics and restarts.

**Walks (`CursorWalkProofs`).** `WalksComplete` proves `WalkComplete`, with
`WInv` on top of the router's invariants (`WalkInvariance`): while a walk is on,
its cursor is on an entry, what the client has been shown is exactly the entries
up to the cursor, after a drained NextDup no duplicate follows, and the entry
that a waiting First has found stays the least one, the one-byte key apart.

**Engine API (`EngineABCIProofs`).** `TypeCorrect`, `NoUnusableDecision`,
`QuorumHoldsDecision`, `HeadsAreDecided`, `SafePrecedesHead` prove `TypeOK`,
`UnusableNeverDecided`, `DecidedIsHeld`, `HeadIsDecided`, `SafeIsAncestor`. The
invariant adds `RoundOK`, `ProposalOK` (what a round builds on was decided),
`VotesOK` (who accepted a proposal holds its block or found it INVALID),
`ClientsOK` (every client holds genesis and all its head is built on, none holds
an INVALID block, and what one wants to sync to was decided) and
`AncestorsAgreed` (so were all ancestors of what was decided): whatever block a
proposer finds under the number it was told, it was decided.

**Start-up (`NodeStartupProofs`).** `TypeCorrect` and `HandlersConnected` prove
`TypeOK` and `HandlersHaveClients`; `TokenStaysFresh` is the safety half of
`TokenSettles`: over HTTP, once the token is fresh with the refresh loop running,
it is never again older than the interval and the delay of the loop. `QueueOK` says that a goroutine is in the ticker's queue exactly
while it waits, `StarterOK` what each place of `EVMClient.Start` has behind it.

**State queries (`StateQueryProofs`).** `ProofsMatch`, `ProofsOneVersion`,
`RootsCommitted` and `WholeMessagesDecoded` prove `ProofsMatchRequest`,
`ProofsOfOneVersion`, `RootsAreCommitted` and `DecodesWholeMessages`. The first is
about `append(address, key...)` writing into
the request's own buffer; `BufferOK` says that only the first place of it is
overwritten and the keys still to be taken are those the client sent. The third
needs `ChainOK`: a block is stored at most one ahead of the last version.

**Codecs (`CodecProofs`).** `CompleteAccepted`, `AcceptedComplete`, `CutRefused`
prove the three properties of `Framing`, for every length of buffer and stream,
`ProposalsAccepted` and `FieldsRelayed` those of `PayloadCodec`.

**Commands (`CommandProofs`).** `HeightsAreReset` and `OnlyAllowedExported` prove
`HeightsReset` and `ExportedAreAllowed` from what each stage of the export leaves
behind (`StagesOK`, `HeightsOK`, `PowersOK`). `SuccessConsistent`,
`AddressesDiffer`, `FaultFreeRuns` prove the three properties of `TestnetFiles`;
the invariant says what the loop over the nodes has written so far (`LoopOK`,
`AddressesOK`), which gentxs are on disk (`GentxsOK`) and what the genesis files
hold (`WrittenOK`, `GenesisOK`).

**Only model-checked.** `EveryRequestAnswered`, `AllAdopt`, `StartupCompletes` and
`TokenSettles`, because liveness is out of the prover's reach, and `CoinsConserved`,
because it compares sums over finite sets, whose lemmas need induction over data.

## Not modelled

* **Node commit.** The repository's part is the call of `Write` in OP_WRITE and
  `app.Load`, which are modelled. FinalizeBlock, the working hash and Commit are
  SDK and IAVL code that runs against a flush without any synchronisation. What
  the race can produce is not determined by this repository, and nothing in it
  says what should hold.
* **Aliasing of slices** between replies, cursors and cached values
  (`db_eth.go:861`): values are opaque in the models.
* **`testnet start`** runs an in-process network of the SDK.
* The state router is modelled although no code starts it.
* Command-line wiring, configuration templates, parameters and protobuf files
  have no state of their own.

## Plan

1. Core (done): `ExecutionTables`, `RWMutex`, `RequestDecoding`, `DBRouter`,
   `CursorWalk`, `DBRouterHistory`, `DBRouterProofs`.
2. Around the router (done): `EngineABCI`, `PayloadCodec`, `NodeStartup`,
   `StateQuery`, `Framing`, `TestnetFiles`, `GenesisExport`.
3. The abstract router (done): `TableService`, `DBRouterRefines`.
4. Theorems (done): every safety property of every run but `CoinsConserved`,
   and the refinement of `TableService`.
