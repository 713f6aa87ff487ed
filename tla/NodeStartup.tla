----------------------------- MODULE NodeStartup -----------------------------
(***************************************************************************)
(* Starting a node, for `start` or for `export`: NewScalerizeApp           *)
(* (app/app.go) and newApp / appExport (cmd/scalerized/cmd/commands.go)    *)
(* with the goroutines they start: EVMClient.Start, its two connectors and *)
(* the token refresh (execution/evm/client.go, jwt.go), and StartDBRouter  *)
(* (app/db_transport.go).                                                  *)
(*                                                                         *)
(* The execution client is outside the repository.  Its database is the    *)
(* router's socket, so it serves its two endpoints only after it has read  *)
(* its tables there; the node in turn waits for both endpoints.            *)
(*                                                                         *)
(* Time advances in RPC check intervals.  A call takes any time; the       *)
(* refresh loop, which makes none, may be late by RefreshDelay.            *)
(***************************************************************************)
EXTENDS Naturals, Sequences

CONSTANTS RefreshInterval,  \* rpcJWTRefreshInterval / rpcCheckInterval
          RefreshDelay,     \* by how much the refresh loop may be late
          MaxCrashes        \* bound: crashes of the execution client

ASSUME StartupAssumption ==
    /\ RefreshInterval \in Nat \ {0} /\ MaxCrashes \in Nat
    /\ RefreshDelay \in Nat /\ RefreshDelay < RefreshInterval

Endpoints == {"engine", "rpc"}
Oldest == RefreshInterval + RefreshDelay   \* of a token that is kept fresh
Old == Oldest + 1              \* bound: a token's age counts up to here

\* newApp; appExport of the latest state, or of a given height.
Commands == {"start", "export", "exportHeight"}

\* Good flags, with endpoints of either transport; or what is wrong with them: a
\* flag is missing, is none that NewClient or NewEVMConfig takes, or is a URL
\* that can be parsed and not dialled.
GoodFlags == {"http", "ws"}
Flags == GoodFlags \cup {"missing", "clientType", "interval", "chainID", "url", "secret", "scheme"}

\* What the node's host lets fail: a store that cannot be registered or loaded,
\* a socket that cannot be made.
Faults == {"none", "stores", "socket"}

VARIABLES command,  \* what the operator runs
          flags,    \* how its flags are
          fault,    \* what its host lets fail
          main,     \* NewScalerizeApp and its caller
          alive,    \* FALSE after a panic, or an error that ends the process
          loaded,   \* the stores of the multistore are mounted
          router,   \* StartDBRouter: "off", "started", "listening"
          starter,  \* EVMClient.Start
          conn,     \* its two connecting goroutines
          queue,    \* those that wait for the shared ticker, in order
          ticked,   \* a tick is in the ticker's channel
          refresher, elapsed,  \* refreshJWTForClient and its ticker
          age,      \* age of the token in engineClient
          exec,     \* the execution client
          serving,  \* endpoints it serves
          chain,    \* its chain id is the configured one
          crashes

given == <<command, flags, fault>>
node == <<given, main, alive, loaded, router>>
engineSide == <<starter, conn, queue, ticked, refresher, elapsed, age>>
client == <<exec, serving, chain, crashes>>
vars == <<node, engineSide, client>>

Init ==
    /\ command \in Commands /\ flags \in Flags /\ fault \in Faults
    /\ main = "new" /\ alive = TRUE /\ loaded = FALSE /\ router = "off"
    /\ starter = "off" /\ conn = [e \in Endpoints |-> "off"]
    /\ queue = << >> /\ ticked = FALSE
    /\ refresher = "off" /\ elapsed = 0 /\ age = 0
    /\ exec = "down" /\ serving = {} /\ chain \in BOOLEAN /\ crashes = 0

-----------------------------------------------------------------------------
(* NewScalerizeApp and its callers *)

Main(from, to) == alive /\ main = from /\ main' = to /\ UNCHANGED alive

\* newApp panics on an error, appExport's caller exits.
Fail(from) == alive /\ main = from /\ main' = "failed" /\ alive' = FALSE

\* URLs are parsed and the secret's file is read.
NewEVMConfig == flags \notin {"url", "secret"}

\* The flags are read with unchecked type assertions: a missing one panics.
NewClient ==
    /\ flags \notin {"missing", "clientType", "interval", "chainID"}
    /\ NewEVMConfig

\* NewClient, then the goroutine of Start.
Configure ==
    /\ \/ ~NewClient /\ Fail("new") /\ UNCHANGED starter
       \/ NewClient /\ Main("new", "load") /\ starter' = "begin"
    /\ UNCHANGED <<given, loaded, router, conn, queue, ticked, refresher, elapsed, age, client>>

\* RegisterStreamingServices, RegisterStores and Load, while Start runs already.
Load ==
    /\ \/ fault = "stores" /\ Fail("load") /\ UNCHANGED loaded
       \/ fault # "stores" /\ Main("load", "router") /\ loaded' = (command # "exportHeight")
    /\ UNCHANGED <<given, router, engineSide, client>>

\* Faulty variant: the router is started after the wait.
GoRouterLate ==
    /\ Main("router", "wait")
    /\ UNCHANGED <<given, loaded, router, engineSide, client>>

GoRouter ==
    /\ Main("router", "wait")
    /\ router' = "started"
    /\ UNCHANGED <<given, loaded, engineSide, client>>

\* The router removes the old socket, takes the cache, makes the directory and
\* listens, or panics.  That the type of client is known was NewClient's check.
StartDBRouter ==
    /\ alive /\ router = "started"
    /\ \/ fault = "socket" /\ alive' = FALSE /\ UNCHANGED router
       \/ fault # "socket" /\ router' = "listening" /\ UNCHANGED alive
    /\ UNCHANGED <<given, main, loaded, engineSide, client>>

\* <-ensureClientCreatedCh meets the send at the end of Start, whose deferred
\* call stops the ticker and starts the refresh loop.
Connected ==
    /\ Main("wait", "app") /\ starter = "send"
    /\ starter' = "done"
    /\ refresher' = "idle" /\ elapsed' = 0
    /\ UNCHANGED <<given, loaded, router, conn, queue, ticked, age, client>>

\* newApp returns the application; appExport first loads the height.
Finish ==
    /\ Main("app", "done")
    /\ loaded' = (loaded \/ command = "exportHeight")
    /\ UNCHANGED <<given, router, engineSide, client>>

-----------------------------------------------------------------------------
(* EVMClient.Start *)

\* The endpoint's goroutine is at `for range ticker.C` again.
Waits(e) ==
    IF ticked
    THEN conn' = [conn EXCEPT ![e] = "tick"] /\ ticked' = FALSE /\ UNCHANGED queue
    ELSE conn' = [conn EXCEPT ![e] = "wait"] /\ queue' = Append(queue, e) /\ UNCHANGED ticked

\* Faulty variant: the wait group counts one goroutine.
WaitOne ==
    /\ starter = "wait" /\ \E e \in Endpoints : conn[e] = "ok"
    /\ starter' = "send"
    /\ UNCHANGED <<conn, queue, ticked>>

\* wg.Wait returns when both goroutines are done.
Wait ==
    /\ starter = "wait" /\ \A e \in Endpoints : conn[e] = "ok"
    /\ starter' = "send"
    /\ UNCHANGED <<conn, queue, ticked>>

Start ==
    /\ alive
    /\ \/ /\ starter = "begin"
          /\ starter' = "wait"
          /\ conn' = [e \in Endpoints |-> "wait"]
          /\ queue' \in {<<"engine", "rpc">>, <<"rpc", "engine">>}
          /\ ticked' = FALSE
       \/ Wait
    /\ UNCHANGED <<node, refresher, elapsed, age, client>>

\* rpc.DialOptions and rpc.DialContext: an HTTP endpoint is not contacted, a
\* websocket is opened, and other schemes have no transport.
Dials(e) == flags = "http" \/ (flags = "ws" /\ e \in serving)

\* The engine client gets a new token, unless dialling fails.
dialRPCClient(e) == age' = IF e = "engine" /\ Dials(e) THEN 0 ELSE age

\* connect dials, then exchanges capabilities or asks for the network id.
Dial(e) ==
    /\ alive /\ conn[e] = "tick"
    /\ dialRPCClient(e)
    /\ IF Dials(e)
       THEN conn' = [conn EXCEPT ![e] = "call"] /\ UNCHANGED <<queue, ticked>>
       ELSE Waits(e)
    /\ UNCHANGED <<node, starter, refresher, elapsed, client>>

\* The answer; the goroutine ends only on success with the right chain.
connect(e) ==
    /\ alive /\ conn[e] = "call"
    /\ IF e \in serving /\ (e = "rpc" => chain)
       THEN conn' = [conn EXCEPT ![e] = "ok"] /\ UNCHANGED <<queue, ticked>>
       ELSE Waits(e)
    /\ UNCHANGED <<node, starter, refresher, elapsed, age, client>>

\* Faulty variant: a goroutine that got a tick keeps its place in the queue.
TickerKeepsWaiter ==
    IF queue = << >>
    THEN ticked' = TRUE /\ UNCHANGED <<queue, conn>>
    ELSE conn' = [conn EXCEPT ![Head(queue)] = "tick"] /\ UNCHANGED <<queue, ticked>>

\* One ticker for both goroutines: a tick goes to the one that has waited
\* longest, or into the channel, which holds one.
Ticker ==
    IF queue = << >>
    THEN ticked' = TRUE /\ UNCHANGED <<queue, conn>>
    ELSE /\ queue' = Tail(queue)
         /\ conn' = [conn EXCEPT ![Head(queue)] = "tick"]
         /\ UNCHANGED ticked

\* A check interval passes, unless the refresh loop would be too late.
Tick ==
    /\ alive /\ (refresher = "due" => elapsed < RefreshDelay)
    /\ IF starter = "wait" THEN Ticker ELSE UNCHANGED <<conn, queue, ticked>>
    /\ age' = IF age < Old THEN age + 1 ELSE age
    /\ IF refresher # "off"
       THEN /\ elapsed' = (elapsed + 1) % RefreshInterval
            /\ refresher' = IF elapsed' = 0 THEN "due" ELSE refresher
       ELSE UNCHANGED <<elapsed, refresher>>
    /\ UNCHANGED <<node, starter, client>>

\* Faulty variant: the loop dials the client without a token.
RefreshOther ==
    /\ alive /\ refresher = "due"
    /\ refresher' = "idle"
    /\ dialRPCClient("rpc")
    /\ UNCHANGED <<node, starter, conn, queue, ticked, elapsed, client>>

\* An error is logged, and the old client kept until the next time.
refreshJWTForClient ==
    /\ alive /\ refresher = "due"
    /\ refresher' = "idle"
    /\ dialRPCClient("engine")
    /\ UNCHANGED <<node, starter, conn, queue, ticked, elapsed, client>>

-----------------------------------------------------------------------------
(* The execution client *)

Boot ==
    /\ exec = "down"
    /\ exec' = "booting"
    /\ UNCHANGED <<node, engineSide, serving, chain, crashes>>

\* Its first request reaches the router.  A store that is not mounted makes
\* the handler panic.
ReadTables ==
    /\ exec = "booting" /\ alive /\ router = "listening"
    /\ IF loaded THEN exec' = "ready" /\ UNCHANGED alive
                 ELSE alive' = FALSE /\ UNCHANGED exec
    /\ UNCHANGED <<given, main, loaded, router, engineSide, serving, chain, crashes>>

Serve(e) ==
    /\ exec = "ready" /\ e \notin serving
    /\ serving' = serving \cup {e}
    /\ UNCHANGED <<node, engineSide, exec, chain, crashes>>

Crash ==
    /\ crashes < MaxCrashes /\ exec # "down"
    /\ crashes' = crashes + 1
    /\ exec' = "down" /\ serving' = {}
    /\ UNCHANGED <<node, engineSide, chain>>

\* The operator replaces an execution client of another chain.
Replace ==
    /\ ~chain /\ exec = "ready"
    /\ chain' = TRUE
    /\ exec' = "down" /\ serving' = {}
    /\ UNCHANGED <<node, engineSide, crashes>>

-----------------------------------------------------------------------------

MainStep == Configure \/ Load \/ GoRouter \/ Connected \/ Finish

Next ==
    \/ MainStep \/ StartDBRouter \/ Start \/ Tick \/ refreshJWTForClient
    \/ \E e \in Endpoints : Dial(e) \/ connect(e) \/ Serve(e)
    \/ Boot \/ ReadTables \/ Crash \/ Replace

Spec == Init /\ [][Next]_vars

\* Goroutines run, time passes, calls end, the execution client does what it
\* can to serve, and one of another chain is replaced.
FairSpec ==
    /\ Spec
    /\ WF_vars(MainStep) /\ WF_vars(StartDBRouter) /\ WF_vars(Start)
    /\ WF_vars(Tick) /\ WF_vars(refreshJWTForClient)
    /\ WF_vars(Boot) /\ WF_vars(ReadTables) /\ WF_vars(Replace)
    /\ \A e \in Endpoints : WF_vars(Dial(e)) /\ WF_vars(connect(e)) /\ WF_vars(Serve(e))

-----------------------------------------------------------------------------
(* Properties *)

\* Every variable holds a value of its kind.
TypeOK ==
    /\ command \in Commands /\ flags \in Flags /\ fault \in Faults
    /\ main \in {"new", "failed", "load", "router", "wait", "app", "done"}
    /\ starter \in {"off", "begin", "wait", "send", "done"}
    /\ conn \in [Endpoints -> {"off", "wait", "tick", "call", "ok"}]
    /\ refresher \in {"off", "idle", "due"} /\ elapsed \in 0..RefreshInterval
    /\ age \in 0..Old
    /\ exec \in {"down", "booting", "ready"} /\ serving \subseteq Endpoints
    /\ alive \in BOOLEAN /\ loaded \in BOOLEAN /\ router \in {"off", "started", "listening"}
    /\ ticked \in BOOLEAN /\ chain \in BOOLEAN
    /\ crashes \in 0..MaxCrashes
    /\ queue \in {<< >>, <<"engine">>, <<"rpc">>, <<"engine", "rpc">>, <<"rpc", "engine">>}

\* The handlers of consensus, which use both RPC clients without a check, can
\* run only when both goroutines of Start have connected.
HandlersHaveClients == main \in {"app", "done"} => \A e \in Endpoints : conn[e] = "ok"

\* With good flags and a host that lets nothing fail, and unless a height was
\* asked for, the application is created although the node waits for the
\* execution client and the execution client for the node's router, through
\* crashes of the execution client and endpoints that come up one after the
\* other.
StartupCompletes ==
    flags \in GoodFlags /\ fault = "none" /\ command # "exportHeight" ~> main = "done"

\* The token of the engine client, which ages while the endpoints are waited
\* for and where a redial fails, ends up being replaced every interval.
TokenSettles ==
    main = "done" ~> [](age <= Oldest)
=============================================================================
