-------------------------- MODULE NodeStartupProofs --------------------------
(***************************************************************************)
(* What holds of a node's start (NodeStartup) for every refresh interval   *)
(* and every number of crashes of the execution client.                    *)
(***************************************************************************)
EXTENDS NodeStartup, SequenceTheorems, TLAPS

Queues == {<< >>, <<"engine">>, <<"rpc">>, <<"engine", "rpc">>, <<"rpc", "engine">>}

\* The goroutines at `for range ticker.C`, given the queue of the ticker.
Queued(q) == {q[k] : k \in 1..Len(q)}

\* A goroutine is in the ticker's queue once, and exactly while it waits.
QueueOK == \A e \in Endpoints : conn[e] = "wait" <=> e \in Queued(queue)

\* How far Start is says how far its goroutines are: none runs before it, and
\* both have ended when it sends.
StarterOK ==
    /\ main = "new" => starter = "off"
    /\ starter \in {"off", "begin"} => \A e \in Endpoints : conn[e] = "off"
    /\ starter \in {"send", "done"} => \A e \in Endpoints : conn[e] = "ok"
    /\ starter = "wait" => \A e \in Endpoints : conn[e] # "off"
    /\ main \in {"app", "done"} \/ refresher # "off" => starter = "done"

IInv == TypeOK /\ QueueOK /\ StarterOK

-----------------------------------------------------------------------------
(* The ticker's queue *)

\* A pair is its first element with the second appended.
LEMMA AppendTwo ==
    ASSUME NEW a \in Endpoints, NEW b \in Endpoints
    PROVE  Append(<<a>>, b) = <<a, b>>
<1>. DEFINE s == <<a>>
            t == <<a, b>>
<1>1. s \in Seq(Endpoints) /\ Len(s) = 1 /\ s[1] = a
  OBVIOUS
<1>2. t \in Seq(Endpoints) /\ Len(t) = 2 /\ t[1] = a /\ t[2] = b
  OBVIOUS
<1>. HIDE DEF s, t
<1>3. /\ Append(s, b) \in Seq(Endpoints) /\ Len(Append(s, b)) = 2
      /\ Append(s, b)[1] = a /\ Append(s, b)[2] = b
  <2>1. s \in Seq(Endpoints) /\ b \in Endpoints
    BY <1>1
  <2>2. /\ Append(s, b) \in Seq(Endpoints) /\ Len(Append(s, b)) = Len(s) + 1
        /\ \A k \in 1..Len(s) : Append(s, b)[k] = s[k]
        /\ Append(s, b)[Len(s) + 1] = b
    BY <2>1, AppendProperties
  <2>. QED
    BY <1>1, <2>2
<1>4. Append(s, b) = t
  BY <1>2, <1>3, SeqEqual
<1>. QED
  BY <1>4 DEF s, t

\* A goroutine that does not wait joins the end of the queue.
LEMMA QueueAppend ==
    ASSUME NEW q \in Queues, NEW e \in Endpoints, e \notin Queued(q)
    PROVE  Append(q, e) \in Queues /\ Queued(Append(q, e)) = Queued(q) \cup {e}
<1>1. CASE q = << >>
  BY <1>1 DEF Queues, Queued, Endpoints
<1>2. CASE q = <<"engine">>
  <2>1. e = "rpc"
    BY <1>2 DEF Queued, Endpoints
  <2>2. Append(q, e) = <<"engine", "rpc">>
    BY <1>2, <2>1, AppendTwo DEF Endpoints
  <2>. QED
    BY <1>2, <2>1, <2>2 DEF Queues, Queued
<1>3. CASE q = <<"rpc">>
  <2>1. e = "engine"
    BY <1>3 DEF Queued, Endpoints
  <2>2. Append(q, e) = <<"rpc", "engine">>
    BY <1>3, <2>1, AppendTwo DEF Endpoints
  <2>. QED
    BY <1>3, <2>1, <2>2 DEF Queues, Queued
<1>4. CASE q = <<"engine", "rpc">> \/ q = <<"rpc", "engine">>
  BY <1>4 DEF Queues, Queued, Endpoints
<1>. QED
  BY <1>1, <1>2, <1>3, <1>4 DEF Queues

\* The head of a queue leaves it, and is not in the rest.
LEMMA QueueTail ==
    ASSUME NEW q \in Queues, q # << >>
    PROVE  /\ Tail(q) \in Queues /\ Head(q) \in Endpoints
           /\ Queued(Tail(q)) = Queued(q) \ {Head(q)}
<1>1. CASE q = <<"engine">>
  BY <1>1 DEF Queues, Queued, Endpoints
<1>2. CASE q = <<"rpc">>
  BY <1>2 DEF Queues, Queued, Endpoints
<1>3. CASE q = <<"engine", "rpc">>
  BY <1>3 DEF Queues, Queued, Endpoints
<1>4. CASE q = <<"rpc", "engine">>
  BY <1>4 DEF Queues, Queued, Endpoints
<1>. QED
  BY <1>1, <1>2, <1>3, <1>4 DEF Queues

-----------------------------------------------------------------------------
(* The steps *)

\* The initial states, whatever the command, the flags and the chain are.
LEMMA InitInv == Init => IInv
<1>. SUFFICES ASSUME Init PROVE IInv
  OBVIOUS
<1>1. TypeOK
  <2>1. elapsed \in 0..RefreshInterval /\ age \in 0..Old /\ crashes \in 0..MaxCrashes
    BY StartupAssumption DEF Init, Old, Oldest
  <2>2. conn \in [Endpoints -> {"off", "wait", "tick", "call", "ok"}]
    BY DEF Init
  <2>. QED
    BY <2>1, <2>2 DEF Init, TypeOK
<1>2. QueueOK /\ StarterOK
  BY DEF Init, QueueOK, StarterOK, Queued
<1>. QED
  BY <1>1, <1>2 DEF IInv

\* NewScalerizeApp and its callers: the goroutines of Start are left alone.
LEMMA MainKeeps ==
    ASSUME IInv, MainStep
    PROVE  IInv'
<1>. USE DEF IInv, Main, Fail
<1>1. CASE Configure
  <2>1. TypeOK'
    BY <1>1, ZenonT(60) DEF Configure, TypeOK, given, client
  <2>. QED
    BY <1>1, <2>1 DEF Configure, QueueOK, StarterOK
<1>2. CASE Load \/ GoRouter \/ Finish
  <2>1. TypeOK'
    BY <1>2, ZenonT(60) DEF Load, GoRouter, Finish, TypeOK, given, engineSide, client
  <2>. QED
    BY <1>2, <2>1 DEF Load, GoRouter, Finish, QueueOK, StarterOK, engineSide
<1>3. CASE Connected
  <2>1. TypeOK'
    BY <1>3, StartupAssumption DEF Connected, TypeOK, given, client
  <2>. QED
    BY <1>3, <2>1 DEF Connected, QueueOK, StarterOK
<1>. QED
  BY <1>1, <1>2, <1>3 DEF MainStep

\* EVMClient.Start launches its goroutines, and sends when both have ended.
LEMMA StartKeeps ==
    ASSUME IInv, Start
    PROVE  IInv'
<1>. USE DEF IInv
<1>1. /\ UNCHANGED <<node, refresher, elapsed, age, client>>
      /\ \/ /\ starter = "begin" /\ starter' = "wait"
            /\ conn' = [e \in Endpoints |-> "wait"]
            /\ queue' \in {<<"engine", "rpc">>, <<"rpc", "engine">>}
            /\ ticked' = FALSE
         \/ /\ starter = "wait" /\ starter' = "send"
            /\ \A e \in Endpoints : conn[e] = "ok"
            /\ UNCHANGED <<conn, queue, ticked>>
  BY DEF Start, Wait
<1>2. TypeOK'
  <2>1. /\ starter' \in {"off", "begin", "wait", "send", "done"}
        /\ conn' \in [Endpoints -> {"off", "wait", "tick", "call", "ok"}]
        /\ queue' \in Queues
    BY <1>1 DEF TypeOK, Queues
  <2>2. ticked' \in BOOLEAN
    BY <1>1 DEF TypeOK
  <2>. QED
    BY <1>1, <2>1, <2>2 DEF TypeOK, Queues, node, given, client
<1>3. QueueOK'
  <2>1. CASE starter = "begin"
    <3>1. Queued(queue') = {"engine", "rpc"}
      BY <1>1, <2>1 DEF Queued
    <3>. QED
      BY <1>1, <2>1, <3>1 DEF QueueOK, Endpoints
  <2>2. CASE starter # "begin"
    BY <1>1, <2>2 DEF QueueOK
  <2>. QED
    BY <2>1, <2>2
<1>4. StarterOK'
  BY <1>1 DEF StarterOK, node
<1>. QED
  BY <1>2, <1>3, <1>4

\* One goroutine of Start, running only between the launch and its end.
LEMMA ConnectorKeeps ==
    ASSUME IInv, NEW e \in Endpoints, Dial(e) \/ connect(e)
    PROVE  IInv'
<1>. USE DEF IInv
<1>1. starter = "wait" /\ conn[e] \in {"tick", "call"} /\ conn \in [Endpoints -> {"off", "wait", "tick", "call", "ok"}]
      /\ queue \in Queues /\ e \notin Queued(queue)
  BY DEF Dial, connect, TypeOK, StarterOK, QueueOK, Queues
<1>2. /\ UNCHANGED <<node, starter, refresher, elapsed, client>>
      /\ age' \in {0, age}
      /\ \/ /\ conn' = [conn EXCEPT ![e] = "call"] \/ conn' = [conn EXCEPT ![e] = "ok"]
            /\ UNCHANGED <<queue, ticked>>
         \/ Waits(e)
  BY DEF Dial, connect, dialRPCClient
<1>3. \/ /\ \E s \in {"call", "ok", "tick"} : conn' = [conn EXCEPT ![e] = s]
         /\ queue' = queue /\ ticked' \in {ticked, FALSE}
      \/ /\ conn' = [conn EXCEPT ![e] = "wait"]
         /\ queue' = Append(queue, e) /\ ticked' = ticked
  BY <1>2 DEF Waits
<1>4. queue' \in Queues /\ QueueOK'
  <2>1. CASE queue' = queue
    <3>1. e \notin Queued(queue') /\ Queued(queue') = Queued(queue)
      BY <1>1, <2>1
    <3>2. conn'[e] # "wait" \/ queue' = Append(queue, e)
      BY <1>1, <1>3
    <3>3. Len(queue) \in Nat /\ Len(Append(queue, e)) = Len(queue) + 1
      BY <1>1 DEF Queues
    <3>4. conn'[e] # "wait"
      BY <2>1, <3>2, <3>3
    <3>. QED
      BY <1>1, <1>3, <2>1, <3>1, <3>4 DEF QueueOK
  <2>2. CASE conn' = [conn EXCEPT ![e] = "wait"] /\ queue' = Append(queue, e)
    <3>1. queue' \in Queues /\ Queued(queue') = Queued(queue) \cup {e}
      BY <1>1, <2>2, QueueAppend
    <3>. QED
      BY <1>1, <2>2, <3>1 DEF QueueOK
  <2>. QED
    BY <1>3, <2>1, <2>2
<1>5. TypeOK'
  <2>1. conn' \in [Endpoints -> {"off", "wait", "tick", "call", "ok"}]
    BY <1>1, <1>3
  <2>2. ticked' \in BOOLEAN
    BY <1>3 DEF TypeOK
  <2>3. age' \in 0..Old
    BY <1>2, StartupAssumption DEF TypeOK, Old, Oldest
  <2>. QED
    BY <1>2, <1>4, <2>1, <2>2, <2>3 DEF TypeOK, node, given, client, Queues
<1>6. StarterOK'
  BY <1>1, <1>2, <1>3 DEF StarterOK, node
<1>. QED
  BY <1>4, <1>5, <1>6

\* A check interval passes: the tick goes to the goroutine first in the queue.
LEMMA TickKeeps ==
    ASSUME IInv, Tick
    PROVE  IInv'
<1>. USE DEF IInv
<1>1. /\ UNCHANGED <<node, starter, client>>
      /\ IF starter = "wait" THEN Ticker ELSE UNCHANGED <<conn, queue, ticked>>
      /\ age' = IF age < Old THEN age + 1 ELSE age
      /\ IF refresher # "off"
         THEN /\ elapsed' = (elapsed + 1) % RefreshInterval
              /\ refresher' = IF elapsed' = 0 THEN "due" ELSE refresher
         ELSE UNCHANGED <<elapsed, refresher>>
  BY DEF Tick
<1>2. \/ UNCHANGED <<conn, queue>> /\ ticked' \in {ticked, TRUE}
      \/ /\ starter = "wait" /\ queue # << >> /\ ticked' = ticked
         /\ queue' = Tail(queue) /\ conn' = [conn EXCEPT ![Head(queue)] = "tick"]
  BY <1>1 DEF Ticker
<1>3. queue \in Queues /\ conn \in [Endpoints -> {"off", "wait", "tick", "call", "ok"}]
  BY DEF TypeOK, Queues
<1>4. queue' \in Queues /\ QueueOK'
  BY <1>2, <1>3, QueueTail DEF QueueOK
<1>5. conn' \in [Endpoints -> {"off", "wait", "tick", "call", "ok"}] /\ ticked' \in BOOLEAN
  BY <1>2, <1>3, QueueTail DEF TypeOK
<1>6. age' \in 0..Old /\ elapsed' \in 0..RefreshInterval /\ refresher' \in {"off", "idle", "due"}
  <2>1. \A k \in Nat : k % RefreshInterval \in 0..RefreshInterval
    BY StartupAssumption
  <2>2. elapsed + 1 \in Nat /\ Old \in Nat /\ age \in 0..Old
    BY StartupAssumption DEF TypeOK, Old, Oldest
  <2>3. age' \in 0..Old
    BY <1>1, <2>2
  <2>. QED
    BY <1>1, <2>1, <2>2, <2>3 DEF TypeOK
<1>7. TypeOK'
  BY <1>1, <1>4, <1>5, <1>6 DEF TypeOK, node, given, client, Queues
<1>8. StarterOK'
  BY <1>1, <1>2, <1>3, QueueTail DEF StarterOK, node
<1>. QED
  BY <1>4, <1>7, <1>8

\* The router's goroutine, the refresh of the token and the execution client's
\* own steps.
LEMMA OthersKeep ==
    ASSUME IInv,
           \/ StartDBRouter \/ refreshJWTForClient \/ Boot \/ ReadTables \/ Crash \/ Replace
           \/ \E e \in Endpoints : Serve(e)
           \/ UNCHANGED vars
    PROVE  IInv'
<1>. USE DEF IInv
<1>1. /\ UNCHANGED <<command, flags, fault, main, loaded, starter, conn, queue, ticked, elapsed>>
      /\ router' \in {router, "listening"}
  BY DEF StartDBRouter, refreshJWTForClient, Boot, ReadTables, Crash, Replace, Serve, vars, node,
     given, engineSide
<1>2. /\ refresher' = refresher \/ (refresher # "off" /\ refresher' = "idle")
      /\ age' \in {age, 0} /\ alive' \in {alive, FALSE}
      /\ chain' \in {chain, TRUE} /\ exec' \in {exec, "down", "booting", "ready"}
  BY DEF StartDBRouter, refreshJWTForClient, dialRPCClient, Boot, ReadTables, Crash, Replace, Serve,
     vars, node, engineSide, client
<1>3. serving' \subseteq Endpoints /\ crashes' \in 0..MaxCrashes
  BY StartupAssumption
     DEF StartDBRouter, refreshJWTForClient, Boot, ReadTables, Crash, Replace, Serve, vars, client, TypeOK
<1>4. TypeOK'
  <2>1. age' \in 0..Old
    BY <1>2, StartupAssumption DEF TypeOK, Old, Oldest
  <2>2. alive' \in BOOLEAN /\ chain' \in BOOLEAN
    BY <1>2 DEF TypeOK
  <2>. QED
    BY <1>1, <1>2, <1>3, <2>1, <2>2 DEF TypeOK
<1>. QED
  BY <1>1, <1>2, <1>4 DEF QueueOK, StarterOK

-----------------------------------------------------------------------------
(* The theorems *)

\* The inductive invariant of a node's start.
THEOREM Invariance == Spec => []IInv
<1>1. IInv /\ [Next]_vars => IInv'
  BY MainKeeps, StartKeeps, ConnectorKeeps, TickKeeps, OthersKeep DEF Next
<1>. QED
  BY <1>1, InitInv, PTL DEF Spec

\* Every variable keeps its type; no goroutine is twice in the ticker's queue.
THEOREM TypeCorrect == Spec => []TypeOK
<1>1. IInv => TypeOK
  BY DEF IInv
<1>. QED
  BY <1>1, Invariance, PTL

\* The application, and with it the handlers of consensus, exists only when
\* both goroutines of Start have connected: <-ensureClientCreatedCh is enough.
THEOREM HandlersConnected == Spec => []HandlersHaveClients
<1>1. IInv => HandlersHaveClients
  BY DEF IInv, StarterOK, HandlersHaveClients
<1>. QED
  BY <1>1, Invariance, PTL

\* The refresh loop has replaced the token in time: its ticker has counted at
\* least the token's age since it last fired, or since the time before.
Fresh ==
    \/ refresher = "idle" /\ age <= elapsed /\ elapsed < RefreshInterval
    \/ refresher = "due" /\ age <= RefreshInterval + elapsed /\ elapsed <= RefreshDelay

\* The token that a successful refresh leaves behind is fresh.
LEMMA RefreshMakesFresh ==
    ASSUME IInv, refreshJWTForClient, flags = "http", elapsed <= RefreshDelay
    PROVE  Fresh'
BY StartupAssumption DEF IInv, TypeOK, refreshJWTForClient, dialRPCClient, Dials, Fresh

\* A check interval makes the token older, and due when the loop's ticker fires.
LEMMA TickKeepsFresh ==
    ASSUME IInv, Fresh, Tick
    PROVE  Fresh'
<1>1. /\ refresher \in {"idle", "due"} /\ age \in Nat /\ elapsed \in Nat
      /\ RefreshInterval \in Nat \ {0} /\ RefreshDelay \in Nat /\ RefreshDelay < RefreshInterval
      /\ refresher = "due" => elapsed < RefreshDelay
      /\ elapsed < RefreshInterval
  BY StartupAssumption DEF IInv, TypeOK, Fresh, Tick
<1>2. /\ age' <= age + 1
      /\ elapsed' = (elapsed + 1) % RefreshInterval
      /\ refresher' = IF elapsed' = 0 THEN "due" ELSE refresher
  BY <1>1 DEF Tick
<1>3. age' \in Nat
  BY <1>1 DEF Tick
<1>4. CASE elapsed + 1 = RefreshInterval
  <2>1. (elapsed + 1) % RefreshInterval = 0
    BY <1>1, <1>4
  <2>2. refresher = "idle" /\ age <= elapsed
    BY <1>1, <1>4 DEF Fresh
  <2>. QED
    BY <1>1, <1>2, <1>3, <1>4, <2>1, <2>2 DEF Fresh
<1>5. CASE elapsed + 1 < RefreshInterval
  <2>1. (elapsed + 1) % RefreshInterval = elapsed + 1
    BY <1>1, <1>5
  <2>2. elapsed' = elapsed + 1 /\ refresher' = refresher
    BY <1>1, <1>2, <2>1
  <2>3. CASE refresher = "idle"
    BY <1>1, <1>2, <1>3, <1>5, <2>2, <2>3 DEF Fresh
  <2>4. CASE refresher = "due"
    BY <1>1, <1>2, <1>3, <2>2, <2>4 DEF Fresh
  <2>. QED
    BY <1>1, <2>3, <2>4
<1>. QED
  BY <1>1, <1>4, <1>5

\* Nothing else touches the token's age or the loop's ticker: the goroutine of
\* Start that dials the engine endpoint has ended.
LEMMA OthersKeepFresh ==
    ASSUME IInv, Fresh, flags = "http", Next, ~Tick
    PROVE  Fresh'
<1>1. starter = "done" /\ (\A e \in Endpoints : conn[e] = "ok")
  BY DEF IInv, StarterOK, Fresh
<1>2. ~Start /\ ~Connected /\ (\A e \in Endpoints : ~Dial(e) /\ ~connect(e))
  BY <1>1 DEF Start, Wait, Connected, Main, Dial, connect
<1>3. CASE refreshJWTForClient
  <2>1. refresher = "due" /\ elapsed <= RefreshDelay
    BY <1>3 DEF refreshJWTForClient, Fresh
  <2>. QED
    BY <1>3, <2>1, RefreshMakesFresh
<1>4. CASE \/ Configure \/ Load \/ GoRouter \/ Finish \/ StartDBRouter
           \/ Boot \/ ReadTables \/ Crash \/ Replace
           \/ \E e \in Endpoints : Serve(e)
  BY <1>4 DEF Configure, Load, GoRouter, Finish, StartDBRouter, Boot, ReadTables, Crash, Replace,
     Serve, engineSide, Fresh
<1>. QED
  BY <1>2, <1>3, <1>4 DEF Next, MainStep

\* Over HTTP, where dialling cannot fail, a token that the refresh loop has
\* replaced never gets older than the interval and the loop's delay again, for
\* every interval: what is left of TokenSettles to liveness is that the loop
\* runs at all.
THEOREM TokenStaysFresh == Spec => [](Fresh /\ flags = "http" => [](age <= Oldest))
<1>1. IInv /\ (Fresh /\ flags = "http") /\ [Next]_vars => (Fresh /\ flags = "http")'
  <2>. SUFFICES ASSUME IInv, Fresh, flags = "http", [Next]_vars
                PROVE  Fresh' /\ flags' = "http"
    OBVIOUS
  <2>1. flags' = flags
    BY DEF Next, MainStep, Configure, Load, GoRouter, Connected, Finish, StartDBRouter, Start, Tick,
       refreshJWTForClient, Dial, connect, Serve, Boot, ReadTables, Crash, Replace, vars, node, given
  <2>2. Fresh'
    BY TickKeepsFresh, OthersKeepFresh DEF vars, engineSide, Fresh
  <2>. QED
    BY <2>1, <2>2
<1>2. IInv /\ (Fresh /\ flags = "http") => age <= Oldest
  BY StartupAssumption DEF IInv, TypeOK, Fresh, Oldest
<1>. QED
  BY <1>1, <1>2, Invariance, PTL DEF Spec
=============================================================================
