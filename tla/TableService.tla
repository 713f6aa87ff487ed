---------------------------- MODULE TableService ----------------------------
(***************************************************************************)
(* What the database router promises its clients, without goroutines and   *)
(* locks.  Every call takes effect on the tables in one step, and a client *)
(* that is answered sees what that one step saw.  Only an operation that   *)
(* stages a write and moves a cursor may take two: the cursor follows      *)
(* later.  Staged writes are common to all clients and are gone whenever   *)
(* any of them comes back for its next call.                               *)
(***************************************************************************)
EXTENDS RouterMessages

CONSTANTS Conns,      \* clients
          Loadable    \* the tables the service may find when it starts

VARIABLES store,    \* the committed tables
          pending,  \* the staged writes
          cursor,   \* cursor positions
          phase,    \* how far each client's call is
          call,     \* the call
          later,    \* the cursor position and the answer a staged call still owes
          answer,   \* the answer
          up        \* the service is running

svars == <<store, pending, cursor, phase, call, later, answer, up>>

Phases == {"closed", "listening", "called", "staged", "done"}

Untouched == [staged |-> FALSE, val |-> NoValue]
NothingPending == [t \in Tables |-> [k \in Bytes |-> Untouched]]
NothingLater == [to |-> Unset, ans |-> NoReply]

Staged(t) == {k \in Bytes : pending[t][k].staged}

\* A table as it will be once the staged writes are committed.
Overlaid(t) == [k \in Bytes |-> IF k \in Staged(t) THEN pending[t][k].val ELSE store[t][k]]

-----------------------------------------------------------------------------
(* What one call finds: the cursor's new position and the answer *)

LeastOf(S) == IF S = {} THEN Unset ELSE CHOOSE k \in S : IsLeast(k, S)
GreatestOf(S) == IF S = {} THEN Unset ELSE CHOOSE k \in S : IsGreatest(k, S)
SecondOf(S) == LeastOf(S \ {LeastOf(S)})

\* The entries that a key without its subkey names.
Named(t, S, k) == IF DupSorted(t) THEN WithPrefix(S, k) ELSE S \cap {k}

Found(m, k) == IF k = Unset THEN Success ELSE Entry(m, k)

\* A move without a position starts from the first entry, Prev from the last.
MoveTarget(op, S, cur) ==
    CASE op = "First" -> LeastOf(S)
      [] op = "Last" -> GreatestOf(S)
      [] op = "Next" -> IF cur = Unset THEN LeastOf(S) ELSE SecondOf(From(S, cur))
      [] op = "Prev" -> IF cur = Unset THEN GreatestOf(S) ELSE GreatestOf(Below(S, cur))
      [] op = "NextDup" -> IF cur = Unset THEN LeastOf(S)
                           ELSE SecondOf(WithPrefix(From(S, cur), cur))
      [] op = "NextNoDup" -> IF cur = Unset THEN LeastOf(S)
                             ELSE LeastOf(BeyondPrefix(S, cur))

\* A read call r of a table that holds m, with its cursor at cur.
ReadResult(r, m, cur) ==
    LET S == Present(m)
        near == LeastOf(From(S, r.key))
        hit == IF DupSorted(r.table) THEN near[1] = r.key[1] ELSE near = r.key
        Moved(k) == [to |-> IF k = Unset THEN cur ELSE k, ans |-> Found(m, k)]
        Stays(a) == [to |-> cur, ans |-> a]
    IN CASE r.op = "Get" -> Stays(Found(m, LeastOf(Named(r.table, S, r.key))))
         [] r.op = "Seek" -> Moved(near)
         [] r.op = "SeekExact" ->
              IF near = Unset THEN Stays(Success)
              ELSE [to |-> near, ans |-> IF hit THEN Entry(m, near) ELSE Success]
         [] r.op = "SeekByKeySubkey" ->
              [to |-> near, ans |-> IF near # Unset /\ hit THEN Entry(m, near) ELSE Success]
         [] r.op = "Current" ->
              Stays(IF cur = Unset THEN Failure("ErrCurrentKeyIsNotSet")
                    ELSE Found(m, LeastOf(S \cap {cur})))
         [] r.op = "NextDup" /\ cur # Unset /\ WithPrefix(From(S, cur), cur) = {} ->
              Stays(Failure("ErrCurrentIteratorKeyIsInvalid"))
         [] OTHER -> Moved(MoveTarget(r.op, S, cur))

Refusal(e) == [keys |-> {}, val |-> NoValue, to |-> Unset, ans |-> Failure(e)]

\* A write call r of a table that holds m, and w with the staged writes.
WriteResult(r, m, w, cur) ==
    LET S == Present(w)
        Stores(to) == [keys |-> {r.key}, val |-> r.val, to |-> to, ans |-> Success]
        Deletes(D, to) == [keys |-> D, val |-> NoValue, to |-> to, ans |-> Success]
    IN CASE r.op = "Put" -> Stores(cur)
         [] r.op = "Delete" ->
              Deletes(IF r.key \in BareKeys /\ DupSorted(r.table)
                      THEN WithPrefix(Present(m), r.key) ELSE {r.key}, cur)
         [] r.op = "Upsert" -> Stores(r.key)
         [] r.op = "Insert" -> IF Named(r.table, S, r.key) # {}
                               THEN Refusal("ErrKeyAlreadyPresent") ELSE Stores(r.key)
         [] r.op = "Append" -> IF S = {} THEN Stores(cur)
                               ELSE IF r.key[1] < GreatestOf(S)[1]
                               THEN Refusal("ErrCannotAppend") ELSE Stores(r.key)
         [] r.op = "AppendDup" -> IF \E j \in WithPrefix(S, r.key) : r.key[2] < j[2]
                                  THEN Refusal("ErrCannotAppendDup") ELSE Stores(r.key)
         [] r.op = "DeleteCurrent" ->
              IF cur = Unset THEN Refusal("ErrCurrentKeyIsNotSet")
              ELSE IF From(S, cur) = {} THEN Refusal("ErrCurrentIteratorKeyIsInvalid")
              ELSE Deletes({cur}, SecondOf(From(S, cur)))
         [] r.op = "DeleteCurrentDuplicates" ->
              IF cur = Unset THEN Refusal("ErrCurrentKeyIsNotSet")
              ELSE IF WithPrefix(S, cur) = {} THEN Refusal("ErrCurrentIteratorKeyIsInvalid")
              ELSE Deletes(WithPrefix(S, cur), LeastOf(BeyondPrefix(S, cur)))

-----------------------------------------------------------------------------

Position(r) == IF r.cur = NoCursor THEN Unset ELSE cursor[r.cur]

\* The call is answered with a; its cursor, if it has one, is then at k.
Answer(c, k, a) ==
    /\ answer' = [answer EXCEPT ![c] = a]
    /\ phase' = [phase EXCEPT ![c] = "done"]
    /\ later' = [later EXCEPT ![c] = NothingLater]
    /\ cursor' = IF call[c].cur = NoCursor \/ a.st \in Errors THEN cursor
                 ELSE [cursor EXCEPT ![call[c].cur] = k]
    /\ UNCHANGED <<call, up>>

Connect(c) ==
    /\ phase[c] = "closed"
    /\ phase' = [phase EXCEPT ![c] = "done"]
    /\ UNCHANGED <<store, pending, cursor, call, later, answer, up>>

Hangup(c) ==
    /\ phase[c] = "listening"
    /\ phase' = [phase EXCEPT ![c] = "closed"]
    /\ UNCHANGED <<store, pending, cursor, call, later, answer, up>>

\* The client comes back for its next call; nothing staged by anyone survives.
Listen(c) ==
    /\ phase[c] = "done"
    /\ phase' = [phase EXCEPT ![c] = "listening"]
    /\ pending' = NothingPending
    /\ call' = [call EXCEPT ![c] = NoRequest]
    /\ answer' = [answer EXCEPT ![c] = NoReply]
    /\ UNCHANGED <<store, cursor, later, up>>

\* A call arrives and leaves its mark in hashed_accounts.  One that cannot be
\* decoded is refused, or ends the service.
Call(c) ==
    /\ phase[c] = "listening"
    /\ call'[c] \in Request
    /\ call' = [call EXCEPT ![c] = call'[c]]
    /\ store' = [store EXCEPT ![HashedAccounts][Sentinel] = SentinelValue]
    /\ \/ /\ phase' = [phase EXCEPT ![c] = "called"]
          /\ UNCHANGED <<answer, up>>
       \/ /\ phase' = [phase EXCEPT ![c] = "done"]
          /\ \E e \in {"ErrTableNotFound", "ErrInvalidRequestData", "ErrInvalidOperationCode"} :
               answer' = [answer EXCEPT ![c] = Failure(e)]
          /\ UNCHANGED up
       \/ /\ phase' = [phase EXCEPT ![c] = "done"]
          /\ up' = FALSE
          /\ UNCHANGED answer
    /\ UNCHANGED <<pending, cursor, later>>

\* The mark of other clients' calls may be missed while it is being made.
Shown(t) ==
    {store[t]} \cup (IF t = HashedAccounts THEN {[store[t] EXCEPT ![Sentinel] = NoValue]} ELSE {})

Read(c) ==
    /\ phase[c] = "called" /\ call[c].op \in ReadOps
    /\ \E m \in Shown(call[c].table) :
         LET res == ReadResult(call[c], m, Position(call[c])) IN Answer(c, res.to, res.ans)
    /\ UNCHANGED <<store, pending>>

Result(c) ==
    LET t == call[c].table
    IN WriteResult(call[c], store[t], Overlaid(t), Position(call[c]))

Stage(c) ==
    pending' = [pending EXCEPT ![call[c].table] = [k \in Bytes |->
        IF k \in Result(c).keys THEN [staged |-> TRUE, val |-> Result(c).val] ELSE @[k]]]

StagingOps == WriteOps \ {"Write"}
TwoStepOps == {"Upsert", "Insert", "Append", "AppendDup", "DeleteCurrent"}

StageAndAnswer(c) ==
    /\ phase[c] = "called" /\ call[c].op \in StagingOps
    /\ Stage(c)
    /\ Answer(c, Result(c).to, Result(c).ans)
    /\ UNCHANGED store

StageFirst(c) ==
    /\ phase[c] = "called" /\ call[c].op \in TwoStepOps
    /\ Stage(c)
    /\ later' = [later EXCEPT ![c] = [to |-> Result(c).to, ans |-> Result(c).ans]]
    /\ phase' = [phase EXCEPT ![c] = "staged"]
    /\ UNCHANGED <<store, cursor, call, answer, up>>

PlaceLater(c) ==
    /\ phase[c] = "staged"
    /\ Answer(c, later[c].to, later[c].ans)
    /\ UNCHANGED <<store, pending>>

\* All staged writes are committed, except that the mark of a call that
\* arrives at the same time may undo some of those in hashed_accounts.
Commit(c) ==
    /\ phase[c] = "called" /\ call[c].op = "Write"
    /\ \E lost \in SUBSET Staged(HashedAccounts) :
         /\ lost # {} => \E d \in Conns \ {c} : phase[d] = "listening"
         /\ store' = [t \in Tables |-> [k \in Bytes |->
              IF t = HashedAccounts /\ k \in lost THEN store[t][k] ELSE Overlaid(t)[k]]]
    /\ pending' = NothingPending
    /\ Answer(c, Unset, Success)

\* A panic: the service may end while it serves any call.
Crash ==
    /\ up' = FALSE
    /\ \E c \in Conns : phase[c] = "called"
    /\ UNCHANGED <<store, pending, cursor, phase, call, later, answer>>

Started ==
    /\ pending = NothingPending
    /\ cursor = [u \in Cursors |-> Unset]
    /\ phase = [c \in Conns |-> "closed"]
    /\ call = [c \in Conns |-> NoRequest]
    /\ later = [c \in Conns |-> NothingLater]
    /\ answer = [c \in Conns |-> NoReply]
    /\ up = TRUE

SInit == store \in Loadable /\ Started

Restarted == ~up /\ store' \in Loadable /\ Started'

SNext ==
    \/ /\ up
       /\ \/ \E c \in Conns : \/ Connect(c) \/ Hangup(c) \/ Listen(c) \/ Call(c)
                              \/ Read(c) \/ StageAndAnswer(c) \/ StageFirst(c)
                              \/ PlaceLater(c) \/ Commit(c)
          \/ Crash
    \/ Restarted

SSpec == SInit /\ [][SNext]_svars
=============================================================================
