------------------------------- MODULE RWMutex -------------------------------
(***************************************************************************)
(* The states of a sync.RWMutex of the Go library.  Lock first announces   *)
(* the writer, which stops every later RLock, and then waits until the     *)
(* readers that are inside have left; so a goroutine that holds a read     *)
(* lock and asks for a second one waits for the writer that waits for it.  *)
(***************************************************************************)
CONSTANTS Conns, NoConn

ASSUME NoConnAssumption == NoConn \notin Conns

Mutex == [writer : Conns \cup {NoConn}, announced : Conns \cup {NoConn},
          readers : SUBSET Conns]

Unlocked == [writer |-> NoConn, announced |-> NoConn, readers |-> {}]

CanAnnounce(m) == m.writer = NoConn /\ m.announced = NoConn
Announced(m, c) == [m EXCEPT !.announced = c]

CanLock(m) == m.writer = NoConn /\ m.readers = {}
Locked(m, c) == [m EXCEPT !.writer = c, !.announced = NoConn]

CanRLock(m) == m.writer = NoConn /\ m.announced = NoConn
RLocked(m, c) == [m EXCEPT !.readers = @ \cup {c}]

\* Unlock or RUnlock, whichever c holds; no change when c holds neither.
Released(m, c) ==
    [m EXCEPT !.writer = IF @ = c THEN NoConn ELSE @, !.readers = @ \ {c}]
=============================================================================
