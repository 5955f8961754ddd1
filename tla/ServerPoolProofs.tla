-------------------------- MODULE ServerPoolProofs ---------------------------
(***************************************************************************)
(* Proofs about ServerPool, for any number of workers, clients, requests   *)
(* and connections: its type invariant, the discipline of the store's      *)
(* lock, that no answer shows a half-made write, and that answers respect  *)
(* real time.                                                              *)
(*                                                                         *)
(* The inductive invariant follows a request from the queue to its answer: *)
(* QueueOK and ServingOK say that a connection is in one place, RequestOK  *)
(* that what a worker does agrees with the request it read, LockOK who     *)
(* holds the lock and what its poison means, and VersionsOK how the        *)
(* store's version, the answers under way and those given compare.         *)
(***************************************************************************)
EXTENDS ServerPool, SequenceTheorems, TLAPS

-----------------------------------------------------------------------------
(* The invariant.                                                          *)

Running == {"want_read", "want_write", "holds_read", "holds_write", "replying"}

HistoriesOK ==
  /\ accepting \in BOOLEAN
  /\ closed \in [Clients -> BOOLEAN]
  /\ requests \in [Clients -> Nat] /\ connects \in [Clients -> Nat]
  /\ result \in [Workers -> [version : Nat, torn : BOOLEAN]]
  /\ answer \in [Clients -> [kind : AllKinds, floor : Nat, version : Nat, torn : BOOLEAN]]

(* A queued connection waits once.                                         *)
QueueOK ==
  /\ \A i \in 1..Len(queue) : conn[queue[i]] = "queued"
  /\ \A i, j \in 1..Len(queue) : queue[i] = queue[j] => i = j

(* A served connection has one worker, and a worker at work has one.       *)
ServingOK ==
  /\ \A w \in Workers : serving[w] # None <=> worker[w] \in Running \cup {"reading"}
  /\ \A w \in Workers : serving[w] # None => conn[serving[w]] = "served"
  /\ \A v, w \in Workers : serving[v] = serving[w] /\ serving[w] # None => v = w

(* The request a worker runs is still the one it read.                     *)
RequestOK ==
  \A w \in Workers : worker[w] \in Running =>
    /\ Request(w) # None
    /\ worker[w] \in {"want_read", "holds_read"} => Request(w).kind \in {"read", "panic_read"}
    /\ worker[w] \in {"want_write", "holds_write"} => Request(w).kind \in {"write", "panic_write"}
    /\ worker[w] = "replying" => Request(w).kind \in {"read", "write", "reject"}

(* A half-made write leaves the lock poisoned, and a poisoned lock is held *)
(* by no one.                                                              *)
LockOK ==
  /\ LockHeldByRunning
  /\ torn => lock.poisoned
  /\ lock.poisoned => lock.writer = None /\ lock.readers = {}
  /\ \A w \in Workers : ~result[w].torn

VersionsOK ==
  /\ acked <= version
  /\ \A c \in Clients : request[c] # None => request[c].floor <= acked
  /\ \A w \in Workers : result[w].version <= version
  /\ \A w \in Workers : worker[w] = "replying" =>
       /\ Request(w).kind = "read" => result[w].version >= Request(w).floor
       /\ Request(w).kind = "write" => result[w].version > Request(w).floor

PoolInv ==
  /\ TypeOK /\ HistoriesOK /\ QueueOK /\ ServingOK /\ RequestOK
  /\ LockOK /\ VersionsOK /\ NoTornAnswer /\ RealTimeOrder

-----------------------------------------------------------------------------
(* The steps, one lemma per part of the invariant.                         *)

(* The initial states satisfy the invariant.                               *)
LEMMA InitPoolInv == Init => PoolInv
<1> SUFFICES ASSUME Init PROVE PoolInv
  OBVIOUS
<1> USE PoolAssumption DEF Init
<1>1. TypeOK
  <2>1. queue \in Seq(Clients) /\ rx \in Workers \cup {None}
    OBVIOUS
  <2>2. worker \in [Workers -> Stops \cup {"idle", "pulling", "reading", "want_read",
                   "want_write", "holds_read", "holds_write", "replying"}]
    OBVIOUS
  <2>3. request \in [Clients -> [kind : Kinds, floor : Nat] \cup {None}]
    OBVIOUS
  <2>4. lock \in [readers : SUBSET Workers, writer : Workers \cup {None}, poisoned : BOOLEAN]
    OBVIOUS
  <2> QED BY <2>1, <2>2, <2>3, <2>4 DEF TypeOK
<1>2. HistoriesOK
  BY DEF HistoriesOK, NoResult, AllKinds
<1>3. QueueOK /\ ServingOK /\ RequestOK
  BY DEF QueueOK, ServingOK, RequestOK, Running
<1>4. LockOK
  BY DEF LockOK, LockHeldByRunning, NoResult
<1>5. VersionsOK
  BY DEF VersionsOK, NoResult
<1>6. NoTornAnswer /\ RealTimeOrder
  BY DEF NoTornAnswer, RealTimeOrder
<1> QED BY <1>1, <1>2, <1>3, <1>4, <1>5, <1>6 DEF PoolInv

(* What a worker at work serves: a client whose request is a record, and   *)
(* that no other worker serves.                                            *)
LEMMA ServedClient ==
  ASSUME PoolInv, NEW w \in Workers, worker[w] \in Running \cup {"reading"}
  PROVE  /\ serving[w] \in Clients
         /\ conn[serving[w]] = "served"
         /\ \A v \in Workers : v # w => serving[v] # serving[w]
         /\ Request(w) # None => Request(w) \in [kind : Kinds, floor : Nat]
BY DEF PoolInv, TypeOK, ServingOK, Request

(* The values the guards give the lock.                                    *)
LEMMA LockType ==
  ASSUME NEW w \in Workers,
         NEW l \in [readers : SUBSET Workers, writer : Workers \cup {None}, poisoned : BOOLEAN]
  PROVE  \A l2 \in {[l EXCEPT !.readers = @ \cup {w}], [l EXCEPT !.readers = @ \ {w}],
                    [l EXCEPT !.writer = w], [l EXCEPT !.writer = None],
                    [l EXCEPT !.writer = None, !.poisoned = TRUE]} :
           l2 \in [readers : SUBSET Workers, writer : Workers \cup {None}, poisoned : BOOLEAN]
<1> DEFINE L == [readers : SUBSET Workers, writer : Workers \cup {None}, poisoned : BOOLEAN]
<1>1. [l EXCEPT !.readers = @ \cup {w}] \in L /\ [l EXCEPT !.readers = @ \ {w}] \in L
  OBVIOUS
<1>2. [l EXCEPT !.writer = w] \in L /\ [l EXCEPT !.writer = None] \in L
  OBVIOUS
<1>3. [l EXCEPT !.writer = None, !.poisoned = TRUE] \in L
  OBVIOUS
<1> HIDE DEF L
<1> QED
  BY <1>1, <1>2, <1>3 DEF L

(* Every step keeps the types.                                             *)
LEMMA TypesKept == PoolInv /\ [Next]_vars => TypeOK' /\ HistoriesOK'
<1> SUFFICES ASSUME PoolInv, [Next]_vars PROVE TypeOK' /\ HistoriesOK'
  OBVIOUS
<1> USE PoolAssumption DEF TypeOK, HistoriesOK, pool, client, store, history
<1> TypeOK /\ HistoriesOK
  BY DEF PoolInv
<1>1. CASE UNCHANGED vars
  BY <1>1 DEF vars
<1>2. CASE ListenerError
  BY <1>2 DEF ListenerError
<1>14. CASE Exit
  <2>1. lock' \in [readers : SUBSET Workers, writer : Workers \cup {None}, poisoned : BOOLEAN]
    BY <1>14 DEF Exit
  <2> QED BY <1>14, <2>1 DEF Exit, Stops, NoResult
<1>3. ASSUME NEW c \in Clients, Connect(c) PROVE TypeOK' /\ HistoriesOK'
  BY <1>3 DEF Connect
<1>4. ASSUME NEW c \in Clients, Disconnect(c) PROVE TypeOK' /\ HistoriesOK'
  BY <1>4 DEF Disconnect
<1>5. ASSUME NEW c \in Clients, NEW kind \in Kinds, Send(c, kind)
      PROVE  TypeOK' /\ HistoriesOK'
  BY <1>5 DEF Send
<1>6. ASSUME NEW w \in Workers, TakeReceiver(w) PROVE TypeOK' /\ HistoriesOK'
  BY <1>6 DEF TakeReceiver
<1>7. ASSUME NEW w \in Workers, Pull(w) PROVE TypeOK' /\ HistoriesOK'
  <2>1. Head(queue) \in Clients /\ Tail(queue) \in Seq(Clients)
    BY <1>7 DEF Pull
  <2> QED BY <1>7, <2>1 DEF Pull
<1>8. ASSUME NEW w \in Workers, ChannelClosed(w) PROVE TypeOK' /\ HistoriesOK'
  BY <1>8 DEF ChannelClosed, Stops
<1>9. ASSUME NEW w \in Workers, ReadFrame(w) PROVE TypeOK' /\ HistoriesOK'
  BY <1>9, ZenonT(60) DEF ReadFrame, Leave, Become, Stops
<1>10. ASSUME NEW w \in Workers, Lock(w) PROVE TypeOK' /\ HistoriesOK'
  <2>1. CASE Leave(w, "dead") /\ UNCHANGED <<store, result>>
    BY <2>1 DEF Leave, Stops
  <2>2. CASE \E next \in {"holds_read", "holds_write"} : Become(w, next) /\ UNCHANGED <<version, torn, result>>
    <3>1. lock' \in [readers : SUBSET Workers, writer : Workers \cup {None}, poisoned : BOOLEAN]
      <4>1. lock' \in {lock, [lock EXCEPT !.readers = @ \cup {w}], [lock EXCEPT !.writer = w]}
        BY <1>10 DEF Lock
      <4> QED BY <4>1, LockType, ZenonT(60)
    <3> QED BY <2>2, <3>1 DEF Become
  <2> QED BY <1>10, <2>1, <2>2 DEF Lock
<1>11. ASSUME NEW w \in Workers, ExecuteRead(w) PROVE TypeOK' /\ HistoriesOK'
  <2>1. lock' \in [readers : SUBSET Workers, writer : Workers \cup {None}, poisoned : BOOLEAN]
    BY <1>11, LockType DEF ExecuteRead
  <2>2. CASE Leave(w, "dead") /\ UNCHANGED <<version, torn, result>>
    BY <2>1, <2>2 DEF Leave, Stops
  <2>3. CASE /\ Become(w, "replying") /\ UNCHANGED <<version, torn>>
             /\ result' = [result EXCEPT ![w] = [version |-> version, torn |-> torn]]
    BY <2>1, <2>3 DEF Become
  <2> QED BY <1>11, <2>2, <2>3 DEF ExecuteRead
<1>12. ASSUME NEW w \in Workers, ExecuteWrite(w) PROVE TypeOK' /\ HistoriesOK'
  <2>1. lock' \in [readers : SUBSET Workers, writer : Workers \cup {None}, poisoned : BOOLEAN]
    BY <1>12, LockType, ZenonT(60) DEF ExecuteWrite
  <2>2. CASE Leave(w, "dead") /\ torn' \in {torn, TRUE} /\ UNCHANGED <<version, result>>
    BY <2>1, <2>2 DEF Leave, Stops
  <2>3. CASE /\ Become(w, "replying") /\ version' = version + 1 /\ UNCHANGED torn
             /\ result' = [result EXCEPT ![w] = [version |-> version + 1, torn |-> torn]]
    BY <2>1, <2>3 DEF Become
  <2> QED BY <1>12, <2>2, <2>3 DEF ExecuteWrite
<1>13. ASSUME NEW w \in Workers, WriteFrame(w) PROVE TypeOK' /\ HistoriesOK'
  <2>1. serving[w] \in Clients /\ Request(w) \in [kind : AllKinds, floor : Nat]
    BY <1>13, ServedClient DEF WriteFrame, PoolInv, RequestOK, Running
  <2>2. result[w] \in [version : Nat, torn : BOOLEAN]
    OBVIOUS
  <2>3. CASE Leave(w, "idle")
    BY <1>13, <2>3 DEF WriteFrame, Leave, Stops, NoResult
  <2>4. CASE ~Leave(w, "idle")
    <3>1. /\ worker' = [worker EXCEPT ![w] = "reading"]
          /\ request' = [request EXCEPT ![serving[w]] = None]
          /\ result' = [result EXCEPT ![w] = NoResult]
          /\ UNCHANGED <<store, accepting, queue, rx, serving, conn, closed, requests, connects>>
      BY <1>13, <2>4 DEF WriteFrame
    <3>2. acked' \in Nat
      BY <1>13, <2>2, <2>4 DEF WriteFrame
    <3>3. answer' \in [Clients -> [kind : AllKinds, floor : Nat, version : Nat, torn : BOOLEAN]]
      <4> DEFINE new == [kind |-> Request(w).kind, floor |-> Request(w).floor,
                         version |-> result[w].version, torn |-> result[w].torn]
      <4>1. new \in [kind : AllKinds, floor : Nat, version : Nat, torn : BOOLEAN]
        BY <2>1, <2>2
      <4>2. answer' = answer \/ answer' = [answer EXCEPT ![serving[w]] = new]
        BY <1>13, <2>4 DEF WriteFrame
      <4> QED BY <2>1, <4>1, <4>2
    <3> QED BY <3>1, <3>2, <3>3 DEF NoResult
  <2> QED BY <2>3, <2>4
<1> QED
  BY <1>1, <1>2, <1>3, <1>4, <1>5, <1>6, <1>7, <1>8, <1>9, <1>10, <1>11, <1>12, <1>13, <1>14
     DEF Next, Client, Worker

(* A connection enters the queue when its client has none, and leaves it   *)
(* from the front, to be served.                                           *)
LEMMA QueueKept == PoolInv /\ [Next]_vars => QueueOK'
<1> SUFFICES ASSUME PoolInv, [Next]_vars PROVE QueueOK'
  OBVIOUS
<1> USE DEF QueueOK
<1>1. /\ queue \in Seq(Clients) /\ QueueOK
      /\ conn \in [Clients -> {"none", "queued", "served"}]
  BY DEF PoolInv, TypeOK
<1>2. CASE UNCHANGED <<queue, conn>>
  BY <1>1, <1>2
<1>3. ASSUME NEW c \in Clients, Connect(c) PROVE QueueOK'
  <2>1. /\ queue' = Append(queue, c) /\ conn[c] = "none"
        /\ conn' = [conn EXCEPT ![c] = "queued"]
    BY <1>3 DEF Connect
  <2>2. /\ Len(queue') = Len(queue) + 1 /\ Len(queue) \in Nat
        /\ \A i \in 1..Len(queue) : queue'[i] = queue[i] /\ queue[i] \in Clients
        /\ queue'[Len(queue) + 1] = c
    BY <1>1, <2>1
  <2>3. \A i \in 1..Len(queue) : queue[i] # c
    BY <1>1, <2>1
  <2>4. ASSUME NEW i \in 1..Len(queue') PROVE conn'[queue'[i]] = "queued"
    BY <1>1, <2>1, <2>2, i \in 1..Len(queue) \/ i = Len(queue) + 1
  <2>5. ASSUME NEW i \in 1..Len(queue'), NEW j \in 1..Len(queue'), queue'[i] = queue'[j]
        PROVE  i = j
    BY <1>1, <2>2, <2>3, <2>5, i \in 1..Len(queue) \/ i = Len(queue) + 1,
       j \in 1..Len(queue) \/ j = Len(queue) + 1
  <2> QED BY <2>4, <2>5
<1>4. ASSUME NEW w \in Workers, Pull(w) PROVE QueueOK'
  <2>1. /\ queue # <<>> /\ queue' = Tail(queue)
        /\ conn' = [conn EXCEPT ![queue[1]] = "served"]
    BY <1>1, <1>4 DEF Pull
  <2>2. /\ Len(queue') = Len(queue) - 1 /\ Len(queue) \in Nat \ {0}
        /\ \A i \in 1..Len(queue') : queue'[i] = queue[i + 1] /\ queue[i + 1] \in Clients
    BY <1>1, <2>1
  <2>3. ASSUME NEW i \in 1..Len(queue') PROVE conn'[queue'[i]] = "queued"
    <3>1. i + 1 \in 1..Len(queue) /\ 1 \in 1..Len(queue) /\ i + 1 # 1
      BY <2>2
    <3>2. queue[i + 1] # queue[1]
      BY <1>1, <3>1
    <3> QED BY <1>1, <2>1, <2>2, <3>1, <3>2
  <2>4. ASSUME NEW i \in 1..Len(queue'), NEW j \in 1..Len(queue'), queue'[i] = queue'[j]
        PROVE  i = j
    BY <1>1, <2>2, <2>4, i + 1 \in 1..Len(queue), j + 1 \in 1..Len(queue)
  <2> QED BY <2>3, <2>4
<1>5. ASSUME NEW w \in Workers, NEW next, Leave(w, next),
             worker[w] \in Running \cup {"reading"}
      PROVE  QueueOK'
  <2>1. /\ queue' = queue /\ conn' = [conn EXCEPT ![serving[w]] = "none"]
        /\ conn[serving[w]] = "served"
    BY <1>5, ServedClient DEF Leave
  <2>2. ASSUME NEW i \in 1..Len(queue) PROVE conn'[queue[i]] = "queued"
    <3>1. conn[queue[i]] = "queued" /\ queue[i] # serving[w]
      BY <1>1, <2>1
    <3> QED BY <1>1, <2>1, <3>1
  <2> QED BY <1>1, <2>1, <2>2
<1>6. ASSUME NEW w \in Workers, ReadFrame(w) \/ Lock(w) \/ ExecuteRead(w)
                                \/ ExecuteWrite(w) \/ WriteFrame(w)
      PROVE  QueueOK'
  <2>1. worker[w] \in Running \cup {"reading"}
    BY <1>6 DEF ReadFrame, Lock, ExecuteRead, ExecuteWrite, WriteFrame, Running
  <2>2. UNCHANGED <<queue, conn>> \/ \E next : Leave(w, next)
    BY <1>6 DEF ReadFrame, Lock, ExecuteRead, ExecuteWrite, WriteFrame, Become, client
  <2> QED BY <1>2, <1>5, <2>1, <2>2
<1>7. CASE Exit
  BY <1>7 DEF Exit
<1> QED
  BY <1>2, <1>3, <1>4, <1>6, <1>7
     DEF Next, Client, Worker, vars, pool, client, Disconnect, Send, ListenerError,
         TakeReceiver, ChannelClosed

(* What a step of a worker at work does to the pool: it goes on serving    *)
(* its client, or leaves it.                                               *)
LEMMA AtWork ==
  ASSUME NEW w \in Workers,
         ReadFrame(w) \/ Lock(w) \/ ExecuteRead(w) \/ ExecuteWrite(w) \/ WriteFrame(w)
  PROVE  /\ worker[w] \in Running \cup {"reading"}
         /\ UNCHANGED <<accepting, queue, rx, closed, requests, connects>>
         /\ \/ \E next \in {"idle", "dead"} : Leave(w, next)
            \/ /\ \E next \in Running \cup {"reading"} : worker' = [worker EXCEPT ![w] = next]
               /\ UNCHANGED <<serving, conn>>
BY DEF ReadFrame, Lock, ExecuteRead, ExecuteWrite, WriteFrame, Leave, Become, Running,
       client, pool, history

(* A worker serves the connection it takes from the queue, where no other  *)
(* worker finds it, and serves no other until it leaves this one.          *)
LEMMA ServingKept == PoolInv /\ [Next]_vars => ServingOK'
<1> SUFFICES ASSUME PoolInv, [Next]_vars PROVE ServingOK'
  OBVIOUS
<1> USE PoolAssumption DEF ServingOK, Running
<1>1. /\ ServingOK
      /\ queue \in Seq(Clients)
      /\ worker \in [Workers -> Stops \cup {"idle", "pulling", "reading", "want_read",
                   "want_write", "holds_read", "holds_write", "replying"}]
      /\ serving \in [Workers -> Clients \cup {None}]
      /\ conn \in [Clients -> {"none", "queued", "served"}]
  BY DEF PoolInv, TypeOK
<1>2. CASE UNCHANGED <<worker, serving, conn>>
  BY <1>1, <1>2
<1>3. ASSUME NEW c \in Clients, Connect(c) PROVE ServingOK'
  BY <1>1, <1>3 DEF Connect, pool
<1>4. ASSUME NEW w \in Workers, TakeReceiver(w) \/ ChannelClosed(w) PROVE ServingOK'
  BY <1>1, <1>4 DEF TakeReceiver, ChannelClosed, client
<1>5. ASSUME NEW w \in Workers, Pull(w) PROVE ServingOK'
  <2>1. Head(queue) \in Clients /\ conn[Head(queue)] = "queued"
    BY <1>1, <1>5 DEF Pull, PoolInv, QueueOK
  <2>2. \A v \in Workers : serving[v] # Head(queue)
    BY <1>1, <2>1
  <2> QED BY <1>1, <1>5, <2>1, <2>2 DEF Pull
<1>6. ASSUME NEW w \in Workers, NEW next \in {"idle", "dead"}, Leave(w, next),
             worker[w] \in Running \cup {"reading"}
      PROVE  ServingOK'
  BY <1>1, <1>6 DEF Leave
<1>7. ASSUME NEW w \in Workers, ReadFrame(w) \/ Lock(w) \/ ExecuteRead(w)
                                \/ ExecuteWrite(w) \/ WriteFrame(w)
      PROVE  ServingOK'
  <2>1. CASE \E next \in {"idle", "dead"} : Leave(w, next)
    BY <1>6, <1>7, <2>1, AtWork
  <2>2. CASE /\ \E next \in Running \cup {"reading"} : worker' = [worker EXCEPT ![w] = next]
             /\ UNCHANGED <<serving, conn>>
    BY <1>1, <1>7, <2>2, AtWork
  <2> QED BY <1>7, <2>1, <2>2, AtWork
<1>8. CASE Exit
  BY <1>1, <1>8 DEF Exit, Stops
<1> QED
  BY <1>2, <1>3, <1>4, <1>5, <1>7, <1>8
     DEF Next, Client, Worker, vars, pool, client, Disconnect, Send, ListenerError

(* While a worker runs a request, its client cannot replace it, and what   *)
(* the worker does next agrees with its kind.                              *)
LEMMA RequestKept == PoolInv /\ [Next]_vars => RequestOK'
<1> SUFFICES ASSUME PoolInv, [Next]_vars PROVE RequestOK'
  OBVIOUS
<1> USE DEF RequestOK, Request, Running
<1>1. /\ RequestOK
      /\ worker \in [Workers -> Stops \cup {"idle", "pulling", "reading", "want_read",
                   "want_write", "holds_read", "holds_write", "replying"}]
      /\ serving \in [Workers -> Clients \cup {None}]
      /\ request \in [Clients -> [kind : Kinds, floor : Nat] \cup {None}]
      /\ \A w \in Workers : worker[w] \in Running => serving[w] \in Clients
  BY ServedClient DEF PoolInv, TypeOK
<1>2. CASE UNCHANGED <<worker, serving, request>>
  BY <1>1, <1>2
<1>3. ASSUME NEW c \in Clients, NEW kind \in Kinds, Send(c, kind) PROVE RequestOK'
  BY <1>1, <1>3 DEF Send, pool
<1>4. ASSUME NEW w \in Workers, TakeReceiver(w) \/ ChannelClosed(w) PROVE RequestOK'
  BY <1>1, <1>4 DEF TakeReceiver, ChannelClosed, client, Stops
<1>5. ASSUME NEW w \in Workers, Pull(w) PROVE RequestOK'
  BY <1>1, <1>5 DEF Pull
<1>6. ASSUME NEW w \in Workers, NEW next \in {"idle", "dead"}, Leave(w, next),
             worker[w] \in Running \cup {"reading"}
      PROVE  RequestOK'
  <2>1. \A v \in Workers : v # w => serving[v] # serving[w]
    BY <1>6, ServedClient
  <2> QED BY <1>1, <1>6, <2>1 DEF Leave
<1>7. ASSUME NEW w \in Workers, ReadFrame(w) PROVE RequestOK'
  <2>1. CASE \E next \in {"idle", "dead"} : Leave(w, next)
    BY <1>6, <1>7, <2>1, AtWork
  <2>2. CASE \E next : Become(w, next)
    BY <1>1, <1>7, <2>1, <2>2 DEF ReadFrame, Become, client
  <2> QED BY <1>7, <2>1, <2>2 DEF ReadFrame
<1>8. ASSUME NEW w \in Workers, Lock(w) PROVE RequestOK'
  <2>1. CASE \E next \in {"idle", "dead"} : Leave(w, next)
    BY <1>6, <1>8, <2>1, AtWork
  <2>2. CASE Become(w, IF worker[w] = "want_read" THEN "holds_read" ELSE "holds_write")
    BY <1>1, <1>8, <2>2 DEF Lock, Become, client
  <2> QED BY <1>8, <2>1, <2>2 DEF Lock
<1>9. ASSUME NEW w \in Workers, ExecuteRead(w) \/ ExecuteWrite(w) PROVE RequestOK'
  <2>1. CASE \E next \in {"idle", "dead"} : Leave(w, next)
    BY <1>6, <1>9, <2>1, AtWork
  <2>2. CASE Become(w, "replying") /\ Request(w).kind \in {"read", "write"}
    BY <1>1, <1>9, <2>2 DEF ExecuteRead, ExecuteWrite, Become, client
  <2> QED BY <1>9, <2>1, <2>2 DEF ExecuteRead, ExecuteWrite
<1>10. ASSUME NEW w \in Workers, WriteFrame(w) PROVE RequestOK'
  <2>1. CASE \E next \in {"idle", "dead"} : Leave(w, next)
    BY <1>6, <1>10, <2>1, AtWork
  <2>2. CASE /\ worker' = [worker EXCEPT ![w] = "reading"]
             /\ request' = [request EXCEPT ![serving[w]] = None]
             /\ UNCHANGED serving
    <3>1. \A v \in Workers : v # w => serving[v] # serving[w]
      BY <1>10, ServedClient DEF WriteFrame
    <3> QED BY <1>1, <2>2, <3>1
  <2> QED BY <1>10, <2>1, <2>2 DEF WriteFrame
<1>11. CASE Exit
  BY <1>11 DEF Exit
<1> QED
  BY <1>2, <1>3, <1>4, <1>5, <1>7, <1>8, <1>9, <1>10, <1>11
     DEF Next, Client, Worker, vars, pool, client, Connect, Disconnect, ListenerError

(* The lock's guards: a worker holds one exactly while it runs a command,  *)
(* and a writer that panics gives its guard back with the lock poisoned,   *)
(* which nobody then takes.                                                *)
LEMMA LockKept == PoolInv /\ [Next]_vars => LockOK'
<1> SUFFICES ASSUME PoolInv, [Next]_vars PROVE LockOK'
  OBVIOUS
<1> USE PoolAssumption DEF LockOK, LockHeldByRunning, Running
<1>1. /\ LockOK
      /\ worker \in [Workers -> Stops \cup {"idle", "pulling", "reading", "want_read",
                   "want_write", "holds_read", "holds_write", "replying"}]
      /\ lock \in [readers : SUBSET Workers, writer : Workers \cup {None}, poisoned : BOOLEAN]
      /\ torn \in BOOLEAN
      /\ result \in [Workers -> [version : Nat, torn : BOOLEAN]]
      /\ version \in Nat
  BY DEF PoolInv, TypeOK, HistoriesOK
<1>2. CASE UNCHANGED <<worker, lock, torn, result>>
  BY <1>1, <1>2
<1>3. ASSUME NEW w \in Workers, NEW next \in {"pulling", "exited", "idle", "dead", "reading",
                                              "want_read", "want_write", "replying"},
             worker[w] \notin {"holds_read", "holds_write"},
             worker' = [worker EXCEPT ![w] = next],
             UNCHANGED <<lock, torn>>,
             result' \in {result, [result EXCEPT ![w] = NoResult]}
      PROVE  LockOK'
  <2>1. \A v \in Workers : /\ worker'[v] = "holds_read" <=> worker[v] = "holds_read"
                           /\ worker'[v] = "holds_write" <=> worker[v] = "holds_write"
    BY <1>1, <1>3
  <2>2. \A v \in Workers : ~result'[v].torn
    BY <1>1, <1>3 DEF NoResult
  <2> QED BY <1>1, <1>3, <2>1, <2>2
<1>4. ASSUME NEW w \in Workers, Lock(w) PROVE LockOK'
  <2>1. CASE Leave(w, "dead") /\ UNCHANGED <<store, result>>
    BY <1>3, <1>4, <2>1 DEF Leave, Lock, store
  <2>2. CASE /\ worker[w] = "want_read" /\ lock.writer = None /\ ~lock.poisoned
             /\ lock' = [lock EXCEPT !.readers = @ \cup {w}]
             /\ worker' = [worker EXCEPT ![w] = "holds_read"]
             /\ UNCHANGED <<torn, result>>
    BY <1>1, <2>2
  <2>3. CASE /\ worker[w] = "want_write" /\ lock.writer = None /\ lock.readers = {}
             /\ ~lock.poisoned
             /\ lock' = [lock EXCEPT !.writer = w]
             /\ worker' = [worker EXCEPT ![w] = "holds_write"]
             /\ UNCHANGED <<torn, result>>
    BY <1>1, <2>3
  <2> QED BY <1>4, <2>1, <2>2, <2>3 DEF Lock, Become
<1>5. ASSUME NEW w \in Workers, ExecuteRead(w) PROVE LockOK'
  <2>1. /\ worker[w] = "holds_read" /\ lock' = [lock EXCEPT !.readers = @ \ {w}]
        /\ \E next \in {"dead", "replying"} : worker' = [worker EXCEPT ![w] = next]
        /\ UNCHANGED torn
        /\ result' \in {result, [result EXCEPT ![w] = [version |-> version, torn |-> torn]]}
    BY <1>5 DEF ExecuteRead, Leave, Become
  <2>2. lock.writer = None /\ ~lock.poisoned /\ ~torn
    BY <1>1, <2>1
  <2>3. \A v \in Workers : ~result'[v].torn
    BY <1>1, <2>1, <2>2
  <2> QED BY <1>1, <2>1, <2>2, <2>3
<1>6. ASSUME NEW w \in Workers, ExecuteWrite(w) PROVE LockOK'
  <2>1. worker[w] = "holds_write" /\ lock.writer = w /\ lock.readers = {}
    BY <1>1, <1>6 DEF ExecuteWrite
  <2>2. ~lock.poisoned /\ ~torn
    BY <1>1, <2>1
  <2>3. CASE /\ lock' = [lock EXCEPT !.writer = None, !.poisoned = TRUE]
             /\ worker' = [worker EXCEPT ![w] = "dead"]
             /\ UNCHANGED result
    BY <1>1, <2>1, <2>3
  <2>4. CASE /\ lock' = [lock EXCEPT !.writer = None]
             /\ worker' = [worker EXCEPT ![w] = "replying"]
             /\ result' = [result EXCEPT ![w] = [version |-> version + 1, torn |-> torn]]
             /\ UNCHANGED torn
    BY <1>1, <2>1, <2>2, <2>4
  <2> QED BY <1>6, <2>3, <2>4 DEF ExecuteWrite, Leave, Become
<1>7. ASSUME NEW w \in Workers, ReadFrame(w) \/ WriteFrame(w) PROVE LockOK'
  BY <1>3, <1>7 DEF ReadFrame, WriteFrame, Leave, Become, store
<1>8. ASSUME NEW w \in Workers, TakeReceiver(w) \/ Pull(w) \/ ChannelClosed(w) PROVE LockOK'
  BY <1>3, <1>8 DEF TakeReceiver, Pull, ChannelClosed, store
<1>9. CASE Exit
  BY <1>1, <1>9 DEF Exit, NoResult, history
<1> QED
  BY <1>2, <1>4, <1>5, <1>6, <1>7, <1>8, <1>9
     DEF Next, Client, Worker, vars, pool, store, client, Connect, Disconnect, Send, ListenerError

(* A command finds the version of the store no older than any answer given *)
(* before its request was sent; a write moves past all of them.            *)
LEMMA VersionsKept == PoolInv /\ [Next]_vars => VersionsOK'
<1> SUFFICES ASSUME PoolInv, [Next]_vars PROVE VersionsOK'
  OBVIOUS
<1> USE PoolAssumption DEF VersionsOK, Request
<1>1. /\ VersionsOK
      /\ worker \in [Workers -> Stops \cup {"idle", "pulling", "reading", "want_read",
                   "want_write", "holds_read", "holds_write", "replying"}]
      /\ serving \in [Workers -> Clients \cup {None}]
      /\ request \in [Clients -> [kind : Kinds, floor : Nat] \cup {None}]
      /\ result \in [Workers -> [version : Nat, torn : BOOLEAN]]
      /\ version \in Nat /\ acked \in Nat
  BY DEF PoolInv, TypeOK, HistoriesOK
<1>2. \A w \in Workers : worker[w] \in Running =>
        /\ serving[w] \in Clients /\ request[serving[w]] # None
        /\ request[serving[w]] \in [kind : Kinds, floor : Nat]
        /\ request[serving[w]].floor <= acked
        /\ \A v \in Workers : v # w => serving[v] # serving[w]
  BY <1>1, ServedClient DEF PoolInv, RequestOK
<1>3. CASE UNCHANGED <<worker, serving, request, version, result, acked>>
  BY <1>1, <1>3
<1>4. ASSUME NEW c \in Clients, NEW kind \in Kinds, Send(c, kind) PROVE VersionsOK'
  <2>1. /\ request[c] = None /\ request' = [request EXCEPT ![c] = [kind |-> kind, floor |-> acked]]
        /\ UNCHANGED <<worker, serving, version, result, acked>>
    BY <1>4 DEF Send, pool, store, history
  <2>2. \A w \in Workers : worker[w] = "replying" => serving[w] # c
    BY <1>2, <2>1 DEF Running
  <2> QED BY <1>1, <1>2, <2>1, <2>2 DEF Running
<1>5. ASSUME NEW w \in Workers, NEW next \in {"pulling", "exited", "reading", "want_read",
                                              "want_write", "holds_read", "holds_write"},
             worker' = [worker EXCEPT ![w] = next],
             \A v \in Workers : v # w => serving'[v] = serving[v],
             UNCHANGED <<request, version, result, acked>>
      PROVE  VersionsOK'
  BY <1>1, <1>5
<1>6. ASSUME NEW w \in Workers, NEW next \in {"idle", "dead"}, Leave(w, next),
             worker[w] \in Running \cup {"reading"},
             version' = version, result' \in {result, [result EXCEPT ![w] = NoResult]}
      PROVE  VersionsOK'
  <2>1. \A v \in Workers : v # w => serving[v] # serving[w]
    BY <1>6, ServedClient
  <2>2. /\ worker' = [worker EXCEPT ![w] = next] /\ serving' = [serving EXCEPT ![w] = None]
        /\ request' = [request EXCEPT ![serving[w]] = None]
        /\ acked' = acked /\ serving[w] \in Clients
    BY <1>6, ServedClient DEF Leave, history
  <2>3. \A v \in Workers : result'[v].version <= version
    BY <1>1, <1>6 DEF NoResult
  <2>4. \A v \in Workers : v # w => serving'[v] = serving[v] /\ worker'[v] = worker[v]
                                    /\ result'[v] = result[v]
    BY <1>1, <1>6, <2>2
  <2>5. \A v \in Workers : worker'[v] = "replying" =>
          v # w /\ request'[serving'[v]] = request[serving[v]]
    BY <1>1, <1>2, <2>1, <2>2, <2>4 DEF Running
  <2> QED BY <1>1, <1>6, <2>2, <2>3, <2>4, <2>5
<1>7. ASSUME NEW w \in Workers, NEW v \in Nat,
             version <= v, version' = v,
             worker' = [worker EXCEPT ![w] = "replying"],
             result' = [result EXCEPT ![w] = [version |-> v, torn |-> torn]],
             UNCHANGED <<serving, request, acked>>,
             Request(w).kind = "read" => v >= Request(w).floor,
             Request(w).kind = "write" => v > Request(w).floor
      PROVE  VersionsOK'
  <2>1. result'[w].version = v /\ \A u \in Workers : u # w => result'[u] = result[u]
    BY <1>1, <1>7
  <2> QED BY <1>1, <1>7, <2>1
<1>8. ASSUME NEW w \in Workers, ReadFrame(w) PROVE VersionsOK'
  <2>1. CASE \E next \in {"idle", "dead"} : Leave(w, next)
    BY <1>6, <1>8, <2>1 DEF ReadFrame, store
  <2>2. CASE \E next \in {"want_read", "want_write"} : Become(w, next)
    BY <1>5, <1>8, <2>2 DEF ReadFrame, Become, store, client, history
  <2>3. CASE Become(w, "replying") /\ Request(w).kind = "reject"
    BY <1>1, <1>8, <2>3 DEF ReadFrame, Become, store, client, history
  <2> QED BY <1>8, <2>1, <2>2, <2>3 DEF ReadFrame
<1>9. ASSUME NEW w \in Workers, Lock(w) PROVE VersionsOK'
  <2>1. CASE Leave(w, "dead")
    <3>1. worker[w] \in Running /\ UNCHANGED <<version, result>>
      BY <1>9 DEF Lock, Running, store
    <3> QED BY <1>6, <2>1, <3>1
  <2>2. CASE \E next \in {"holds_read", "holds_write"} : Become(w, next)
    <3>1. UNCHANGED <<version, result>>
      BY <1>9 DEF Lock, store
    <3> QED BY <1>5, <2>2, <3>1 DEF Become, client, history
  <2> QED BY <1>9, <2>1, <2>2 DEF Lock
<1>10. ASSUME NEW w \in Workers, ExecuteRead(w) PROVE VersionsOK'
  <2>1. CASE Leave(w, "dead") /\ UNCHANGED result
    BY <1>6, <1>10, <2>1 DEF ExecuteRead, Running
  <2>2. CASE /\ Request(w).kind = "read" /\ Become(w, "replying")
             /\ result' = [result EXCEPT ![w] = [version |-> version, torn |-> torn]]
    <3>1. version >= Request(w).floor
      BY <1>1, <1>2, <1>10 DEF ExecuteRead, Running
    <3> QED BY <1>1, <1>7, <1>10, <2>2, <3>1 DEF ExecuteRead, Become, client, history
  <2> QED BY <1>10, <2>1, <2>2 DEF ExecuteRead
<1>11. ASSUME NEW w \in Workers, ExecuteWrite(w) PROVE VersionsOK'
  <2>1. CASE Leave(w, "dead") /\ UNCHANGED <<version, result>>
    BY <1>6, <1>11, <2>1 DEF ExecuteWrite, Running
  <2>2. CASE /\ Request(w).kind = "write" /\ Become(w, "replying") /\ version' = version + 1
             /\ result' = [result EXCEPT ![w] = [version |-> version + 1, torn |-> torn]]
    <3>1. version + 1 > Request(w).floor
      BY <1>1, <1>2, <1>11 DEF ExecuteWrite, Running
    <3> QED BY <1>1, <1>7, <2>2, <3>1 DEF Become, client, history
  <2> QED BY <1>11, <2>1, <2>2 DEF ExecuteWrite
<1>12. ASSUME NEW w \in Workers, WriteFrame(w) PROVE VersionsOK'
  <2>1. CASE Leave(w, "idle")
    BY <1>6, <1>12, <2>1 DEF WriteFrame, Running, store
  <2>2. CASE ~Leave(w, "idle")
    <3>1. /\ worker' = [worker EXCEPT ![w] = "reading"]
          /\ request' = [request EXCEPT ![serving[w]] = None]
          /\ result' = [result EXCEPT ![w] = NoResult]
          /\ acked' \in {acked, result[w].version} /\ acked' >= acked
          /\ UNCHANGED <<version, serving>>
      BY <1>1, <1>12, <2>2 DEF WriteFrame, store, history
    <3>2. acked' \in Nat /\ acked' <= version
      BY <1>1, <3>1
    <3>3. \A v \in Workers : result'[v].version <= version
      BY <1>1, <3>1 DEF NoResult
    <3>4. \A v \in Workers : worker'[v] = "replying" =>
            /\ result'[v] = result[v] /\ worker[v] = "replying"
            /\ request'[serving'[v]] = request[serving[v]]
      BY <1>1, <1>2, <1>12, <3>1 DEF Running, WriteFrame
    <3>5. \A c \in Clients : request'[c] # None => request'[c].floor <= acked'
      <4>1. \A c \in Clients : request'[c] = request[c] \/ request'[c] = None
        BY <1>1, <3>1
      <4> QED BY <1>1, <3>1, <3>2, <4>1
    <3> QED BY <1>1, <3>1, <3>2, <3>3, <3>4, <3>5
  <2> QED BY <2>1, <2>2
<1>13. ASSUME NEW w \in Workers, TakeReceiver(w) \/ Pull(w) \/ ChannelClosed(w)
       PROVE  VersionsOK'
  BY <1>1, <1>5, <1>13 DEF TakeReceiver, Pull, ChannelClosed, store, client, history
<1>14. CASE Exit
  BY <1>1, <1>14 DEF Exit, NoResult, history
<1> QED
  BY <1>3, <1>4, <1>8, <1>9, <1>10, <1>11, <1>12, <1>13, <1>14
     DEF Next, Client, Worker, vars, pool, store, client, history, Connect, Disconnect,
         ListenerError

(* What a worker writes out is a whole version, no older than the floor of *)
(* the request it answers.                                                 *)
LEMMA AnswersKept == PoolInv /\ [Next]_vars => NoTornAnswer' /\ RealTimeOrder'
<1> SUFFICES ASSUME PoolInv, [Next]_vars PROVE NoTornAnswer' /\ RealTimeOrder'
  OBVIOUS
<1> USE DEF NoTornAnswer, RealTimeOrder
<1>1. /\ NoTornAnswer /\ RealTimeOrder
      /\ answer \in [Clients -> [kind : AllKinds, floor : Nat, version : Nat, torn : BOOLEAN]]
  BY DEF PoolInv, HistoriesOK
<1>2. CASE UNCHANGED answer
  BY <1>1, <1>2
<1>3. ASSUME NEW w \in Workers, WriteFrame(w) PROVE NoTornAnswer' /\ RealTimeOrder'
  <2> DEFINE r == Request(w)
             new == [kind |-> r.kind, floor |-> r.floor,
                     version |-> result[w].version, torn |-> result[w].torn]
  <2>1. worker[w] = "replying" /\ ~result[w].torn /\ r.kind \in {"read", "write", "reject"}
    BY <1>3 DEF WriteFrame, PoolInv, LockOK, RequestOK, Running
  <2>2. /\ r.kind = "read" => result[w].version >= r.floor
        /\ r.kind = "write" => result[w].version > r.floor
    BY <2>1 DEF PoolInv, VersionsOK
  <2>3. \/ UNCHANGED answer
        \/ r.kind # "reject" /\ answer' = [answer EXCEPT ![serving[w]] = new]
    BY <1>3 DEF WriteFrame, Leave, history
  <2> HIDE DEF r
  <2> QED BY <1>1, <1>2, <2>1, <2>2, <2>3
<1> QED
  BY <1>2, <1>3
     DEF Next, Client, Worker, vars, history, Connect, Disconnect, Send, ListenerError,
         Exit, TakeReceiver, Pull, ChannelClosed, ReadFrame, Lock, ExecuteRead, ExecuteWrite,
         Leave, Become

-----------------------------------------------------------------------------
(* The theorems.                                                           *)

(* The inductive invariant holds in every reachable state.                 *)
LEMMA AlwaysPoolInv == Spec => []PoolInv
<1>1. PoolInv /\ [Next]_vars => PoolInv'
  BY TypesKept, QueueKept, ServingKept, RequestKept, LockKept, VersionsKept, AnswersKept
     DEF PoolInv
<1> QED BY InitPoolInv, <1>1, PTL DEF Spec

(* The pool keeps its types, whatever the clients send and whoever panics. *)
THEOREM PoolTypeCorrect == Spec => []TypeOK
<1>1. PoolInv => TypeOK
  BY DEF PoolInv
<1> QED BY AlwaysPoolInv, <1>1, PTL

(* The store's lock is held by exactly the workers that run a command, one *)
(* writer or any number of readers (handle_connection, process_request).   *)
THEOREM LockDiscipline == Spec => []LockHeldByRunning
<1>1. PoolInv => LockHeldByRunning
  BY DEF PoolInv, LockOK
<1> QED BY AlwaysPoolInv, <1>1, PTL

(* A write that panics half-way is never seen in an answer: its poison     *)
(* turns every later command into a panic before it reads.                 *)
THEOREM HalfWritesStayHidden == Spec => []NoTornAnswer
<1>1. PoolInv => NoTornAnswer
  BY DEF PoolInv
<1> QED BY AlwaysPoolInv, <1>1, PTL

(* Answers respect real time: each reflects every write answered, to any   *)
(* client, before its request was sent.                                    *)
THEOREM AnswersInRealTime == Spec => []RealTimeOrder
<1>1. PoolInv => RealTimeOrder
  BY DEF PoolInv
<1> QED BY AlwaysPoolInv, <1>1, PTL
=============================================================================
