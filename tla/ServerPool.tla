----------------------------- MODULE ServerPool ------------------------------
(***************************************************************************)
(* The server's concurrency (server/src/lib.rs): an accept loop that hands *)
(* connections to an mpsc channel, `pool_size` workers that share its      *)
(* receiver through a Mutex and serve one connection at a time, and one    *)
(* RwLock around the whole store, which a panicking writer poisons.        *)
(*                                                                         *)
(* What a command computes is module ServerCommands'.  Here the store is   *)
(* the number of writes applied to it, and `torn` says that a write was    *)
(* abandoned half-way.  A request's kind is all the workers tell apart:    *)
(*   read, write    a command under the shared, the exclusive lock         *)
(*   reject         answered without the lock (bad identifier, version,    *)
(*                  command)                                               *)
(*   bad_frame      read_frame fails with other than end of stream         *)
(*   panic_decode   value_from_wire panics, before the lock is taken       *)
(*   panic_read     the engine panics under the shared lock (FieldIndex's  *)
(*                  crossed bounds, TextIndex's stale posting, in a debug  *)
(*                  build the assertion of Values' order)                  *)
(*   panic_write    the engine panics under the exclusive lock             *)
(***************************************************************************)
EXTENDS Naturals, Sequences, FiniteSets

CONSTANTS
  Workers,      \* the pool's threads
  Clients,      \* client processes, each with at most one open connection
  None,         \* no worker, no client
  Kinds,        \* the kinds of request the clients send
  MaxRequests,  \* bound: requests a client sends over its life
  MaxConnects   \* bound: connections a client opens over its life

AllKinds == {"read", "write", "reject", "bad_frame",
             "panic_decode", "panic_read", "panic_write"}

ASSUME PoolAssumption ==
  /\ None \notin Workers \cup Clients
  /\ Kinds \subseteq AllKinds
  /\ MaxRequests \in Nat /\ MaxConnects \in Nat

VARIABLES
  accepting,  \* the accept loop runs
  queue,      \* the channel: accepted connections, by client
  rx,         \* the worker that holds the receiver's Mutex, or None
  worker,     \* worker -> what it is doing
  serving,    \* worker -> the client whose connection it serves, or None
  conn,       \* client -> "none", "queued", "served"
  closed,     \* client -> it has closed its end
  request,    \* client -> the request in flight: [kind, floor], or None
  lock,       \* the RwLock: [readers, writer, poisoned]
  version,    \* writes applied to the store
  torn,       \* a write was abandoned half-way
  result,     \* worker -> what its command answered: [version, torn]
  acked,      \* history: the greatest version in an answer to a write
  answer,     \* history: client -> its last answer [kind, floor, version, torn]
  requests,   \* client -> requests sent
  connects    \* client -> connections opened

pool == <<rx, worker, serving>>
client == <<conn, closed, request, requests, connects>>
store == <<lock, version, torn>>
history == <<acked, answer>>
vars == <<accepting, queue, pool, client, store, result, history>>

Stops == {"dead", "exited"}

NoResult == [version |-> 0, torn |-> FALSE]

-----------------------------------------------------------------------------
(* Clients, and the accept loop, which is never behind: `send` on the      *)
(* unbounded channel does not block.                                       *)

Connect(c) ==
  /\ accepting /\ conn[c] = "none" /\ connects[c] < MaxConnects
  /\ conn' = [conn EXCEPT ![c] = "queued"]
  /\ closed' = [closed EXCEPT ![c] = FALSE]
  /\ connects' = [connects EXCEPT ![c] = @ + 1]
  /\ queue' = Append(queue, c)
  /\ UNCHANGED <<accepting, pool, request, requests, store, result, history>>

(* A client has one request in flight; the kernel takes it even before a   *)
(* worker has picked the connection up.  `floor` records which writes had  *)
(* been answered by then, to anyone.                                       *)
Send(c, kind) ==
  /\ conn[c] # "none" /\ ~closed[c] /\ request[c] = None
  /\ requests[c] < MaxRequests
  /\ request' = [request EXCEPT ![c] = [kind |-> kind, floor |-> acked]]
  /\ requests' = [requests EXCEPT ![c] = @ + 1]
  /\ UNCHANGED <<accepting, queue, pool, conn, closed, connects, store, result, history>>

Disconnect(c) ==
  /\ conn[c] # "none" /\ ~closed[c]
  /\ closed' = [closed EXCEPT ![c] = TRUE]
  /\ UNCHANGED <<accepting, queue, pool, conn, request, requests, connects, store,
                 result, history>>

(* The listener fails: run() returns the error.  It drops the sender, and  *)
(* does not join the workers, which run on for as long as the process does.*)
ListenerError ==
  /\ accepting
  /\ accepting' = FALSE
  /\ UNCHANGED <<queue, pool, client, store, result, history>>

(* main returns what run() returned: the process ends, its threads with it *)
(* wherever they are, and its connections, the queued ones included, are   *)
(* closed.  The store is of no further use.  A program that embeds the     *)
(* server may live on after run(), so nothing forces this step.            *)
Exit ==
  /\ ~accepting /\ \E w \in Workers : worker[w] # "exited"
  /\ worker' = [w \in Workers |-> "exited"]
  /\ serving' = [w \in Workers |-> None]
  /\ rx' = None /\ queue' = <<>>
  /\ conn' = [c \in Clients |-> "none"]
  /\ request' = [c \in Clients |-> None]
  /\ lock' = [lock EXCEPT !.readers = {}, !.writer = None]
  /\ result' = [w \in Workers |-> NoResult]
  /\ UNCHANGED <<accepting, closed, requests, connects, version, torn, history>>

-----------------------------------------------------------------------------
(* A worker's turn to pull: it takes the Mutex and holds it in recv().     *)

TakeReceiver(w) ==
  /\ worker[w] = "idle" /\ rx = None
  /\ rx' = w
  /\ worker' = [worker EXCEPT ![w] = "pulling"]
  /\ UNCHANGED <<accepting, queue, serving, client, store, result, history>>

(* Fault: the guard lives as long as the connection it pulled.             *)
PullHolding(w) ==
  /\ worker[w] = "pulling" /\ queue # <<>>
  /\ queue' = Tail(queue)
  /\ serving' = [serving EXCEPT ![w] = Head(queue)]
  /\ worker' = [worker EXCEPT ![w] = "reading"]
  /\ conn' = [conn EXCEPT ![Head(queue)] = "served"]
  /\ UNCHANGED <<accepting, rx, closed, request, requests, connects, store, result, history>>

Pull(w) ==
  /\ worker[w] = "pulling" /\ queue # <<>>
  /\ rx' = None
  /\ queue' = Tail(queue)
  /\ serving' = [serving EXCEPT ![w] = Head(queue)]
  /\ worker' = [worker EXCEPT ![w] = "reading"]
  /\ conn' = [conn EXCEPT ![Head(queue)] = "served"]
  /\ UNCHANGED <<accepting, closed, request, requests, connects, store, result, history>>

ChannelClosed(w) ==
  /\ worker[w] = "pulling" /\ queue = <<>> /\ ~accepting
  /\ rx' = None
  /\ worker' = [worker EXCEPT ![w] = "exited"]
  /\ UNCHANGED <<accepting, queue, serving, client, store, result, history>>

(* The worker is done with its connection, which is dropped; a request     *)
(* still in flight is lost with it.                                        *)
Leave(w, next) ==
  /\ worker' = [worker EXCEPT ![w] = next]
  /\ serving' = [serving EXCEPT ![w] = None]
  /\ conn' = [conn EXCEPT ![serving[w]] = "none"]
  /\ request' = [request EXCEPT ![serving[w]] = None]
  /\ UNCHANGED <<accepting, queue, rx, closed, requests, connects, history>>

Become(w, next) ==
  /\ worker' = [worker EXCEPT ![w] = next]
  /\ UNCHANGED <<accepting, queue, rx, serving, client, history>>

-----------------------------------------------------------------------------
(* handle_connection and process_request.                                  *)

Request(w) == request[serving[w]]

ReadFrame(w) ==
  /\ worker[w] = "reading"
  /\ \/ /\ Request(w) = None /\ closed[serving[w]]
        /\ Leave(w, "idle")
        /\ UNCHANGED <<store, result>>
     \/ /\ Request(w) # None
        /\ \/ Request(w).kind = "bad_frame" /\ Leave(w, "idle")
           \/ Request(w).kind = "panic_decode" /\ Leave(w, "dead")
           \/ Request(w).kind \in {"read", "panic_read"} /\ Become(w, "want_read")
           \/ Request(w).kind \in {"write", "panic_write"} /\ Become(w, "want_write")
           \/ Request(w).kind = "reject" /\ Become(w, "replying")
        /\ UNCHANGED <<store, result>>

(* Fault: poisoning is ignored (into_inner).                               *)
LockIgnoringPoison(w) ==
  /\ \/ worker[w] = "want_read" /\ lock.writer = None
     \/ worker[w] = "want_write" /\ lock.writer = None /\ lock.readers = {}
  /\ lock' = IF worker[w] = "want_read"
             THEN [lock EXCEPT !.readers = @ \cup {w}]
             ELSE [lock EXCEPT !.writer = w]
  /\ Become(w, IF worker[w] = "want_read" THEN "holds_read" ELSE "holds_write")
  /\ UNCHANGED <<version, torn, result>>

(* Fault: a writer does not wait for the readers.                          *)
LockShared(w) ==
  /\ worker[w] \in {"want_read", "want_write"} /\ lock.writer = None
  /\ \/ /\ lock.poisoned
        /\ Leave(w, "dead")
        /\ UNCHANGED <<store, result>>
     \/ /\ ~lock.poisoned
        /\ lock' = IF worker[w] = "want_read"
                   THEN [lock EXCEPT !.readers = @ \cup {w}]
                   ELSE [lock EXCEPT !.writer = w]
        /\ Become(w, IF worker[w] = "want_read" THEN "holds_read" ELSE "holds_write")
        /\ UNCHANGED <<version, torn, result>>

(* state.read().unwrap() and state.write().unwrap(): a poisoned lock is a  *)
(* panic, and the guard inside the error is released with it.              *)
Lock(w) ==
  /\ \/ worker[w] = "want_read" /\ lock.writer = None
     \/ worker[w] = "want_write" /\ lock.writer = None /\ lock.readers = {}
  /\ \/ /\ lock.poisoned
        /\ Leave(w, "dead")
        /\ UNCHANGED <<store, result>>
     \/ /\ ~lock.poisoned
        /\ lock' = IF worker[w] = "want_read"
                   THEN [lock EXCEPT !.readers = @ \cup {w}]
                   ELSE [lock EXCEPT !.writer = w]
        /\ Become(w, IF worker[w] = "want_read" THEN "holds_read" ELSE "holds_write")
        /\ UNCHANGED <<version, torn, result>>

(* Fault: a panic under the shared lock leaks the guard.                   *)
ExecuteReadLeaks(w) ==
  /\ worker[w] = "holds_read"
  /\ UNCHANGED <<version, torn>>
  /\ \/ /\ Request(w).kind = "panic_read"
        /\ Leave(w, "dead")
        /\ UNCHANGED <<lock, result>>
     \/ /\ Request(w).kind = "read"
        /\ lock' = [lock EXCEPT !.readers = @ \ {w}]
        /\ result' = [result EXCEPT ![w] = [version |-> version, torn |-> torn]]
        /\ Become(w, "replying")

(* The command runs and its response is encoded; then the guard drops.     *)
ExecuteRead(w) ==
  /\ worker[w] = "holds_read"
  /\ lock' = [lock EXCEPT !.readers = @ \ {w}]
  /\ UNCHANGED <<version, torn>>
  /\ \/ /\ Request(w).kind = "panic_read"
        /\ Leave(w, "dead")
        /\ UNCHANGED result
     \/ /\ Request(w).kind = "read"
        /\ result' = [result EXCEPT ![w] = [version |-> version, torn |-> torn]]
        /\ Become(w, "replying")

(* Fault: a write answers from the store it found.                         *)
ExecuteWriteOldAnswer(w) ==
  /\ worker[w] = "holds_write" /\ Request(w).kind = "write"
  /\ lock' = [lock EXCEPT !.writer = None]
  /\ version' = version + 1
  /\ result' = [result EXCEPT ![w] = [version |-> version, torn |-> torn]]
  /\ Become(w, "replying")
  /\ UNCHANGED torn

ExecuteWrite(w) ==
  /\ worker[w] = "holds_write"
  /\ \/ /\ Request(w).kind = "panic_write"
        /\ lock' = [lock EXCEPT !.writer = None, !.poisoned = TRUE]
        /\ torn' \in {torn, TRUE}
        /\ Leave(w, "dead")
        /\ UNCHANGED <<version, result>>
     \/ /\ Request(w).kind = "write"
        /\ lock' = [lock EXCEPT !.writer = None]
        /\ version' = version + 1
        /\ result' = [result EXCEPT ![w] = [version |-> version + 1, torn |-> torn]]
        /\ Become(w, "replying")
        /\ UNCHANGED torn

(* write_frame: to a client that has gone it may fail, which ends the      *)
(* connection.                                                             *)
WriteFrame(w) ==
  /\ worker[w] = "replying"
  /\ result' = [result EXCEPT ![w] = NoResult]
  /\ UNCHANGED store
  /\ \/ closed[serving[w]] /\ Leave(w, "idle")
     \/ LET c == serving[w]
            r == Request(w)
        IN  /\ worker' = [worker EXCEPT ![w] = "reading"]
            /\ request' = [request EXCEPT ![c] = None]
            /\ IF r.kind = "reject" THEN UNCHANGED history
               ELSE /\ answer' = [answer EXCEPT ![c] =
                                   [kind |-> r.kind, floor |-> r.floor,
                                    version |-> result[w].version,
                                    torn |-> result[w].torn]]
                    /\ acked' = IF r.kind = "write" /\ result[w].version > acked
                                THEN result[w].version ELSE acked
            /\ UNCHANGED <<accepting, queue, rx, serving, conn, closed, requests, connects>>

-----------------------------------------------------------------------------
Init ==
  /\ accepting = TRUE /\ queue = <<>> /\ rx = None
  /\ worker = [w \in Workers |-> "idle"]
  /\ serving = [w \in Workers |-> None]
  /\ conn = [c \in Clients |-> "none"]
  /\ closed = [c \in Clients |-> TRUE]
  /\ request = [c \in Clients |-> None]
  /\ lock = [readers |-> {}, writer |-> None, poisoned |-> FALSE]
  /\ version = 0 /\ torn = FALSE
  /\ result = [w \in Workers |-> NoResult]
  /\ acked = 0
  /\ answer = [c \in Clients |-> [kind |-> "read", floor |-> 0, version |-> 0, torn |-> FALSE]]
  /\ requests = [c \in Clients |-> 0]
  /\ connects = [c \in Clients |-> 0]

Worker(w) ==
  \/ TakeReceiver(w) \/ Pull(w) \/ ChannelClosed(w)
  \/ ReadFrame(w) \/ Lock(w) \/ ExecuteRead(w) \/ ExecuteWrite(w) \/ WriteFrame(w)

Client(c) == Connect(c) \/ Disconnect(c) \/ \E kind \in Kinds : Send(c, kind)

Next ==
  \/ ListenerError \/ Exit
  \/ \E c \in Clients : Client(c)
  \/ \E w \in Workers : Worker(w)

(* A thread that can run does, while its process lives: Exit disables it.  *)
(* Nothing is assumed of a client, which may stay connected and silent for *)
(* ever, nor of Exit.                                                      *)
Fairness == \A w \in Workers : WF_vars(Worker(w))

Spec == Init /\ [][Next]_vars /\ Fairness

-----------------------------------------------------------------------------
TypeOK ==
  /\ queue \in Seq(Clients) /\ rx \in Workers \cup {None}
  /\ worker \in [Workers -> Stops \cup {"idle", "pulling", "reading", "want_read",
                   "want_write", "holds_read", "holds_write", "replying"}]
  /\ serving \in [Workers -> Clients \cup {None}]
  /\ conn \in [Clients -> {"none", "queued", "served"}]
  /\ request \in [Clients -> [kind : Kinds, floor : Nat] \cup {None}]
  /\ lock \in [readers : SUBSET Workers, writer : Workers \cup {None}, poisoned : BOOLEAN]
  /\ version \in Nat /\ acked \in Nat /\ torn \in BOOLEAN

(* Commands take effect in real-time order: an answer reflects every write *)
(* that had been answered, to any client, when the request was sent, and a *)
(* write comes after all of them.                                          *)
RealTimeOrder ==
  \A c \in Clients :
    LET a == answer[c]
    IN  IF a.kind = "write" THEN a.version > a.floor ELSE a.version >= a.floor

(* No answer shows a store that a panicking write left half-changed: the   *)
(* poisoned lock keeps every later command out.                            *)
NoTornAnswer == \A c \in Clients : ~answer[c].torn

(* Whoever holds the store's lock is running a command on it: a worker     *)
(* that panics or loses its client leaves no lock behind, and the shared   *)
(* and the exclusive lock exclude each other.                              *)
LockHeldByRunning ==
  /\ lock.readers = {w \in Workers : worker[w] = "holds_read"}
  /\ {w \in Workers : worker[w] = "holds_write"} =
       IF lock.writer = None THEN {} ELSE {lock.writer}
  /\ lock.writer = None \/ lock.readers = {}

(* "One bad client must not take down the pool" (run): some worker is      *)
(* left.                                                                   *)
PoolSurvives == \E w \in Workers : worker[w] # "dead"

(* Every worker is gone or has a connection of its own to serve.           *)
Busy == \A w \in Workers : worker[w] \in Stops \/ serving[w] # None

(* "Each worker locks, pulls one connection, then releases the lock to     *)
(* serve it" (run): an accepted connection is picked up, or closed with    *)
(* the process, unless from some time on every worker left serves another  *)
(* one for ever.  No worker is held up by what another serves, panics on   *)
(* or is killed by, nor by a poisoned lock or a failed listener; that idle *)
(* clients can keep the whole pool is the exception, not assumed away.     *)
EveryConnectionServed ==
  \A c \in Clients : []<>(conn[c] # "queued") \/ <>[]Busy

(* A request sent is answered, or its connection ended, unless the         *)
(* connection is never picked up because the pool stays busy: once a       *)
(* worker has it, neither the lock nor its poison nor a panic of another   *)
(* worker keeps the client waiting.                                        *)
EveryRequestAnswered ==
  \A c \in Clients : []<>(request[c] = None) \/ <>[](conn[c] = "queued" /\ Busy)
=============================================================================
