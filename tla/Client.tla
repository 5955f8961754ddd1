------------------------------- MODULE Client --------------------------------
(***************************************************************************)
(* One connection between a client (client-rust/src/lib.rs, Client;        *)
(* client-python/mooracer/client.py, Client) and the server's              *)
(* handle_connection (server/src/lib.rs).  Both directions are streams of  *)
(* tokens: a frame is its length and that many pieces of payload, and a    *)
(* reader cannot tell one kind of token from the other.  A piece taken for *)
(* a length is any number.  Tokens arrive one at a time, in order, while   *)
(* the connection lives.                                                   *)
(*                                                                         *)
(* The Rust client has no timeout.  The Python client may have one, on     *)
(* every socket operation; the bytes it had received by then stay in       *)
(* _recvbuf, which is to say in the stream, but a length it has taken out  *)
(* is forgotten.  A caller that reuses its client makes further calls      *)
(* after one that failed; the others drop it.                              *)
(***************************************************************************)
EXTENDS Naturals, Sequences

CONSTANTS
  Callers,   \* [lang, timeout, reuse]
  MaxCalls,  \* bound: calls made on the connection
  MaxFrame,  \* MAX_FRAME, in pieces
  MaxPieces  \* bound: pieces of a message that is not oversized

ASSUME ClientAssumption ==
  MaxCalls \in Nat /\ MaxFrame \in Nat \ {0} /\ MaxPieces \in 1..MaxFrame

VARIABLES
  caller,    \* who is at the client's end
  cstate,    \* client: "idle", "writing", "header", "body", "closed"
  cneed,     \* pieces of the response body
  cout,      \* tokens of the request still to write
  c2s, s2c,  \* the two streams
  sstate,    \* server: "header", "body", "working", "writing", "gone"
  sneed,     \* pieces of the request body
  job,       \* the request being worked on; 0 if it could not be decoded
  sout,      \* tokens of the response still to write
  calls,     \* calls made
  runs,      \* call -> times its command was run
  returned,  \* call -> <<"none">>, <<"error">>, <<"answer", whose>>, <<"garbage">>
  broken     \* history: a call on this connection failed

client == <<cstate, cneed, cout, calls, returned, broken>>
server == <<sstate, sneed, job, sout, runs>>
vars == <<caller, client, server, c2s, s2c>>

-----------------------------------------------------------------------------
Sizes == 1..MaxPieces \cup {MaxFrame + 1}

Payload(m, size) == [i \in 1..size |-> [is |-> "piece", of |-> m, at |-> i, size |-> size]]

(* write_frame: neither side looks at MAX_FRAME here.                      *)
Frame(m, size) == <<[is |-> "length", n |-> size]>> \o Payload(m, size)

(* The lengths read_frame may find at the head of a stream.                *)
Lengths(stream) ==
  IF stream[1].is = "length" THEN {stream[1].n} ELSE 0..(MaxFrame + 1)

(* A body is a whole message, or nothing that can be decoded.              *)
Whole(body) ==
  /\ body # <<>> /\ body[1].is = "piece"
  /\ body = Payload(body[1].of, body[1].size)

Body(stream, n) == SubSeq(stream, 1, n)
Rest(stream, n) == SubSeq(stream, n + 1, Len(stream))

-----------------------------------------------------------------------------
(* The client.                                                             *)
Init ==
  /\ caller \in Callers
  /\ cstate = "idle" /\ cneed = 0 /\ cout = <<>>
  /\ c2s = <<>> /\ s2c = <<>>
  /\ sstate = "header" /\ sneed = 0 /\ job = 0 /\ sout = <<>>
  /\ calls = 0 /\ broken = FALSE
  /\ runs = [c \in 1..MaxCalls |-> 0]
  /\ returned = [c \in 1..MaxCalls |-> <<"none">>]

(* A method builds its request, of any size, and send_receive sends it.    *)
Call(size) ==
  /\ cstate = "idle" /\ calls < MaxCalls
  /\ calls' = calls + 1
  /\ cstate' = "writing" /\ cout' = Frame(calls', size)
  /\ UNCHANGED <<caller, cneed, returned, broken, server, c2s, s2c>>

Write ==
  /\ cstate = "writing"
  /\ c2s' = Append(c2s, cout[1]) /\ cout' = Tail(cout)
  /\ cstate' = IF cout' = <<>> THEN "header" ELSE "writing"
  /\ UNCHANGED <<caller, cneed, calls, returned, broken, server, s2c>>

(* The call ends with a result.                                            *)
Return(with) ==
  /\ returned' = [returned EXCEPT ![calls] = with]
  /\ cneed' = 0 /\ cout' = <<>>
  /\ UNCHANGED <<caller, calls, server, c2s>>

(* Fault: a failed call leaves the connection in use, whoever calls.       *)
FailKeepingOpen ==
  Return(<<"error">>) /\ broken' = TRUE /\ cstate' = "idle"

(* The call ends with an I/O or protocol error.                            *)
Fail ==
  /\ Return(<<"error">>) /\ broken' = TRUE
  /\ cstate' = IF caller.reuse THEN "idle" ELSE "closed"

(* Fault: a length is the length of the frame and its prefix.              *)
TakeShort(n) == cstate' = "body" /\ cneed' = n - 1

TakeLength(n) == cstate' = "body" /\ cneed' = n

ReadHeader ==
  /\ cstate = "header" /\ s2c # <<>>
  /\ s2c' = Tail(s2c)
  /\ \E n \in Lengths(s2c) :
       IF n > MaxFrame THEN Fail
       ELSE TakeLength(n) /\ UNCHANGED <<caller, cout, calls, returned, broken, server, c2s>>

(* The Rust client verifies the body and gives up on one that is none; the *)
(* Python client reads what it finds.  Neither asks whose answer it is.    *)
ReadBody ==
  /\ cstate = "body" /\ Len(s2c) >= cneed
  /\ s2c' = Rest(s2c, cneed)
  /\ LET body == Body(s2c, cneed)
     IN  IF Whole(body)
         THEN Return(<<"answer", body[1].of>>) /\ cstate' = "idle" /\ UNCHANGED broken
         ELSE IF caller.lang = "rust" THEN Fail
         ELSE Return(<<"garbage">>) /\ cstate' = "idle" /\ UNCHANGED broken

(* The server is gone: a read finds the end of the stream or a reset, and  *)
(* a write fails.                                                          *)
Disconnected ==
  /\ cstate \in {"writing", "header", "body"} /\ sstate = "gone"
  /\ Fail /\ UNCHANGED s2c

(* socket.timeout, in sendall or in recv.                                  *)
Timeout ==
  /\ cstate \in {"writing", "header", "body"} /\ caller.timeout
  /\ Fail /\ UNCHANGED s2c

Close ==
  /\ cstate = "idle" /\ cstate' = "closed"
  /\ UNCHANGED <<caller, cneed, cout, calls, returned, broken, server, c2s, s2c>>

-----------------------------------------------------------------------------
(* The server: handle_connection.                                          *)
Drop ==
  /\ sstate' = "gone" /\ sneed' = 0 /\ sout' = <<>> /\ job' = 0

(* InvalidData: handle_connection returns the error, the worker drops the  *)
(* stream.                                                                 *)
RefuseFrame == Drop

ServerReadHeader ==
  /\ sstate = "header" /\ c2s # <<>>
  /\ c2s' = Tail(c2s)
  /\ \E n \in Lengths(c2s) :
       IF n > MaxFrame THEN RefuseFrame
       ELSE sstate' = "body" /\ sneed' = n /\ UNCHANGED <<job, sout>>
  /\ UNCHANGED <<caller, client, s2c, runs>>

ServerReadBody ==
  /\ sstate = "body" /\ Len(c2s) >= sneed
  /\ c2s' = Rest(c2s, sneed)
  /\ sstate' = "working" /\ sneed' = 0
  /\ job' = LET body == Body(c2s, sneed) IN IF Whole(body) THEN body[1].of ELSE 0
  /\ UNCHANGED <<caller, client, s2c, runs, sout>>

(* process_request: the command runs, or the request was no request and is *)
(* answered MalformedRequest, under the identifier 0.                      *)
Process(size) ==
  /\ sstate = "working" /\ sstate' = "writing"
  /\ sout' = Frame(job, size)
  /\ runs' = IF job = 0 THEN runs ELSE [runs EXCEPT ![job] = @ + 1]
  /\ UNCHANGED <<caller, client, c2s, s2c, sneed, job>>

(* Fault: the panic is caught and the worker waits for the next request.   *)
PanicCaught ==
  /\ sstate = "working" /\ sstate' = "header" /\ job' = 0
  /\ UNCHANGED <<caller, client, c2s, s2c, sneed, sout, runs>>

(* The worker dies of a panic, before or during the command.               *)
Panic ==
  /\ sstate = "working" /\ Drop
  /\ runs' \in {runs, IF job = 0 THEN runs ELSE [runs EXCEPT ![job] = @ + 1]}
  /\ UNCHANGED <<caller, client, c2s, s2c>>

ServerWrite ==
  /\ sstate = "writing"
  /\ s2c' = Append(s2c, sout[1])
  /\ IF Len(sout) = 1 THEN sstate' = "header" /\ job' = 0 ELSE UNCHANGED <<sstate, job>>
  /\ sout' = Tail(sout)
  /\ UNCHANGED <<caller, client, c2s, runs, sneed>>

(* The client is gone: the end of the stream, or a failed write.           *)
ServerEnds ==
  /\ cstate = "closed"
  /\ \/ sstate = "header" /\ c2s = <<>>
     \/ sstate = "body" /\ Len(c2s) < sneed
     \/ sstate = "writing"
  /\ Drop
  /\ UNCHANGED <<caller, client, c2s, s2c, runs>>

-----------------------------------------------------------------------------
ClientStep == Write \/ ReadHeader \/ ReadBody \/ Disconnected

ServerStep ==
  \/ ServerReadHeader
  \/ ServerReadBody
  \/ \E size \in Sizes : Process(size)
  \/ ServerWrite
  \/ ServerEnds

Next ==
  \/ \E size \in Sizes : Call(size)
  \/ ClientStep
  \/ Timeout
  \/ Close
  \/ ServerStep
  \/ Panic

(* A call is a blocking loop of reads and writes in the caller's thread,   *)
(* and a connection a worker has taken is that worker's until it ends      *)
(* (module ServerPool): both keep stepping while they can.                 *)
Fairness == WF_vars(ClientStep) /\ WF_vars(ServerStep)

Spec == Init /\ [][Next]_vars /\ Fairness

-----------------------------------------------------------------------------
(* Between calls on a connection where none has failed, nothing is left in *)
(* either direction and the server waits for a frame: so the next length a *)
(* side reads is a length, and the next answer that of the next call.      *)
NoLeftovers ==
  (cstate = "idle" /\ ~broken /\ sstate # "gone") =>
    c2s = <<>> /\ s2c = <<>> /\ sstate = "header"

Phase == IF cstate \in {"idle", "closed"} THEN cstate ELSE "pending"

(* A client whose caller drops it after an error is a remote procedure     *)
(* call that runs at most once and gives each call its own answer.         *)
RC == INSTANCE RemoteCall WITH phase <- Phase

ImplementsRemoteCall == RC!Spec

(* Every call returns, with a timeout or without: the server answers, or   *)
(* ends the connection.                                                    *)
CallReturns ==
  \A c \in 1..MaxCalls :
    (calls >= c /\ returned[c] = <<"none">>) ~> (returned[c] # <<"none">>)

(* client.py: a Client "is strictly request/response (one in-flight        *)
(* request at a time)".  After a timeout the request is still in flight:   *)
(* the next call on the client is given the answer to the one before.      *)
OwnAnswer ==
  \A c \in 1..MaxCalls : returned[c][1] = "answer" => returned[c][2] \in {0, c}
=============================================================================
