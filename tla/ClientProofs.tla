---------------------------- MODULE ClientProofs -----------------------------
(***************************************************************************)
(* Proofs about module Client: a connection on which no call has failed    *)
(* stays in step, and a client whose caller drops it after an error is a   *)
(* remote procedure call.                                                  *)
(*                                                                         *)
(* Nothing either reader holds tells a length from a piece of payload, so  *)
(* what keeps them in step must be said of both streams at once: what has  *)
(* been written and not yet read, followed by what is still to write, is   *)
(* what is left of one frame, and the reader's state says which part.      *)
(* After a failure the client is silent, and the rest of its frame never   *)
(* comes; the server may still run the command, once.                      *)
(*                                                                         *)
(* A caller that goes on after an error is out of reach of the invariant,  *)
(* and of the properties: run StaleAnswer has the counterexample.          *)
(***************************************************************************)
EXTENDS Client, SequenceTheorems, TLAPS

Token ==
  {[is |-> "length", n |-> k] : k \in Nat} \cup
  {[is |-> "piece", of |-> m, at |-> i, size |-> k] : m \in Nat, i \in Nat, k \in Nat}

Waiting == {"writing", "header", "body"}

(* A failed call, and a caller who does not mind.                          *)
LostCause == broken /\ caller.reuse

-----------------------------------------------------------------------------
(* The parts of the inductive invariant.                                   *)
StreamsOK ==
  /\ cout \in Seq(Token) /\ sout \in Seq(Token)
  /\ c2s \in Seq(Token) /\ s2c \in Seq(Token)
  /\ cstate \in {"idle", "closed"} \cup Waiting
  /\ broken \in BOOLEAN
  /\ broken => cstate = "closed" /\ cout = <<>>
  /\ cstate = "writing" <=> cout # <<>>
  /\ sstate = "writing" <=> sout # <<>>

(* The calls before the last have run once and returned their answers, and *)
(* nothing is known of those to come.                                      *)
LedgerOK ==
  /\ calls \in 0..MaxCalls
  /\ runs \in [1..MaxCalls -> {0, 1}]
  /\ DOMAIN returned = 1..MaxCalls
  /\ \A c \in 1..MaxCalls :
       /\ c < calls => runs[c] = 1 /\ returned[c] = <<"answer", c>>
       /\ c > calls => runs[c] = 0 /\ returned[c] = <<"none">>
       /\ c = calls => returned[c] = IF broken THEN <<"error">>
                                     ELSE IF cstate \in Waiting THEN <<"none">>
                                     ELSE <<"answer", c>>
  /\ cstate \in Waiting \/ broken => calls > 0

(* The request of the last call is on its way, all but what was lost with  *)
(* the client.                                                             *)
Requesting ==
  \E size \in Sizes, lost \in Seq(Token) :
    /\ calls > 0 /\ runs[calls] = 0
    /\ broken \/ (lost = cout /\ cstate \in {"writing", "header"} /\ s2c = <<>>)
    /\ \/ sstate = "header" /\ c2s \o lost = Frame(calls, size)
       \/ sstate = "body" /\ sneed = size /\ c2s \o lost = Payload(calls, size)

Working ==
  /\ sstate = "working" /\ job = calls
  /\ calls > 0 /\ runs[calls] = 0
  /\ broken \/ (cstate = "header" /\ s2c = <<>>)
  /\ c2s = <<>> /\ cout = <<>>

(* The answer to the last call is on its way, or was read.                 *)
Answering ==
  /\ sstate \in {"writing", "header"}
  /\ calls > 0 => runs[calls] = 1
  /\ c2s = <<>> /\ cout = <<>>
  /\ \/ broken
     \/ cstate \in {"idle", "closed"} /\ s2c = <<>> /\ sout = <<>>
     \/ \E size \in Sizes :
          \/ cstate = "header" /\ s2c \o sout = Frame(calls, size)
          \/ cstate = "body" /\ cneed = size /\ s2c \o sout = Payload(calls, size)

(* The server is gone before it wrote anything, or after the client is.    *)
Gone ==
  /\ sstate = "gone"
  /\ \/ cstate = "closed"
     \/ cstate \in {"writing", "header"} /\ s2c = <<>>

InStep == StreamsOK /\ LedgerOK /\ (Requesting \/ Working \/ Answering \/ Gone)

ConnInv == LostCause \/ InStep
-----------------------------------------------------------------------------
(* Streams.                                                                *)

(* A payload is pieces, at least one, and can be told to be a whole        *)
(* message of its call.                                                    *)
LEMMA PayloadFacts ==
  ASSUME NEW m \in Nat, NEW size \in Sizes
  PROVE  /\ Payload(m, size) \in Seq(Token)
         /\ Len(Payload(m, size)) = size /\ size \in Nat \ {0}
         /\ Whole(Payload(m, size)) /\ Payload(m, size)[1].of = m
<1>1. size \in Nat \ {0}
  BY ClientAssumption DEF Sizes
<1>2. /\ Payload(m, size) \in Seq(Token)
      /\ Len(Payload(m, size)) = size
  <2>1. \A i \in 1..size : [is |-> "piece", of |-> m, at |-> i, size |-> size] \in Token
    BY <1>1 DEF Token
  <2> QED
    BY <1>1, <2>1 DEF Payload
<1>3. Payload(m, size)[1] = [is |-> "piece", of |-> m, at |-> 1, size |-> size]
  BY <1>1 DEF Payload
<1> QED
  BY <1>1, <1>2, <1>3 DEF Whole

(* A frame is the length of its payload, and the payload.                  *)
LEMMA FrameFacts ==
  ASSUME NEW m \in Nat, NEW size \in Sizes
  PROVE  /\ Frame(m, size) \in Seq(Token) /\ Frame(m, size) # <<>>
         /\ Frame(m, size)[1] = [is |-> "length", n |-> size]
         /\ Tail(Frame(m, size)) = Payload(m, size)
<1> DEFINE head == [is |-> "length", n |-> size]
<1>1. /\ Payload(m, size) \in Seq(Token)
      /\ size \in Nat
  BY PayloadFacts
<1>2. head \in Token
  BY <1>1 DEF Token
<1> HIDE DEF head
<1>3. /\ <<head>> \o Payload(m, size) \in Seq(Token)
      /\ <<head>> \o Payload(m, size) # <<>>
      /\ (<<head>> \o Payload(m, size))[1] = head
  BY <1>1, <1>2
<1>4. Tail(<<head>> \o Payload(m, size)) = Payload(m, size)
  BY <1>1, <1>2
<1> QED
  BY <1>3, <1>4 DEF Frame, head

(* Taking the head of what has arrived takes the head of the whole.        *)
LEMMA TakeHead ==
  ASSUME NEW S, NEW s \in Seq(S), NEW t \in Seq(S), s # <<>>
  PROVE  /\ s[1] = (s \o t)[1]
         /\ Tail(s) \o t = Tail(s \o t)
         /\ Tail(s) \in Seq(S)
<1>1. /\ s[1] = (s \o t)[1]
      /\ Tail(s) \in Seq(S) /\ Tail(s \o t) \in Seq(S)
      /\ Len(Tail(s) \o t) = Len(Tail(s \o t))
  OBVIOUS
<1>2. \A i \in 1..Len(Tail(s) \o t) : (Tail(s) \o t)[i] = Tail(s \o t)[i]
  OBVIOUS
<1>3. Tail(s) \o t \in Seq(S)
  BY <1>1
<1> QED
  BY <1>1, <1>2, <1>3, SeqEqual

(* Passing one token on from the sender leaves the whole as it was.        *)
LEMMA PassOn ==
  ASSUME NEW S, NEW s \in Seq(S), NEW t \in Seq(S), t # <<>>
  PROVE  /\ Append(s, t[1]) \o Tail(t) = s \o t
         /\ Append(s, t[1]) \in Seq(S) /\ Tail(t) \in Seq(S)
         /\ Append(s, t[1]) # <<>>
         /\ Tail(t) = <<>> <=> Len(t) = 1
<1>1. t[1] \in S
  OBVIOUS
<1>2. /\ Append(s, t[1]) \in Seq(S) /\ Tail(t) \in Seq(S)
      /\ Append(s, t[1]) # <<>>
      /\ Tail(t) = <<>> <=> Len(t) = 1
  <2>1. Len(Tail(t)) = Len(t) - 1 /\ Tail(t) \in Seq(S)
    OBVIOUS
  <2>2. Tail(t) = <<>> <=> Len(Tail(t)) = 0
    BY <2>1, EmptySeq
  <2>3. Append(s, t[1]) \in Seq(S) /\ Len(Append(s, t[1])) = Len(s) + 1
    BY <1>1
  <2>4. Append(s, t[1]) # <<>>
    BY <2>3
  <2> QED
    BY <2>1, <2>2, <2>3, <2>4
<1>3. /\ Append(s, t[1]) \o Tail(t) \in Seq(S) /\ s \o t \in Seq(S)
      /\ Len(Append(s, t[1]) \o Tail(t)) = Len(s \o t)
  BY <1>1, <1>2
<1>4. \A i \in 1..Len(s \o t) : (Append(s, t[1]) \o Tail(t))[i] = (s \o t)[i]
  BY <1>1, <1>2
<1> QED
  BY <1>2, <1>3, <1>4, SeqEqual

(* When as much has arrived as the whole is long, all of it has, and a     *)
(* reader of that much leaves nothing.                                     *)
LEMMA AllArrived ==
  ASSUME NEW S, NEW s \in Seq(S), NEW t \in Seq(S), NEW n \in Nat,
         Len(s \o t) = n, Len(s) >= n
  PROVE  /\ t = <<>> /\ s \o t = s
         /\ Body(s, n) = s /\ Rest(s, n) = <<>>
<1>1. Len(t) = 0 /\ Len(s) = n
  OBVIOUS
<1>2. t = <<>>
  BY <1>1
<1>3. s \o t = s
  BY <1>2
<1>4. SubSeq(s, 1, n) = s
  BY <1>1
<1>5. SubSeq(s, n + 1, Len(s)) = <<>>
  BY <1>1
<1> QED
  BY <1>2, <1>3, <1>4, <1>5 DEF Body, Rest

-----------------------------------------------------------------------------
(* The client's steps.                                                     *)

(* A call starts on an idle connection, which is empty in both directions. *)
LEMMA CallInStep ==
  ASSUME InStep, NEW size \in Sizes, Call(size)
  PROVE  InStep'
<1> USE DEF InStep, Call, server, Waiting
<1>1. /\ ~broken /\ calls \in Nat /\ calls' \in Nat \ {0} /\ calls' \in 1..MaxCalls /\ calls' = calls + 1
      /\ s2c = <<>> /\ c2s = <<>> /\ sout = <<>> /\ sstate = "header"
      /\ calls > 0 => runs[calls] = 1
  BY ClientAssumption DEF StreamsOK, LedgerOK, Requesting, Working, Answering, Gone
<1>2. cout' \in Seq(Token) /\ cout' # <<>> /\ cout' = Frame(calls', size)
  <2>1. \A m \in Nat : Frame(m, size) \in Seq(Token) /\ Frame(m, size) # <<>>
    BY FrameFacts
  <2> QED
    BY <1>1, <2>1
<1>3. StreamsOK'
  <2>1. /\ cstate' = "writing" /\ broken' = broken /\ sstate' = sstate
        /\ sout' = sout /\ c2s' = c2s /\ s2c' = s2c
    OBVIOUS
  <2>2. <<>> \in Seq(Token)
    BY EmptySeq
  <2>3. sout' = <<>> /\ sstate' # "writing"
    BY <1>1, <2>1
  <2>4. c2s' \in Seq(Token) /\ s2c' \in Seq(Token) /\ sout' \in Seq(Token)
    BY <1>1, <2>1, <2>2
  <2> QED
    BY <1>1, <1>2, <2>1, <2>3, <2>4 DEF StreamsOK
<1>4. LedgerOK'
  <2>1. /\ cstate' = "writing" /\ broken' = broken /\ runs' = runs /\ returned' = returned
        /\ cstate = "idle"
    OBVIOUS
  <2>2. \A c \in 1..MaxCalls : c < calls \/ c = calls \/ c = calls' \/ c > calls'
    BY <1>1, ClientAssumption
  <2>3. \A c \in 1..MaxCalls :
          /\ c <= calls => runs[c] = 1 /\ returned[c] = <<"answer", c>>
          /\ c > calls => runs[c] = 0 /\ returned[c] = <<"none">>
    BY <1>1, <2>1, <2>2 DEF LedgerOK
  <2> QED
    BY <1>1, <2>1, <2>3 DEF LedgerOK
<1>5. c2s' \o cout' = Frame(calls', size)
  BY <1>1, <1>2
<1>6. runs'[calls'] = 0
  BY <1>1 DEF LedgerOK
<1>7. Requesting'
  BY <1>1, <1>2, <1>5, <1>6 DEF Requesting
<1> QED
  BY <1>3, <1>4, <1>7

(* A piece of the request is written: it is the server's to read now.      *)
LEMMA WriteInStep ==
  ASSUME InStep, Write
  PROVE  InStep'
<1> USE DEF InStep, Write, server, Waiting
<1>1. /\ ~broken /\ cout # <<>> /\ calls > 0
      /\ cout \in Seq(Token) /\ c2s \in Seq(Token)
  BY DEF StreamsOK, LedgerOK
<1>2. /\ c2s' \o cout' = c2s \o cout
      /\ c2s' \in Seq(Token) /\ cout' \in Seq(Token)
  BY <1>1, PassOn
<1>3. StreamsOK'
  BY <1>1, <1>2 DEF StreamsOK
<1>4. LedgerOK'
  BY <1>1 DEF LedgerOK
<1>5. CASE Requesting
  <2>1. PICK size \in Sizes :
          /\ calls > 0 /\ runs[calls] = 0
          /\ s2c = <<>>
          /\ \/ sstate = "header" /\ c2s \o cout = Frame(calls, size)
             \/ sstate = "body" /\ sneed = size /\ c2s \o cout = Payload(calls, size)
    BY <1>1, <1>5 DEF Requesting
  <2>2. Requesting'
    BY <1>2, <2>1 DEF Requesting
  <2> QED
    BY <1>3, <1>4, <2>2
<1>6. CASE Gone
  BY <1>3, <1>4, <1>6 DEF Gone
<1>7. ~Working /\ ~Answering
  BY <1>1 DEF Working, Answering
<1> QED
  BY <1>5, <1>6, <1>7

(* A call fails, and the caller drops the client.  What the server has of  *)
(* the request is all it will get.                                         *)
LEMMA FailInStep ==
  ASSUME InStep, Fail, cstate \in Waiting, s2c' \in Seq(Token)
  PROVE  ConnInv'
<1> USE DEF InStep, Fail, Return, server, Waiting
<1>1. CASE caller.reuse
  BY <1>1 DEF ConnInv, LostCause
<1>2. CASE ~caller.reuse
  <2>1. cstate' = "closed" /\ broken' /\ ~broken /\ calls > 0
    BY <1>2 DEF StreamsOK, LedgerOK
  <2>2. StreamsOK'
    BY <2>1 DEF StreamsOK
  <2>3. LedgerOK'
    BY <2>1 DEF LedgerOK
  <2>6. /\ cout' = <<>> /\ calls' = calls /\ c2s' = c2s
        /\ sstate' = sstate /\ sneed' = sneed /\ job' = job /\ runs' = runs
    OBVIOUS
  <2>4. Requesting => Requesting'
    BY <2>1, <2>6 DEF Requesting
  <2>5. (Working => Working') /\ (Answering => Answering') /\ (Gone => Gone')
    BY <2>1, <2>6 DEF Working, Answering, Gone
  <2> QED
    BY <2>2, <2>3, <2>4, <2>5 DEF ConnInv
<1> QED
  BY <1>1, <1>2

(* The head of an answer is a length, and the rest of it the piece that    *)
(* length speaks of; or the answer is refused as oversized.                *)
LEMMA ReadHeaderInStep ==
  ASSUME InStep, ReadHeader
  PROVE  ConnInv'
<1> USE DEF InStep, server, Waiting
<1>1. /\ cstate = "header" /\ s2c # <<>> /\ s2c' = Tail(s2c) /\ ~broken
      /\ s2c \in Seq(Token) /\ sout \in Seq(Token) /\ calls \in Nat
  BY ClientAssumption DEF ReadHeader, StreamsOK, LedgerOK
<1>2. Answering /\ ~Requesting /\ ~Working /\ ~Gone
  BY <1>1 DEF Requesting, Working, Gone
<1>3. PICK size \in Sizes : s2c \o sout = Frame(calls, size)
  BY <1>1, <1>2 DEF Answering
<1>4. /\ s2c[1] = [is |-> "length", n |-> size]
      /\ s2c' \o sout = Payload(calls, size) /\ s2c' \in Seq(Token)
  <2>1. /\ s2c[1] = (s2c \o sout)[1]
        /\ Tail(s2c) \o sout = Tail(s2c \o sout)
        /\ Tail(s2c) \in Seq(Token)
    BY <1>1, TakeHead
  <2>2. /\ Frame(calls, size)[1] = [is |-> "length", n |-> size]
        /\ Tail(Frame(calls, size)) = Payload(calls, size)
    BY <1>1, FrameFacts
  <2> QED
    BY <1>1, <1>3, <2>1, <2>2
<1>5. Lengths(s2c) = {size}
  BY <1>4 DEF Lengths
<1>6. CASE Fail
  BY <1>1, <1>4, <1>6, FailInStep
<1>7. CASE TakeLength(size) /\ UNCHANGED <<caller, cout, calls, returned, broken, server, c2s>>
  <2>1. /\ cstate' = "body" /\ cneed' = size /\ broken' = broken /\ calls' = calls
        /\ cout' = cout /\ c2s' = c2s /\ returned' = returned
        /\ sstate' = sstate /\ sout' = sout /\ runs' = runs
    BY <1>7 DEF TakeLength
  <2>2. StreamsOK'
    BY <1>1, <1>4, <2>1 DEF StreamsOK
  <2>3. LedgerOK'
    BY <1>1, <2>1 DEF LedgerOK
  <2>4. Answering'
    BY <1>1, <1>2, <1>4, <2>1 DEF Answering
  <2> QED
    BY <2>2, <2>3, <2>4 DEF ConnInv
<1> QED
  BY <1>5, <1>6, <1>7 DEF ReadHeader

(* The body that is read is the whole answer to this very call, and leaves *)
(* nothing behind it.                                                      *)
LEMMA ReadBodyReturnsAnswer ==
  ASSUME InStep, ReadBody
  PROVE  /\ Return(<<"answer", calls>>) /\ cstate' = "idle" /\ broken' = broken
         /\ ~broken /\ calls \in 1..MaxCalls /\ runs[calls] = 1 /\ Answering
         /\ s2c' = <<>> /\ sout = <<>>
<1> USE DEF InStep, Waiting
<1>1. /\ cstate = "body" /\ Len(s2c) >= cneed /\ s2c' = Rest(s2c, cneed) /\ ~broken
      /\ s2c \in Seq(Token) /\ sout \in Seq(Token) /\ calls \in 1..MaxCalls /\ calls \in Nat
  BY ClientAssumption DEF ReadBody, StreamsOK, LedgerOK
<1>2. Answering
  BY <1>1 DEF Requesting, Working, Gone
<1>3. PICK size \in Sizes : cneed = size /\ s2c \o sout = Payload(calls, size)
  BY <1>1, <1>2 DEF Answering
<1>4. /\ Len(s2c \o sout) = cneed /\ cneed \in Nat
      /\ Whole(s2c \o sout) /\ (s2c \o sout)[1].of = calls
  BY <1>1, <1>3, PayloadFacts
<1>5. /\ sout = <<>> /\ s2c \o sout = s2c
      /\ Body(s2c, cneed) = s2c /\ Rest(s2c, cneed) = <<>>
  BY <1>1, <1>4, AllArrived
<1>6. Whole(Body(s2c, cneed)) /\ Body(s2c, cneed)[1].of = calls
  BY <1>4, <1>5
<1>7. Return(<<"answer", calls>>) /\ cstate' = "idle" /\ broken' = broken
  BY <1>6 DEF ReadBody
<1>8. runs[calls] = 1
  BY <1>1, <1>2 DEF Answering
<1> QED
  BY <1>1, <1>2, <1>5, <1>7, <1>8

(* So the connection is idle again, and empty.                             *)
LEMMA ReadBodyInStep ==
  ASSUME InStep, ReadBody
  PROVE  InStep'
<1> USE DEF InStep, Waiting
<1>1. /\ Return(<<"answer", calls>>) /\ cstate' = "idle" /\ broken' = broken
      /\ ~broken /\ calls \in 1..MaxCalls /\ runs[calls] = 1 /\ Answering
      /\ s2c' = <<>> /\ sout = <<>>
  BY ReadBodyReturnsAnswer
<1>2. /\ cout' = <<>> /\ calls' = calls /\ c2s' = c2s
      /\ sstate' = sstate /\ sout' = sout /\ runs' = runs
      /\ returned' = [returned EXCEPT ![calls] = <<"answer", calls>>]
  BY <1>1 DEF Return, server
<1>3. StreamsOK'
  BY <1>1, <1>2 DEF StreamsOK
<1>4. LedgerOK'
  BY <1>1, <1>2, ClientAssumption DEF LedgerOK
<1>5. Answering'
  BY <1>1, <1>2 DEF Answering
<1> QED
  BY <1>3, <1>4, <1>5

(* The caller closes an idle client.                                       *)
LEMMA CloseInStep ==
  ASSUME InStep, Close
  PROVE  InStep'
<1> USE DEF InStep, Close, server, Waiting
<1>1. /\ cstate = "idle" /\ cstate' = "closed"
      /\ broken' = broken /\ cout' = cout /\ c2s' = c2s /\ s2c' = s2c
      /\ sstate' = sstate /\ sout' = sout /\ calls' = calls /\ runs' = runs
      /\ returned' = returned /\ ~broken /\ calls \in Nat
  BY ClientAssumption DEF StreamsOK, LedgerOK
<1>2. StreamsOK'
  BY <1>1 DEF StreamsOK
<1>3. LedgerOK'
  BY <1>1 DEF LedgerOK
<1>4. Answering /\ ~Requesting /\ ~Working /\ ~Gone
  BY <1>1 DEF Requesting, Working, Gone
<1>5. Answering'
  BY <1>1, <1>4 DEF Answering
<1> QED
  BY <1>2, <1>3, <1>5

-----------------------------------------------------------------------------
(* The server's steps, which leave the client and its record alone.        *)

(* What a step of the server that runs nothing keeps.                      *)
LEMMA ServerLedger ==
  ASSUME LedgerOK, UNCHANGED client, runs' = runs
  PROVE  LedgerOK'
BY DEF LedgerOK, client

(* The server takes a length for a length: the request follows, or it is   *)
(* refused as oversized and the connection ends.                           *)
LEMMA ServerReadHeaderInStep ==
  ASSUME InStep, ServerReadHeader
  PROVE  InStep'
<1> USE DEF InStep, client
<1>1. /\ sstate = "header" /\ c2s # <<>> /\ c2s' = Tail(c2s) /\ runs' = runs /\ s2c' = s2c
      /\ c2s \in Seq(Token) /\ calls \in Nat /\ UNCHANGED client
      /\ sout = <<>>
  BY ClientAssumption DEF ServerReadHeader, StreamsOK, LedgerOK
<1>2. Requesting
  BY <1>1 DEF Working, Answering, Gone
<1>3. PICK size \in Sizes, lost \in Seq(Token) :
        /\ calls > 0 /\ runs[calls] = 0
        /\ broken \/ (lost = cout /\ cstate \in {"writing", "header"} /\ s2c = <<>>)
        /\ c2s \o lost = Frame(calls, size)
  BY <1>1, <1>2 DEF Requesting
<1>4. /\ c2s[1] = [is |-> "length", n |-> size]
      /\ c2s' \o lost = Payload(calls, size) /\ c2s' \in Seq(Token)
  <2>1. /\ c2s[1] = (c2s \o lost)[1]
        /\ Tail(c2s) \o lost = Tail(c2s \o lost)
        /\ Tail(c2s) \in Seq(Token)
    BY <1>1, TakeHead
  <2>2. /\ Frame(calls, size)[1] = [is |-> "length", n |-> size]
        /\ Tail(Frame(calls, size)) = Payload(calls, size)
    BY <1>1, FrameFacts
  <2> QED
    BY <1>1, <1>3, <2>1, <2>2
<1>5. Lengths(c2s) = {size}
  BY <1>4 DEF Lengths
<1>6. LedgerOK'
  BY <1>1, ServerLedger
<1>7. CASE RefuseFrame
  <2>1. StreamsOK'
    BY <1>1, <1>4, <1>7, EmptySeq DEF StreamsOK, RefuseFrame, Drop
  <2>2. Gone'
    BY <1>1, <1>3, <1>7 DEF StreamsOK, Gone, RefuseFrame, Drop
  <2> QED
    BY <1>6, <2>1, <2>2
<1>8. CASE sstate' = "body" /\ sneed' = size /\ UNCHANGED <<job, sout>>
  <2>1. StreamsOK'
    BY <1>1, <1>4, <1>8 DEF StreamsOK
  <2>2. Requesting'
    BY <1>1, <1>3, <1>4, <1>8 DEF Requesting
  <2> QED
    BY <1>6, <2>1, <2>2
<1> QED
  BY <1>5, <1>7, <1>8 DEF ServerReadHeader

(* The body it reads is the whole request of the last call, and the last   *)
(* of what the client sent.                                                *)
LEMMA ServerReadBodyInStep ==
  ASSUME InStep, ServerReadBody
  PROVE  InStep'
<1> USE DEF InStep, client
<1>1. /\ sstate = "body" /\ Len(c2s) >= sneed /\ c2s' = Rest(c2s, sneed)
      /\ sstate' = "working" /\ runs' = runs /\ s2c' = s2c /\ sout' = sout
      /\ c2s \in Seq(Token) /\ calls \in Nat /\ UNCHANGED client /\ sout = <<>>
  BY ClientAssumption DEF ServerReadBody, StreamsOK, LedgerOK
<1>2. Requesting
  BY <1>1 DEF Working, Answering, Gone
<1>3. PICK size \in Sizes, lost \in Seq(Token) :
        /\ calls > 0 /\ runs[calls] = 0
        /\ broken \/ (lost = cout /\ cstate \in {"writing", "header"} /\ s2c = <<>>)
        /\ sneed = size /\ c2s \o lost = Payload(calls, size)
  BY <1>1, <1>2 DEF Requesting
<1>4. /\ Len(c2s \o lost) = sneed /\ sneed \in Nat
      /\ Whole(c2s \o lost) /\ (c2s \o lost)[1].of = calls
  <2>1. /\ Len(Payload(calls, size)) = size /\ size \in Nat
        /\ Whole(Payload(calls, size)) /\ Payload(calls, size)[1].of = calls
    BY <1>1, PayloadFacts
  <2> QED
    BY <1>3, <2>1
<1>5. /\ lost = <<>> /\ c2s \o lost = c2s
      /\ Body(c2s, sneed) = c2s /\ Rest(c2s, sneed) = <<>>
  BY <1>1, <1>4, AllArrived
<1>6. job' = calls /\ c2s' = <<>>
  BY <1>1, <1>4, <1>5 DEF ServerReadBody
<1>7. cout = <<>> /\ (broken \/ (cstate = "header" /\ s2c = <<>>))
  BY <1>3, <1>5 DEF StreamsOK
<1>8. LedgerOK'
  BY <1>1, ServerLedger
<1>9. StreamsOK'
  BY <1>1, <1>6, EmptySeq DEF StreamsOK
<1>10. Working'
  BY <1>1, <1>3, <1>6, <1>7 DEF Working
<1> QED
  BY <1>8, <1>9, <1>10

(* The command runs: it had not, and its answer is that of the last call.  *)
LEMMA ProcessInStep ==
  ASSUME InStep, NEW size \in Sizes, Process(size)
  PROVE  /\ InStep'
         /\ Working /\ calls \in 1..MaxCalls
         /\ runs' = [runs EXCEPT ![calls] = 1]
<1> USE DEF InStep, client
<1>1. /\ sstate = "working" /\ sstate' = "writing" /\ sout' = Frame(job, size)
      /\ UNCHANGED client /\ c2s' = c2s /\ s2c' = s2c
  BY DEF Process
<1>2. Working
  BY <1>1 DEF Requesting, Answering, Gone
<1>3. job = calls /\ calls \in 1..MaxCalls /\ calls \in Nat /\ runs[calls] = 0
  BY <1>2, ClientAssumption DEF LedgerOK, Working
<1>4. runs' = [runs EXCEPT ![calls] = 1]
  BY <1>3 DEF Process, LedgerOK
<1>5. LedgerOK'
  BY <1>1, <1>3, <1>4 DEF LedgerOK
<1>6. Frame(calls, size) \in Seq(Token) /\ Frame(calls, size) # <<>>
  BY <1>3, FrameFacts
<1>7. StreamsOK'
  BY <1>1, <1>3, <1>6 DEF StreamsOK
<1>8. <<>> \o sout' = Frame(calls, size)
  BY <1>1, <1>3, <1>6
<1>9. runs'[calls'] = 1
  BY <1>1, <1>3, <1>4 DEF LedgerOK
<1>10. Answering'
  BY <1>1, <1>2, <1>8, <1>9 DEF Answering, Working
<1> QED
  BY <1>2, <1>3, <1>4, <1>5, <1>7, <1>10

(* The worker dies of the command, which it had started or not.            *)
LEMMA PanicInStep ==
  ASSUME InStep, Panic
  PROVE  /\ InStep'
         /\ runs' = runs
            \/ (Working /\ calls \in 1..MaxCalls /\ runs' = [runs EXCEPT ![calls] = 1])
<1> USE DEF InStep, client
<1>1. /\ sstate = "working" /\ sstate' = "gone" /\ sout' = <<>>
      /\ UNCHANGED client /\ c2s' = c2s /\ s2c' = s2c
  BY DEF Panic, Drop
<1>2. Working
  BY <1>1 DEF Requesting, Answering, Gone
<1>3. job = calls /\ calls \in 1..MaxCalls /\ runs[calls] = 0
  BY <1>2, ClientAssumption DEF LedgerOK, Working
<1>4. runs' = runs \/ runs' = [runs EXCEPT ![calls] = 1]
  BY <1>3, ClientAssumption DEF Panic, LedgerOK
<1>5. LedgerOK'
  <2>1. CASE runs' = runs
    BY <1>1, <2>1, ServerLedger
  <2>2. CASE runs' = [runs EXCEPT ![calls] = 1]
    BY <1>1, <1>3, <2>2 DEF LedgerOK
  <2> QED
    BY <1>4, <2>1, <2>2
<1>6. StreamsOK'
  BY <1>1, EmptySeq DEF StreamsOK
<1>7. Gone'
  BY <1>1, <1>2 DEF Gone, Working, StreamsOK
<1> QED
  BY <1>2, <1>3, <1>4, <1>5, <1>6, <1>7

(* A token of the answer moves into the stream.                            *)
LEMMA ServerWriteInStep ==
  ASSUME InStep, ServerWrite
  PROVE  InStep'
<1> USE DEF InStep, client
<1>1. /\ sstate = "writing" /\ s2c' = Append(s2c, sout[1]) /\ sout' = Tail(sout)
      /\ c2s' = c2s /\ runs' = runs /\ UNCHANGED client
      /\ sout \in Seq(Token) /\ s2c \in Seq(Token) /\ sout # <<>>
  BY DEF ServerWrite, StreamsOK
<1>2. /\ s2c' \o sout' = s2c \o sout
      /\ s2c' \in Seq(Token) /\ sout' \in Seq(Token)
      /\ sout' = <<>> <=> Len(sout) = 1
  BY <1>1, PassOn
<1>3. sstate' = IF sout' = <<>> THEN "header" ELSE "writing"
  BY <1>1, <1>2 DEF ServerWrite
<1>4. Answering
  BY <1>1 DEF Requesting, Working, Gone
<1>5. LedgerOK'
  BY <1>1, ServerLedger
<1>6. StreamsOK'
  BY <1>1, <1>2, <1>3 DEF StreamsOK
<1>7. Answering'
  BY <1>1, <1>2, <1>3, <1>4 DEF Answering
<1> QED
  BY <1>5, <1>6, <1>7

(* The server finds the client gone.                                       *)
LEMMA ServerEndsInStep ==
  ASSUME InStep, ServerEnds
  PROVE  InStep'
<1> USE DEF InStep, client
<1>1. /\ cstate = "closed" /\ sstate' = "gone" /\ sout' = <<>>
      /\ UNCHANGED client /\ c2s' = c2s /\ s2c' = s2c /\ runs' = runs
  BY DEF ServerEnds, Drop
<1>2. LedgerOK'
  BY <1>1, ServerLedger
<1>3. StreamsOK'
  BY <1>1, EmptySeq DEF StreamsOK
<1>4. Gone'
  BY <1>1 DEF Gone
<1> QED
  BY <1>2, <1>3, <1>4

-----------------------------------------------------------------------------
(* The invariant.                                                          *)

(* A new connection is in step.                                            *)
LEMMA InitInStep == Init => InStep
<1> SUFFICES ASSUME Init PROVE InStep
  OBVIOUS
<1> USE DEF Init
<1>1. StreamsOK
  BY EmptySeq DEF StreamsOK
<1>2. LedgerOK
  BY ClientAssumption DEF LedgerOK, Waiting
<1>3. Answering
  BY DEF Answering
<1> QED
  BY <1>1, <1>2, <1>3 DEF InStep

(* The caller is who it was, and a failure is not forgotten.               *)
LEMMA CallerStays ==
  ASSUME [Next]_vars
  PROVE  caller' = caller /\ (broken => broken')
<1> USE DEF vars, client, server
<1>1. CASE \E size \in Sizes : Call(size)
  BY <1>1 DEF Call
<1>2. CASE Write \/ Disconnected \/ Timeout \/ Close
  BY <1>2 DEF Write, Disconnected, Timeout, Close, Fail, Return
<1>3. CASE ReadHeader
  BY <1>3 DEF ReadHeader, Fail, Return
<1>4. CASE ReadBody
  BY <1>4 DEF ReadBody, Fail, Return
<1>5. CASE ServerStep \/ Panic
  BY <1>5 DEF ServerStep, ServerReadHeader, ServerReadBody, Process, ServerWrite, ServerEnds, Panic
<1>6. CASE UNCHANGED vars
  BY <1>6
<1> QED
  BY <1>1, <1>2, <1>3, <1>4, <1>5, <1>6 DEF Next, ClientStep

(* Every step keeps it so, until a call fails a caller who goes on.        *)
LEMMA StepKeepsConn ==
  ASSUME ConnInv, [Next]_vars
  PROVE  ConnInv'
<1>1. CASE LostCause
  <2>1. caller' = caller /\ broken'
    BY <1>1, CallerStays DEF LostCause
  <2> QED
    BY <1>1, <2>1 DEF ConnInv, LostCause
<1>2. CASE InStep
  <2>1. CASE \E size \in Sizes : Call(size)
    BY <1>2, <2>1, CallInStep DEF ConnInv
  <2>2. CASE Write \/ ReadBody \/ Close
    BY <1>2, <2>2, WriteInStep, ReadBodyInStep, CloseInStep DEF ConnInv
  <2>3. CASE ReadHeader
    BY <1>2, <2>3, ReadHeaderInStep
  <2>4. CASE Disconnected \/ Timeout
    <3>1. Fail /\ cstate \in Waiting /\ s2c' \in Seq(Token)
      BY <1>2, <2>4 DEF Disconnected, Timeout, Waiting, InStep, StreamsOK
    <3> QED
      BY <1>2, <3>1, FailInStep
  <2>5. CASE ServerStep
    BY <1>2, <2>5, ServerReadHeaderInStep, ServerReadBodyInStep, ProcessInStep,
       ServerWriteInStep, ServerEndsInStep DEF ConnInv, ServerStep
  <2>6. CASE Panic
    BY <1>2, <2>6, PanicInStep DEF ConnInv
  <2>7. CASE UNCHANGED vars
    <3> USE <2>7 DEF vars, client, server
    <3>1. StreamsOK'
      BY <1>2 DEF InStep, StreamsOK
    <3>2. LedgerOK'
      BY <1>2 DEF InStep, LedgerOK
    <3>3. (Requesting => Requesting') /\ (Working => Working')
      BY DEF Requesting, Working
    <3>4. (Answering => Answering') /\ (Gone => Gone')
      BY DEF Answering, Gone
    <3> QED
      BY <1>2, <3>1, <3>2, <3>3, <3>4 DEF ConnInv, InStep
  <2> QED
    BY <2>1, <2>2, <2>3, <2>4, <2>5, <2>6, <2>7 DEF Next, ClientStep
<1> QED
  BY <1>1, <1>2 DEF ConnInv

(* The invariant of the connection.                                        *)
LEMMA ConnInvariant == Spec => []ConnInv
<1>1. Init => ConnInv
  BY InitInStep DEF ConnInv
<1>2. ConnInv /\ [Next]_vars => ConnInv'
  BY StepKeepsConn
<1> QED
  BY <1>1, <1>2, PTL DEF Spec

(* Between calls, on a connection where none has failed, nothing is left   *)
(* in either direction: the next length that is read is a length, whoever  *)
(* the caller is, whatever the sizes and however tokens arrive             *)
(* (read_frame and write_frame on both sides).                             *)
THEOREM NothingLeftOver == Spec => []NoLeftovers
<1>1. ConnInv => NoLeftovers
  BY DEF ConnInv, LostCause, InStep, NoLeftovers, Requesting, Working, Answering, Gone,
         StreamsOK, Waiting
<1> QED
  BY <1>1, ConnInvariant, PTL

(* A client dropped after an error never returns the answer to another     *)
(* call: what a caller who goes on after a timeout can see (run            *)
(* StaleAnswer) is out of reach of one who does not.                       *)
THEOREM AnswersAreOwn ==
  ASSUME \A c \in Callers : ~c.reuse
  PROVE  Spec => []OwnAnswer
<1>1. Init => caller \in Callers
  BY DEF Init
<1>2. caller \in Callers /\ ConnInv /\ [Next]_vars => (caller \in Callers)'
  BY CallerStays
<1>3. caller \in Callers /\ ConnInv => OwnAnswer
  <2> SUFFICES ASSUME InStep, NEW c \in 1..MaxCalls, returned[c][1] = "answer"
               PROVE  returned[c][2] \in {0, c}
    BY DEF OwnAnswer, ConnInv, LostCause
  <2>1. returned[c] \in {<<"answer", c>>, <<"error">>, <<"none">>}
    <3>1. c < calls \/ c = calls \/ c > calls
      BY ClientAssumption DEF InStep, LedgerOK
    <3>2. returned[c] = <<"answer", c>> \/ returned[c] = <<"error">> \/ returned[c] = <<"none">>
      BY <3>1 DEF InStep, LedgerOK
    <3> QED
      BY <3>2
  <2>2. <<"error">>[1] # "answer" /\ <<"none">>[1] # "answer" /\ <<"answer", c>>[2] = c
    OBVIOUS
  <2> QED
    BY <2>1, <2>2
<1> QED
  BY <1>1, <1>2, <1>3, ConnInvariant, PTL DEF Spec

-----------------------------------------------------------------------------
(* The refinement.                                                         *)

(* Every step of the connection of a caller who drops a failed client is a *)
(* step of the remote call, or none.                                       *)
LEMMA StepMaps ==
  ASSUME InStep, ~caller.reuse, [Next]_vars
  PROVE  [RC!Next]_RC!vars
<1> USE DEF RC!vars, Phase, Waiting
<1>1. CASE \E size \in Sizes : Call(size)
  <2>1. RC!Call
    BY <1>1 DEF Call, RC!Call, server
  <2> QED
    BY <2>1 DEF RC!Next
<1>2. CASE Write
  BY <1>2 DEF Write, server
<1>3. CASE Fail /\ cstate \in Waiting
  <2>1. RC!Fail
    BY <1>3 DEF Fail, Return, RC!Fail, server
  <2> QED
    BY <2>1 DEF RC!Next
<1>4. CASE ReadHeader
  <2>1. CASE Fail
    BY <1>3, <1>4, <2>1 DEF ReadHeader
  <2>2. CASE ~Fail
    BY <1>4, <2>2 DEF ReadHeader, TakeLength, server
  <2> QED
    BY <2>1, <2>2
<1>5. CASE ReadBody
  <2>1. /\ Return(<<"answer", calls>>) /\ cstate' = "idle" /\ runs[calls] = 1
        /\ cstate = "body"
    BY <1>5, ReadBodyReturnsAnswer DEF ReadBody
  <2>2. RC!Return
    BY <2>1 DEF Return, RC!Return, server
  <2> QED
    BY <2>2 DEF RC!Next
<1>6. CASE Disconnected \/ Timeout
  BY <1>3, <1>6 DEF Disconnected, Timeout
<1>7. CASE Close
  <2>1. RC!Close
    BY <1>7 DEF Close, RC!Close, server
  <2> QED
    BY <2>1 DEF RC!Next
<1>8. ASSUME UNCHANGED client, Working, calls \in 1..MaxCalls,
             runs' = [runs EXCEPT ![calls] = 1]
      PROVE  RC!Next
  <2>1. returned[calls] \in {<<"none">>, <<"error">>}
    BY <1>8 DEF InStep, LedgerOK, Working
  <2>2. RC!Run(calls)
    BY <1>8, <2>1, ClientAssumption DEF RC!Run, Working, client
  <2> QED
    BY <1>8, <2>2 DEF RC!Next
<1>9. CASE \E size \in Sizes : Process(size)
  BY <1>8, <1>9, ProcessInStep DEF Process
<1>10. CASE ServerReadHeader \/ ServerReadBody \/ ServerWrite \/ ServerEnds
  BY <1>10 DEF ServerReadHeader, ServerReadBody, ServerWrite, ServerEnds, client
<1>11. CASE Panic
  <2>1. UNCHANGED client
    BY <1>11 DEF Panic
  <2>2. runs' = runs \/ (Working /\ calls \in 1..MaxCalls /\ runs' = [runs EXCEPT ![calls] = 1])
    BY <1>11, PanicInStep
  <2> QED
    BY <1>8, <2>1, <2>2 DEF client
<1>12. CASE UNCHANGED vars
  BY <1>12 DEF vars, client, server
<1> QED
  BY <1>1, <1>2, <1>4, <1>5, <1>6, <1>7, <1>9, <1>10, <1>11, <1>12
     DEF Next, ClientStep, ServerStep

(* A client whose caller drops it after an error is a remote procedure     *)
(* call: each command runs at most once, and a call that returns an answer *)
(* returns its own, its command having run exactly once (send_receive of   *)
(* both clients against handle_connection).                                *)
THEOREM RemoteCallRefined ==
  ASSUME \A c \in Callers : ~c.reuse
  PROVE  Spec => ImplementsRemoteCall
<1>1. Init => caller \in Callers /\ RC!Init
  BY DEF Init, RC!Init, Phase
<1>2. caller \in Callers /\ ConnInv /\ [Next]_vars =>
        (caller \in Callers)' /\ [RC!Next]_RC!vars
  BY CallerStays, StepMaps DEF ConnInv, LostCause
<1> QED
  BY <1>1, <1>2, ConnInvariant, PTL DEF Spec, ImplementsRemoteCall, RC!Spec
=============================================================================
