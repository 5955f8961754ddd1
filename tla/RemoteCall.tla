----------------------------- MODULE RemoteCall ------------------------------
(***************************************************************************)
(* What the caller of a client method relies on, over the life of one      *)
(* Client.  Calls are made one at a time.  A call that returns an answer   *)
(* returns the answer to itself, and its command ran exactly once.  A call *)
(* that fails may have run or may still run, once; the client then tells   *)
(* the caller nothing of it any more.                                      *)
(***************************************************************************)
EXTENDS Naturals

CONSTANT MaxCalls  \* bound: calls made, a natural number

VARIABLES
  phase,     \* "idle", "pending", "closed"
  calls,     \* calls made so far; call n is the n-th
  runs,      \* call -> times its command was run
  returned   \* call -> <<"none">>, <<"error">>, <<"answer", of which call>>

vars == <<phase, calls, runs, returned>>

Init ==
  /\ phase = "idle" /\ calls = 0
  /\ runs = [c \in 1..MaxCalls |-> 0]
  /\ returned = [c \in 1..MaxCalls |-> <<"none">>]

Call ==
  /\ phase = "idle" /\ calls < MaxCalls
  /\ phase' = "pending" /\ calls' = calls + 1
  /\ UNCHANGED <<runs, returned>>

Run(c) ==
  /\ c <= calls /\ runs[c] = 0
  /\ returned[c] \in {<<"none">>, <<"error">>}
  /\ runs' = [runs EXCEPT ![c] = 1]
  /\ UNCHANGED <<phase, calls, returned>>

Return ==
  /\ phase = "pending" /\ runs[calls] = 1
  /\ phase' = "idle"
  /\ returned' = [returned EXCEPT ![calls] = <<"answer", calls>>]
  /\ UNCHANGED <<calls, runs>>

Fail ==
  /\ phase = "pending" /\ phase' \in {"idle", "closed"}
  /\ returned' = [returned EXCEPT ![calls] = <<"error">>]
  /\ UNCHANGED <<calls, runs>>

Close == phase = "idle" /\ phase' = "closed" /\ UNCHANGED <<calls, runs, returned>>

Next == Call \/ Return \/ Fail \/ Close \/ \E c \in 1..MaxCalls : Run(c)

Spec == Init /\ [][Next]_vars
=============================================================================
