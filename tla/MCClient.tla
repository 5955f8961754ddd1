------------------------------ MODULE MCClient -------------------------------
(* Client with the callers that drop a connection a call has failed on,    *)
(* and, for the runs made by hand, those that go on using it.              *)
EXTENDS Client

Caller(lang, timeout, reuse) == [lang |-> lang, timeout |-> timeout, reuse |-> reuse]

Careful ==
  {Caller("rust", FALSE, FALSE), Caller("python", FALSE, FALSE), Caller("python", TRUE, FALSE)}

RustReuse   == {Caller("rust", FALSE, TRUE)}
PythonReuse == {Caller("python", TRUE, TRUE)}
=============================================================================
