-------------------------------- MODULE Wire ---------------------------------
(***************************************************************************)
(* A call from end to end: what a client method writes into a Request      *)
(* (client-rust/src/lib.rs, client-python/mooracer/client.py), what the    *)
(* server reads from it and asks of the engine (process_request and the    *)
(* do_ functions of server/src/lib.rs), how it wraps the outcome into a    *)
(* Response, and what the client makes of that.  Framing and the           *)
(* connection are module Client's; the engine is external here: an outcome *)
(* is any that its signature allows (modules Collection, Query, ...).      *)
(***************************************************************************)
EXTENDS Schema, Integers, TLC

CONSTANTS
  Calls,     \* [lang, method, args]: the client calls made
  Foreign,   \* [request, status, echoes]: requests of other peers, and what they get
  Docs,      \* the documents of an answer
  Scores,    \* the scores of a hit
  IdSpace    \* request identifiers wrap at IdSpace (2^64)

VARIABLES
  stage,       \* "idle", "sent", "served", "answered"
  call,        \* the call being made, or the Foreign one
  req_id,      \* the identifier last used (next_id, _req_id)
  request,     \* [identifier, root]: a finished buffer
  registered,  \* the store has the collection
  asked,       \* what the server asked of the engine, or None
  outcome,     \* what the engine answered
  response,    \* the Response table
  result       \* what the client method returns

wireVars == <<stage, call, req_id, request, registered, asked, outcome, response, result>>

-----------------------------------------------------------------------------
(* Engine values: <<"Null">>, <<"Bool", b>>, <<"I64", i>>, <<"F64", f>>,   *)
(* <<"Str", s>>, <<"Array", values>>, <<"Object", <<key, value>> pairs>>.  *)
Null == <<"Null">>

RECURSIVE ValueToWire(_)
ValueToWire(v) ==
  LET kind == "kind" :> Ordinal(ValueKind, v[1])
  IN  Create(Value, kind @@
        CASE v[1] = "Null"  -> <<>>
          [] v[1] = "Bool"  -> [b |-> v[2]]
          [] v[1] = "I64"   -> [i |-> v[2]]
          [] v[1] = "F64"   -> [f |-> v[2]]
          [] v[1] = "Str"   -> [s |-> v[2]]
          [] v[1] = "Array" -> [arr |-> [k \in DOMAIN v[2] |-> ValueToWire(v[2][k])]]
          [] OTHER -> [keys |-> [k \in DOMAIN v[2] |-> v[2][k][1]],
                       vals |-> [k \in DOMAIN v[2] |-> ValueToWire(v[2][k][2])]])

RECURSIVE ValueFromWire(_)
ValueFromWire(w) ==
  LET kind == Name(ValueKind, Get(w, "kind"))
  IN  CASE kind = "Null"  -> Null
        [] kind = "Bool"  -> <<kind, Get(w, "b")>>
        [] kind = "I64"   -> <<kind, Get(w, "i")>>
        [] kind = "F64"   -> <<kind, Get(w, "f")>>
        [] kind = "Str"   -> <<kind, Get(w, "s")>>
        [] kind = "Array" ->
             <<kind, [k \in DOMAIN Get(w, "arr") |-> ValueFromWire(Get(w, "arr")[k])]>>
        [] kind = "Object" ->
             <<kind, [k \in DOMAIN Get(w, "keys") \cap DOMAIN Get(w, "vals") |->
                        <<Get(w, "keys")[k], ValueFromWire(Get(w, "vals")[k])>>]>>

ToWire(values)   == [k \in DOMAIN values |-> ValueToWire(values[k])]
FromWire(tables) == [k \in DOMAIN tables |-> ValueFromWire(tables[k])]

-----------------------------------------------------------------------------
(* The commands the client methods build.  A sort is None or <<field,      *)
(* desc>>; the Python client adds sort_desc, skip, limit, one and many     *)
(* only where they are not the default, which writes the same table.       *)
SortField(sort) == IF sort = None THEN None ELSE sort[1]
SortDesc(sort)  == IF sort = None THEN FALSE ELSE sort[2]

Insert(a) == <<"InsertCmd", Create(InsertCmd, [docs |-> ToWire(a.docs)])>>

Count(a) == <<"CountCmd", Create(CountCmd, [filter |-> ValueToWire(a.filter)])>>

Exists(a) == <<"ExistsCmd", Create(ExistsCmd, [filter |-> ValueToWire(a.filter)])>>

Update(a, many) ==
  <<"UpdateCmd", Create(UpdateCmd, [filter |-> ValueToWire(a.filter),
                                    update |-> ValueToWire(a.update), many |-> many])>>

Replace(a) ==
  <<"ReplaceCmd", Create(ReplaceCmd, [filter  |-> ValueToWire(a.filter),
                                      new_doc |-> ValueToWire(a.new_doc)])>>

Delete(a, many) ==
  <<"DeleteCmd", Create(DeleteCmd, [filter |-> ValueToWire(a.filter), many |-> many])>>

VectorSearch(a) == <<"VectorSearchCmd", Create(VectorSearchCmd, a)>>

TextSearch(a) == <<"TextSearchCmd", Create(TextSearchCmd, a)>>

HybridSearch(a) == <<"HybridSearchCmd", Create(HybridSearchCmd, a)>>

Stats == <<"StatsCmd", Create(StatsCmd, <<>>)>>

IndexOp(kind, field, dim) ==
  <<"IndexCmd", Create(IndexCmd, [kind |-> Ordinal(IndexKind, kind), field |-> field,
                                  dim  |-> dim])>>

Find(a, skip, limit, one) ==
  <<"FindCmd", Create(FindCmd, [filter     |-> ValueToWire(a.filter),
                                sort_field |-> SortField(a.sort),
                                sort_desc  |-> SortDesc(a.sort),
                                skip |-> skip, limit |-> limit, one |-> one])>>

FindPipeline(a) == Find(a, a.skip, a.limit, FALSE)

(* Fault: the chain's skip stays.                                          *)
FirstSkipping(a) == Find(a, a.skip, 1, TRUE)

First(a) == Find(a, 0, 1, TRUE)

(* Python: Query.first keeps the chain's skip and limit; Collection's      *)
(* find_one has none.                                                      *)
PythonFirst(a) == Find(a, a.skip, a.limit, TRUE)

Agg(a) ==
  <<"GroupCmd", Create(GroupCmd,
      [filter |-> ValueToWire(a.filter), sort_field |-> SortField(a.sort),
       sort_desc |-> SortDesc(a.sort), skip |-> a.skip, limit |-> a.limit,
       group_field |-> a.group_field, agg_fn |-> Ordinal(AggFn, a.fn),
       agg_field |-> a.agg_field, group_sort_field |-> SortField(a.group_sort),
       group_sort_desc |-> SortDesc(a.group_sort), group_limit |-> a.group_limit])>>

(* The six index methods, and the IndexKind each sends.                    *)
IndexMethods ==
  ("create_index" :> "CreateValue") @@ ("drop_index" :> "DropValue") @@
  ("create_vector_index" :> "CreateVector") @@ ("drop_vector_index" :> "DropVector") @@
  ("create_text_index" :> "CreateText") @@ ("drop_text_index" :> "DropText")

NoFilter == <<"Object", <<>>>>

(* In Python the filter of a query or a delete is optional, and None is    *)
(* sent as the empty one, which every document matches.  The Rust client   *)
(* sends what it is given: Null is no object, and nothing matches it.      *)
Arguments(c) ==
  IF /\ c.lang = "python" /\ "filter" \in DOMAIN c.args
     /\ c.method \notin {"update_one", "update_many", "replace_one"}
     /\ c.args.filter = Null
  THEN [c.args EXCEPT !.filter = NoFilter] ELSE c.args

BuildCommand(c) ==
  LET a == Arguments(c)
  IN  CASE c.method \in {"insert", "insert_many"} -> Insert(a)
        [] c.method = "to_list"  -> FindPipeline(a)
        [] c.method \in {"first", "find_one"} ->
             IF c.lang = "rust" THEN First(a) ELSE PythonFirst(a)
        [] c.method = "count"  -> Count(a)
        [] c.method = "exists" -> Exists(a)
        [] c.method \in {"update_one", "update_many"} -> Update(a, c.method = "update_many")
        [] c.method = "replace_one" -> Replace(a)
        [] c.method \in {"delete_one", "delete_many"} -> Delete(a, c.method = "delete_many")
        [] c.method = "vector_search" -> VectorSearch(a)
        [] c.method = "text_search"   -> TextSearch(a)
        [] c.method = "hybrid_search" -> HybridSearch(a)
        [] c.method = "agg"   -> Agg(a)
        [] c.method = "stats" -> Stats
        [] OTHER -> IndexOp(IndexMethods[c.method], a.field, a.dim)

BuildRequest(c, id) ==
  [identifier |-> TRUE,
   root |-> LET cmd == BuildCommand(c)
            IN  Create(Request, [version |-> 1, req_id |-> id, collection |-> "cows",
                                 command_type |-> Ordinal(Command, cmd[1]),
                                 command |-> cmd[2]])]

-----------------------------------------------------------------------------
(* What the server asks of the engine: [op, ...].  An absent filter,       *)
(* update or document is Null, an absent string or vector is empty.        *)
OrNull(w) == IF w = None THEN Null ELSE ValueFromWire(w)
OrElse(x, default) == IF x = None THEN default ELSE x
Text(c, field)   == OrElse(Get(c, field), "")
Vector(c, field) == OrElse(Get(c, field), <<>>)

Sorted(c, field, desc) ==
  IF Get(c, field) = None THEN None ELSE <<Get(c, field), Get(c, desc)>>

(* q.skip(n) only if n > 0 and q.limit(n) only if n > 0, and neither       *)
(* differs from 0, the builder's own default.                              *)
AskFind(c) ==
  [op |-> IF Get(c, "one") THEN "first" ELSE "to_list", filter |-> OrNull(Get(c, "filter")),
   sort |-> Sorted(c, "sort_field", "sort_desc"),
   skip |-> Get(c, "skip"), limit |-> Get(c, "limit")]

AskInsert(c) == [op |-> "insert_many", docs |-> FromWire(Vector(c, "docs"))]

(* update_many either way; `many` decides about an empty match only.       *)
AskUpdate(c) ==
  [op |-> "update_many", filter |-> OrNull(Get(c, "filter")),
   update |-> OrNull(Get(c, "update")), many |-> Get(c, "many")]

AskReplace(c) ==
  [op |-> "replace_one", filter |-> OrNull(Get(c, "filter")),
   new_doc |-> OrNull(Get(c, "new_doc"))]

AskDelete(c) ==
  [op |-> IF Get(c, "many") THEN "delete_many" ELSE "delete_one",
   filter |-> OrNull(Get(c, "filter"))]

AskCount(c)  == [op |-> "count", filter |-> OrNull(Get(c, "filter"))]
AskExists(c) == [op |-> "exists", filter |-> OrNull(Get(c, "filter"))]

AskVectorSearch(c) ==
  [op |-> "vector_search", field |-> Text(c, "field"),
   query |-> Vector(c, "query"), limit |-> Get(c, "limit")]

AskTextSearch(c) ==
  [op |-> "text_search", field |-> Text(c, "field"),
   query |-> Text(c, "query"), limit |-> Get(c, "limit")]

AskHybridSearch(c) ==
  [op |-> "hybrid_search", text_field |-> Text(c, "text_field"),
   vec_field |-> Text(c, "vec_field"), query_text |-> Text(c, "query_text"),
   query_vec |-> Vector(c, "query_vec"), limit |-> Get(c, "limit")]

AskGroup(c) ==
  [op |-> "group", filter |-> OrNull(Get(c, "filter")),
   sort |-> Sorted(c, "sort_field", "sort_desc"),
   skip |-> Get(c, "skip"), limit |-> Get(c, "limit"),
   group_field |-> Text(c, "group_field"),
   group_sort |-> Sorted(c, "group_sort_field", "group_sort_desc"),
   group_limit |-> Get(c, "group_limit"),
   fn |-> Name(AggFn, Get(c, "agg_fn")), agg_field |-> Text(c, "agg_field")]

AskIndex(c) ==
  LET kind == Name(IndexKind, Get(c, "kind"))
  IN  [op |-> kind, field |-> Text(c, "field"),
       dim |-> IF kind = "CreateVector" THEN Get(c, "dim") ELSE 0]

Ask(command, c) ==
  CASE command = "InsertCmd"  -> AskInsert(c)
    [] command = "FindCmd"    -> AskFind(c)
    [] command = "CountCmd"   -> AskCount(c)
    [] command = "ExistsCmd"  -> AskExists(c)
    [] command = "UpdateCmd"  -> AskUpdate(c)
    [] command = "ReplaceCmd" -> AskReplace(c)
    [] command = "DeleteCmd"  -> AskDelete(c)
    [] command = "VectorSearchCmd" -> AskVectorSearch(c)
    [] command = "TextSearchCmd"   -> AskTextSearch(c)
    [] command = "HybridSearchCmd" -> AskHybridSearch(c)
    [] command = "GroupCmd" -> AskGroup(c)
    [] command = "StatsCmd" -> [op |-> "stats"]
    [] command = "IndexCmd" -> AskIndex(c)

Writes == {"insert_many", "update_many", "replace_one", "delete_one", "delete_many"}
            \cup {IndexKind[i] : i \in DOMAIN IndexKind} \cup {"unknown"}

-----------------------------------------------------------------------------
(* What the engine may answer (external), tagged as the client's Response. *)
Few(S) == {<<>>} \cup {<<x>> : x \in S} \cup {<<x, y>> : x, y \in S}

Errors(names) == {<<"Error", e>> : e \in names}

NewStats == [docs |-> 0, docs_memory |-> 1, indexes |-> 1, total_memory |-> 1,
             per_index |-> <<[field |-> "_id", entries |-> 0, distinct |-> 0,
                              memory |-> 0]>>]

SomeStats == [docs |-> 2, docs_memory |-> 3, indexes |-> 2, total_memory |-> 5,
              per_index |-> <<[field |-> "_id", entries |-> 2, distinct |-> 2, memory |-> 1],
                              [field |-> "a", entries |-> 2, distinct |-> 1, memory |-> 1]>>]

Outcomes(q) ==
  CASE q.op = "insert_many" ->
         {<<"Insert", [i \in DOMAIN q.docs |-> <<"id", i>>]>>} \cup
         Errors({"NotAnObject", "IdMustBeString", "DuplicateId", "VectorDimMismatch"})
    [] q.op = "to_list" -> {<<"Find", s>> : s \in Few(Docs)}
    [] q.op = "first"   -> {<<"Find", <<>>>>} \cup {<<"Find", <<d>>>> : d \in Docs}
    [] q.op = "count"   -> {<<"Count", n>> : n \in 0..2}
    [] q.op = "exists"  -> {<<"Exists", b>> : b \in BOOLEAN}
    [] q.op = "update_many" ->
         {<<"Update", n>> : n \in 0..2} \cup Errors({"InvalidUpdate", "VectorDimMismatch"})
    [] q.op = "replace_one" ->
         {<<"Replace", 1>>} \cup
         Errors({"NoMatch", "NotAnObject", "IdMustBeString", "IdMismatch", "VectorDimMismatch"})
    [] q.op = "delete_one"  -> {<<"Delete", n>> : n \in 0..1}
    [] q.op = "delete_many" -> {<<"Delete", n>> : n \in 0..2}
    [] q.op \in {"vector_search", "text_search", "hybrid_search"} ->
         {<<"Search", s>> : s \in Few(Docs \X Scores)} \cup Errors({"NoIndex"})
    [] q.op = "group" -> {<<"Group", s>> : s \in Few(Docs)}
    [] q.op = "stats" -> {<<"Stats", NewStats>>, <<"Stats", SomeStats>>}
    [] q.op = "DropValue" -> {<<"Index">>} \cup Errors({"NoIndex", "PrimaryIndex"})
    [] OTHER -> {<<"Index">>}

(* A collection the store does not have is read as an empty one; a search  *)
(* of it finds no index.                                                   *)
Missing(q) ==
  CASE q.op \in {"to_list", "first"} -> <<"Find", <<>>>>
    [] q.op = "count"  -> <<"Count", 0>>
    [] q.op = "exists" -> <<"Exists", FALSE>>
    [] q.op = "group"  -> <<"Group", <<>>>>
    [] q.op = "stats"  -> <<"Stats", NewStats>>
    [] OTHER -> <<"Error", "NoIndex">>

(* do_group and do_index refuse a discriminant they do not know.           *)
EngineAnswers(q) ==
  IF q.op = "unknown" \/ (q.op = "group" /\ q.fn = "unknown")
  THEN Errors({"InternalError"})
  ELSE IF q.op \in Writes \/ registered THEN Outcomes(q) ELSE {Missing(q)}

-----------------------------------------------------------------------------
(* Responses.                                                              *)
HitToWire(hit) == Create(SearchHit, [doc |-> ValueToWire(hit[1]), score |-> hit[2]])

StatsToWire(s) ==
  Create(StatsRes, [s EXCEPT !.per_index =
                      [k \in DOMAIN s.per_index |-> Create(IndexStat, s.per_index[k])]])

Body(o) ==
  CASE o[1] = "Insert"  -> <<"InsertRes", Create(InsertRes, [ids |-> o[2]])>>
    [] o[1] = "Find"    -> <<"FindRes", Create(FindRes, [docs |-> ToWire(o[2])])>>
    [] o[1] = "Count"   -> <<"CountRes", Create(CountRes, [count |-> o[2]])>>
    [] o[1] = "Exists"  -> <<"ExistsRes", Create(ExistsRes, [exists |-> o[2]])>>
    [] o[1] = "Update"  -> <<"UpdateRes", Create(UpdateRes, [count |-> o[2]])>>
    [] o[1] = "Replace" -> <<"ReplaceRes", Create(ReplaceRes, [count |-> o[2]])>>
    [] o[1] = "Delete"  -> <<"DeleteRes", Create(DeleteRes, [count |-> o[2]])>>
    [] o[1] = "Search"  -> <<"SearchRes", Create(SearchRes,
                              [hits |-> [k \in DOMAIN o[2] |-> HitToWire(o[2][k])]])>>
    [] o[1] = "Group"   -> <<"GroupRes", Create(GroupRes, [groups |-> ToWire(o[2])])>>
    [] o[1] = "Stats"   -> <<"StatsRes", StatsToWire(o[2])>>
    [] o[1] = "Index"   -> <<"IndexRes", Create(IndexRes, <<>>)>>

ErrResponse(id, status) ==
  Create(Response, [req_id |-> id, status |-> Ordinal(Status, status),
                    message |-> "detail"])

(* finish_ok.  Fault: the identifier is not echoed.                        *)
OkUnechoed(id, o) ==
  Create(Response, [body_type |-> Ordinal(ResponseBody, Body(o)[1]), body |-> Body(o)[2]])

OkResponse(id, o) ==
  Create(Response, [req_id |-> id, body_type |-> Ordinal(ResponseBody, Body(o)[1]),
                    body |-> Body(o)[2]])

(* An update of one document that matched none is NoMatch.                 *)
Respond(id, q, o) ==
  IF o[1] = "Error" THEN ErrResponse(id, o[2])
  ELSE IF o = <<"Update", 0>> /\ ~q.many THEN ErrResponse(id, "NoMatch")
  ELSE OkResponse(id, o)

(* process_request, before any command: <<req_id, status>> or None.        *)
Refusal(r) ==
  LET root == r.root
  IN  IF ~r.identifier \/ ~Verified(root) THEN <<0, "MalformedRequest">>
      ELSE IF Get(root, "version") # 1 THEN <<Get(root, "req_id"), "UnsupportedVersion">>
      ELSE IF Name(Command, Get(root, "command_type")) \in {"NONE", "unknown"}
           THEN <<Get(root, "req_id"), "UnknownCommand">>
      ELSE None

-----------------------------------------------------------------------------
(* What the client makes of a response.                                    *)
StatsFromWire(b) ==
  [docs |-> Get(b, "docs"), docs_memory |-> Get(b, "docs_memory"),
   indexes |-> Get(b, "indexes"), total_memory |-> Get(b, "total_memory"),
   per_index |-> [k \in DOMAIN Get(b, "per_index") |->
                    LET s == Get(b, "per_index")[k]
                    IN  [field |-> Get(s, "field"), entries |-> Get(s, "entries"),
                         distinct |-> Get(s, "distinct"), memory |-> Get(s, "memory")]]]

DecodeBody(r) ==
  LET b == Get(r, "body")
      type == Name(ResponseBody, Get(r, "body_type"))
  IN  CASE type \in {"NONE", "unknown"} -> <<"Protocol">>
        [] type = "InsertRes"  -> <<"Insert", Get(b, "ids")>>
        [] type = "FindRes"    -> <<"Find", FromWire(Get(b, "docs"))>>
        [] type = "CountRes"   -> <<"Count", Get(b, "count")>>
        [] type = "ExistsRes"  -> <<"Exists", Get(b, "exists")>>
        [] type = "UpdateRes"  -> <<"Update", Get(b, "count")>>
        [] type = "ReplaceRes" -> <<"Replace", Get(b, "count")>>
        [] type = "DeleteRes"  -> <<"Delete", Get(b, "count")>>
        [] type = "SearchRes"  ->
             <<"Search", [k \in DOMAIN Get(b, "hits") |->
                            <<ValueFromWire(Get(Get(b, "hits")[k], "doc")),
                              Get(Get(b, "hits")[k], "score")>>]>>
        [] type = "GroupRes"   -> <<"Group", FromWire(Get(b, "groups"))>>
        [] type = "StatsRes"   -> <<"Stats", StatsFromWire(b)>>
        [] type = "IndexRes"   -> <<"Index">>

(* send_receive: the Rust client verifies the buffer, the Python client    *)
(* (Response.GetRootAs) does not.  Neither compares req_id.                *)
SendReceive(lang, r) ==
  IF lang = "rust" /\ ~Verified(r) THEN <<"Protocol">>
  ELSE IF Name(Status, Get(r, "status")) # "OK"
       THEN <<"Server", Name(Status, Get(r, "status"))>>
       ELSE DecodeBody(r)

(* The Response variant each method of the Rust client takes.              *)
Awaits(method) ==
  CASE method \in {"insert", "insert_many"} -> "Insert"
    [] method \in {"to_list", "first", "find_one"} -> "Find"
    [] method = "count"  -> "Count"
    [] method = "exists" -> "Exists"
    [] method \in {"update_one", "update_many"} -> "Update"
    [] method = "replace_one" -> "Replace"
    [] method \in {"delete_one", "delete_many"} -> "Delete"
    [] method \in {"vector_search", "text_search", "hybrid_search"} -> "Search"
    [] method = "agg"   -> "Group"
    [] method = "stats" -> "Stats"
    [] OTHER -> "Index"

(* A method that hands out one thing takes the first of those sent.        *)
FirstOf(s, none) == IF s = <<>> THEN none ELSE <<"Ok", s[1]>>

Returned(method, got) ==
  IF got[1] \in {"Protocol", "Server"} THEN got
  ELSE IF got[1] # Awaits(method) THEN <<"Protocol">>
  ELSE CASE method = "insert" -> FirstOf(got[2], <<"Protocol">>)
         [] method \in {"first", "find_one"} -> FirstOf(got[2], <<"Ok", None>>)
         [] method = "delete_one" -> <<"Ok", got[2] = 1>>
         [] got[1] = "Index" -> <<"Ok">>
         [] OTHER -> <<"Ok", got[2]>>

-----------------------------------------------------------------------------
Init ==
  /\ stage = "idle" /\ req_id = 0 /\ registered = FALSE
  /\ call = None /\ request = None /\ asked = None
  /\ outcome = None /\ response = None /\ result = None

Forget ==
  /\ asked' = None /\ outcome' = None /\ response' = None /\ result' = None
  /\ UNCHANGED registered

Send(c) ==
  /\ stage = "idle" /\ stage' = "sent"
  /\ call' = c
  /\ req_id' = (req_id + 1) % IdSpace
  /\ request' = BuildRequest(c, req_id')
  /\ Forget

SendForeign(f) ==
  /\ stage = "idle" /\ stage' = "sent"
  /\ call' = f /\ request' = f.request
  /\ Forget /\ UNCHANGED req_id

Refuse ==
  /\ stage = "sent" /\ stage' = "served"
  /\ Refusal(request) # None
  /\ response' = ErrResponse(Refusal(request)[1], Refusal(request)[2])
  /\ UNCHANGED <<call, req_id, request, registered, asked, outcome, result>>

Serve ==
  /\ stage = "sent" /\ stage' = "served"
  /\ Refusal(request) = None
  /\ asked' = Ask(Name(Command, Get(request.root, "command_type")), Get(request.root, "command"))
  /\ \E o \in EngineAnswers(asked') :
       /\ outcome' = o
       /\ response' = Respond(Get(request.root, "req_id"), asked', o)
  /\ registered' = (registered \/ asked'.op \in Writes)
  /\ UNCHANGED <<call, req_id, request, result>>

Receive ==
  /\ stage = "served" /\ stage' = "idle"
  /\ result' = IF call \in Foreign THEN None
               ELSE Returned(call.method, SendReceive(call.lang, response))
  /\ UNCHANGED <<call, req_id, request, registered, asked, outcome, response>>

Next ==
  \/ \E c \in Calls : Send(c)
  \/ \E f \in Foreign : SendForeign(f)
  \/ Refuse
  \/ Serve
  \/ Receive

Spec == Init /\ [][Next]_wireVars

-----------------------------------------------------------------------------
(* What the methods promise, stated on engine values and without tables.   *)

(* A value as it arrives: -0.0 has become 0.0.                             *)
RECURSIVE Plain(_)
Plain(v) ==
  CASE v[1] = "F64"    -> IF v[2] = NegZero THEN <<"F64", Zero>> ELSE v
    [] v[1] = "Array"  -> <<"Array", [k \in DOMAIN v[2] |-> Plain(v[2][k])]>>
    [] v[1] = "Object" -> <<"Object", [k \in DOMAIN v[2] |-> <<v[2][k][1], Plain(v[2][k][2])>>]>>
    [] OTHER -> v

(* The values inside a value, and how deep and how many they are.          *)
Parts(v) ==
  CASE v[1] = "Array"  -> v[2]
    [] v[1] = "Object" -> [k \in DOMAIN v[2] |-> v[2][k][2]]
    [] OTHER -> <<>>

RECURSIVE Nesting(_)
Nesting(v) == 1 + Max({0} \cup {Nesting(Parts(v)[k]) : k \in DOMAIN Parts(v)})

RECURSIVE Nodes(_)
Nodes(v) == 1 + MapThenSumSet(LAMBDA k : Nodes(Parts(v)[k]), DOMAIN Parts(v))

(* A buffer of these values, each wrapped in `wrap` tables of its own,     *)
(* below an envelope of two.                                               *)
Fits(values, wrap) ==
  /\ \A k \in DOMAIN values : 2 + wrap + Nesting(values[k]) <= MaxDepth
  /\ 2 + MapThenSumSet(LAMBDA k : wrap + Nodes(values[k]), DOMAIN values) <= MaxTables

(* The values of a call.                                                   *)
Sent(c) ==
  IF "docs" \in DOMAIN c.args THEN c.args.docs
  ELSE LET names == DOMAIN c.args \cap {"filter", "update", "new_doc"}
       IN  [k \in names |-> c.args[k]]

(* The engine call a method stands for; a filter left out in Python stands *)
(* for every document.                                                     *)
Promise(c) ==
  LET a == c.args
      filter == IF c.lang = "python" /\ a.filter = Null THEN NoFilter ELSE Plain(a.filter)
      query == [filter |-> filter, sort |-> a.sort, skip |-> a.skip,
                limit |-> a.limit]
  IN  CASE c.method \in {"insert", "insert_many"} ->
             [op |-> "insert_many", docs |-> [k \in DOMAIN a.docs |-> Plain(a.docs[k])]]
        [] c.method = "to_list" -> query @@ [op |-> "to_list"]
        [] c.method \in {"first", "find_one"} ->
             [query EXCEPT !.skip = 0, !.limit = 1] @@ [op |-> "first"]
        [] c.method \in {"count", "exists", "delete_one", "delete_many"} ->
             [op |-> c.method, filter |-> filter]
        [] c.method \in {"update_one", "update_many"} ->
             [op |-> "update_many", filter |-> filter, update |-> Plain(a.update),
              many |-> c.method = "update_many"]
        [] c.method = "replace_one" ->
             [op |-> "replace_one", filter |-> filter, new_doc |-> Plain(a.new_doc)]
        [] c.method \in {"vector_search", "text_search", "hybrid_search"} ->
             a @@ [op |-> c.method]
        [] c.method = "agg" ->
             query @@ [op |-> "group", fn |-> a.fn, agg_field |-> a.agg_field,
                       group_field |-> a.group_field, group_sort |-> a.group_sort,
                       group_limit |-> a.group_limit]
        [] c.method = "stats" -> [op |-> "stats"]
        [] OTHER -> [op |-> IndexMethods[c.method], field |-> a.field, dim |-> a.dim]

(* One document of a sorted, skipped stream: a limit of one adds nothing.  *)
AsOneShot(q) == IF q.op = "first" THEN [q EXCEPT !.limit = 1] ELSE q

(* Every call of either client that the verifier lets through reaches the  *)
(* engine as the call its method stands for: filter, sort, paging, group   *)
(* pipeline, index kind, and with them every default that was not written. *)
(* Python's Query.first is compared where the chain skips nothing (see     *)
(* FirstIgnoresPaging).                                                    *)
RequestFaithful ==
  (stage = "served" /\ call \in Calls) =>
    IF Fits(Sent(call), 0)
    THEN \/ call.method = "first" /\ call.lang = "python" /\ call.args.skip # 0
         \/ AsOneShot(asked) = Promise(call)
    ELSE asked = None

(* What the caller is told, from the engine's own answer.                  *)
PlainAll(s) == [k \in DOMAIN s |-> Plain(s[k])]

Told(c, o) ==
  CASE o[1] = "Error" -> <<"Server", o[2]>>
    [] o[1] = "Update" /\ o[2] = 0 /\ c.method = "update_one" -> <<"Server", "NoMatch">>
    [] c.method = "insert" -> <<"Ok", o[2][1]>>
    [] c.method = "to_list" -> <<"Ok", PlainAll(o[2])>>
    [] c.method \in {"first", "find_one"} ->
         <<"Ok", IF o[2] = <<>> THEN None ELSE Plain(o[2][1])>>
    [] c.method = "delete_one" -> <<"Ok", o[2] = 1>>
    [] o[1] = "Search" -> <<"Ok", [k \in DOMAIN o[2] |-> <<Plain(o[2][k][1]), o[2][k][2]>>]>>
    [] o[1] = "Group" -> <<"Ok", PlainAll(o[2])>>
    [] o[1] = "Index" -> <<"Ok">>
    [] OTHER -> <<"Ok", o[2]>>

TooMuch(o) ==
  CASE o[1] \in {"Find", "Group"} -> ~Fits(o[2], 0)
    [] o[1] = "Search" -> ~Fits([k \in DOMAIN o[2] |-> o[2][k][1]], 1)
    [] o[1] = "Stats" -> 2 + Len(o[2].per_index) > MaxTables
    [] OTHER -> FALSE

(* Every caller is told what the engine answered its call, under the       *)
(* identifier the call was sent with; the Rust client alone reports a      *)
(* protocol error where the answer is more than its verifier allows.       *)
(* A request this server cannot read (another version, an unknown command, *)
(* aggregate or index kind, no identifier, half a union) is refused with   *)
(* the status for it.                                                      *)
AnswerFaithful ==
  (stage = "idle" /\ call # None) =>
    IF call \in Foreign
    THEN <<Get(response, "req_id"), Name(Status, Get(response, "status"))>>
           = <<call.echoes, call.status>>
    ELSE IF asked = None THEN result = <<"Server", "MalformedRequest">>
    ELSE /\ Get(response, "req_id") = req_id
         /\ result = IF call.lang = "rust" /\ TooMuch(outcome) THEN <<"Protocol">>
                     ELSE Told(call, outcome)

(* client-rust, Query::first: "`skip`/`limit` do not apply to a one-shot", *)
(* and the Python client mirrors the Rust client's chain.  Its Query.first *)
(* sends the chain's skip, which the server applies.                       *)
FirstIgnoresPaging ==
  (stage = "served" /\ call \in Calls /\ asked # None /\ call.method = "first") =>
    AsOneShot(asked) = Promise(call)

(* A document the server accepted can be read back: a search wraps it in   *)
(* one table more than the insertion did, which is one too many for the    *)
(* Rust client when the document is as deep as an insertion may be, and    *)
(* the documents of several insertions are too many tables for one answer. *)
AcceptedIsReadable ==
  (stage = "idle" /\ call \in Calls /\ \A d \in Docs : Fits(<<d>>, 0)) => result # <<"Protocol">>
=============================================================================
