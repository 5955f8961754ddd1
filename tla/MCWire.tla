------------------------------- MODULE MCWire --------------------------------
(* Wire with every method of both clients, a few arguments each.           *)
EXTENDS Wire

CONSTANTS Half, NaN   \* two more floats

(* Documents: one whose scalars are all defaults, one with -0.0, an empty  *)
(* string and an empty array, and one as deep as a request may carry.      *)
Plains == <<"Object", <<<<"b", <<"Bool", FALSE>>>>, <<"i", <<"I64", 0>>>>, <<"n", Null>>>>>>
Mixed  == <<"Object", <<<<"z", <<"F64", NegZero>>>>, <<"s", <<"Str", "">>>>,
                        <<"v", <<"Array", <<>>>>>>, <<"h", <<"F64", Half>>>>>>>>
Deep   == <<"Object", <<<<"a", <<"Array", <<<<"F64", NaN>>, <<"I64", 7>>>>>>>>>>>>
TooDeep == <<"Array", <<Deep>>>>

MCDocs == {Mixed, Deep}
MCScores == {Zero, Half}

All == <<"Object", <<>>>>
Filters == {Null, All, Plains}
Sorts == {None, <<"age", FALSE>>, <<"age", TRUE>>}

Chains == [filter : {Null, All}, sort : Sorts, skip : {0, 1}, limit : {0, 2}]
Plain1 == [filter |-> All, sort |-> None, skip |-> 0, limit |-> 0]

Both == {"rust", "python"}
Method(langs, methods, args) == [lang : langs, method : methods, args : args]

(* Collection.find_one of the Python client has no chain.                  *)
MCCalls ==
  Method(Both, {"insert"}, {[docs |-> <<d>>] : d \in {Plains, Deep, TooDeep}}) \cup
  Method(Both, {"insert_many"},
         {[docs |-> d] : d \in {<<>>, <<Mixed, Plains>>, <<Mixed, Mixed, Plains>>}}) \cup
  Method(Both, {"to_list", "first"}, Chains) \cup
  Method(Both, {"find_one"}, {Plain1, [Plain1 EXCEPT !.filter = Null]}) \cup
  Method(Both, {"count", "exists", "delete_one", "delete_many"}, [filter : Filters]) \cup
  Method(Both, {"update_one", "update_many"}, [filter : {All}, update : {Plains}]) \cup
  Method(Both, {"replace_one"}, [filter : {Plains}, new_doc : {Mixed}]) \cup
  Method(Both, {"vector_search"}, [field : {"emb"}, query : {<<>>, <<Half>>}, limit : {0, 10}]) \cup
  Method(Both, {"text_search"}, [field : {"bio"}, query : {"", "cow"}, limit : {0, 10}]) \cup
  Method(Both, {"hybrid_search"},
         [text_field : {"bio"}, vec_field : {"emb"}, query_text : {"cow"},
          query_vec : {<<Half>>}, limit : {0, 10}]) \cup
  Method(Both, {"agg"},
         [filter : {Null, All}, sort : {None, <<"age", TRUE>>}, skip : {1}, limit : {0},
          group_field : {"farm"}, fn : {"Count", "Last"}, agg_field : {""},
          group_sort : {None, <<"_id", TRUE>>}, group_limit : {0, 2}]) \cup
  Method(Both, {"stats"}, {<<>>}) \cup
  Method(Both, DOMAIN IndexMethods \ {"create_vector_index"}, [field : {"bio"}, dim : {0}]) \cup
  Method(Both, {"create_vector_index"}, [field : {"emb"}, dim : {0, 3}])

(* Requests of a peer that speaks something else.                          *)
Buffer(identifier, args) == [identifier |-> identifier, root |-> Create(Request, args)]
Peer(buffer, status, id) == [request |-> buffer, status |-> status, echoes |-> id]

MCForeign ==
  LET stats == [command_type |-> Ordinal(Command, "StatsCmd"), command |-> Create(StatsCmd, <<>>)]
  IN  {Peer(Buffer(FALSE, [req_id |-> 1] @@ stats), "MalformedRequest", 0),
       Peer(Buffer(TRUE, [req_id |-> 1, command_type |-> Ordinal(Command, "StatsCmd")]),
            "MalformedRequest", 0),
       Peer(Buffer(TRUE, [req_id |-> 1, command |-> Create(StatsCmd, <<>>)]),
            "MalformedRequest", 0),
       Peer(Buffer(TRUE, [req_id |-> 1, version |-> 2] @@ stats), "UnsupportedVersion", 1),
       Peer(Buffer(TRUE, [req_id |-> 1]), "UnknownCommand", 1),
       Peer(Buffer(TRUE, [req_id |-> 1, command_type |-> Len(Command),
                          command |-> Create(StatsCmd, <<>>)]), "UnknownCommand", 1),
       Peer(Buffer(TRUE, [req_id |-> 1, command_type |-> Ordinal(Command, "GroupCmd"),
                          command |-> Create(GroupCmd, [agg_fn |-> Len(AggFn)])]),
            "InternalError", 1),
       Peer(Buffer(TRUE, [req_id |-> 1, command_type |-> Ordinal(Command, "IndexCmd"),
                          command |-> Create(IndexCmd, [kind |-> Len(IndexKind)])]),
            "InternalError", 1),
       Peer(Buffer(TRUE, [version |-> 1] @@ stats), "OK", 0)}
=============================================================================
