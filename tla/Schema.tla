------------------------------- MODULE Schema --------------------------------
(***************************************************************************)
(* The wire schema (wire/src/generated.rs): its enums, its tables, and     *)
(* what the generated code does with them.  An enum is the sequence of its *)
(* names and travels as an ordinal.  A table is the sequence of its        *)
(* fields; field i has vtable slot 4 + 2(i - 1), so the order matters and  *)
(* the name does not.  Writing a table pushes the scalars that differ from *)
(* their default and the references that are given; reading a slot that is *)
(* not there gives the default.  The FlatBuffers library underneath        *)
(* (push_slot, Table::get, Verifier) is external.                          *)
(***************************************************************************)
EXTENDS Naturals, Sequences, FiniteSetsExt

CONSTANTS
  None,           \* Option::None
  Zero, NegZero,  \* the floats 0.0 and -0.0: equal, and only one is kept
  MaxDepth,       \* VerifierOptions::max_depth of the library (64)
  MaxTables       \* VerifierOptions::max_tables (1 000 000)

ASSUME SchemaAssumption ==
  /\ MaxDepth \in Nat /\ MaxTables \in Nat
  /\ Cardinality({None, Zero, NegZero}) = 3

-----------------------------------------------------------------------------
(* Enums.                                                                  *)
ValueKind == <<"Null", "Bool", "I64", "F64", "Str", "Array", "Object">>

AggFn == <<"Count", "Sum", "Mean", "Min", "Max", "Collect", "First", "Last">>

IndexKind == <<"CreateValue", "DropValue", "CreateVector", "DropVector",
               "CreateText", "DropText">>

Command == <<"NONE", "InsertCmd", "FindCmd", "CountCmd", "ExistsCmd", "UpdateCmd",
             "ReplaceCmd", "DeleteCmd", "VectorSearchCmd", "TextSearchCmd",
             "HybridSearchCmd", "GroupCmd", "StatsCmd", "IndexCmd">>

ResponseBody == <<"NONE", "InsertRes", "FindRes", "CountRes", "ExistsRes", "UpdateRes",
                  "ReplaceRes", "DeleteRes", "SearchRes", "GroupRes", "StatsRes",
                  "IndexRes">>

Status == <<"OK", "NotAnObject", "IdMustBeString", "DuplicateId", "IdMismatch", "NoIndex",
            "PrimaryIndex", "NoMatch", "InvalidUpdate", "VectorDimMismatch",
            "MalformedRequest", "UnknownCommand", "UnsupportedVersion", "InternalError">>

Ordinal(enum, name) == (CHOOSE i \in DOMAIN enum : enum[i] = name) - 1

(* An ordinal this build does not know is kept as it is.                   *)
Name(enum, ordinal) == IF ordinal < Len(enum) THEN enum[ordinal + 1] ELSE "unknown"

-----------------------------------------------------------------------------
(* Fields: a scalar with its default; a reference to something that holds  *)
(* no table (a string, a vector of strings or numbers); a table; a vector  *)
(* of tables; a union, which is a type scalar and a table.                 *)
Scalar(name, default) == [name |-> name, default |-> default, holds |-> "scalar"]
Leaf(name)   == [name |-> name, default |-> None, holds |-> "leaf"]
Child(name)  == [name |-> name, default |-> None, holds |-> "table"]
Tables(name) == [name |-> name, default |-> None, holds |-> "tables"]
Union(name)  == [name |-> name, default |-> None, holds |-> "union"]

Value == <<Scalar("kind", Ordinal(ValueKind, "Null")), Scalar("b", FALSE),
           Scalar("i", 0), Scalar("f", Zero), Leaf("s"), Tables("arr"),
           Leaf("keys"), Tables("vals")>>

(* The commands.                                                           *)
InsertCmd == <<Tables("docs")>>

FindCmd == <<Child("filter"), Leaf("sort_field"), Scalar("sort_desc", FALSE),
             Scalar("skip", 0), Scalar("limit", 0), Scalar("one", FALSE)>>

CountCmd == <<Child("filter")>>

ExistsCmd == <<Child("filter")>>

UpdateCmd == <<Child("filter"), Child("update"), Scalar("many", FALSE)>>

ReplaceCmd == <<Child("filter"), Child("new_doc")>>

DeleteCmd == <<Child("filter"), Scalar("many", FALSE)>>

VectorSearchCmd == <<Leaf("field"), Leaf("query"), Scalar("limit", 0)>>

TextSearchCmd == <<Leaf("field"), Leaf("query"), Scalar("limit", 0)>>

HybridSearchCmd == <<Leaf("text_field"), Leaf("vec_field"), Leaf("query_text"),
                     Leaf("query_vec"), Scalar("limit", 0)>>

GroupCmd == <<Child("filter"), Leaf("sort_field"), Scalar("sort_desc", FALSE),
              Scalar("skip", 0), Scalar("limit", 0), Leaf("group_field"),
              Scalar("agg_fn", Ordinal(AggFn, "Count")), Leaf("agg_field"),
              Leaf("group_sort_field"), Scalar("group_sort_desc", FALSE),
              Scalar("group_limit", 0)>>

StatsCmd == <<>>

IndexCmd == <<Scalar("kind", Ordinal(IndexKind, "CreateValue")), Leaf("field"),
              Scalar("dim", 0)>>

Request == <<Scalar("version", 1), Scalar("req_id", 0), Leaf("collection"),
             Scalar("command_type", Ordinal(Command, "NONE")), Union("command")>>

(* The results.                                                            *)
InsertRes == <<Leaf("ids")>>

FindRes == <<Tables("docs")>>

CountRes == <<Scalar("count", 0)>>

ExistsRes == <<Scalar("exists", FALSE)>>

UpdateRes == <<Scalar("count", 0)>>

ReplaceRes == <<Scalar("count", 0)>>

DeleteRes == <<Scalar("count", 0)>>

SearchHit == <<Child("doc"), Scalar("score", Zero)>>

SearchRes == <<Tables("hits")>>

GroupRes == <<Tables("groups")>>

IndexStat == <<Leaf("field"), Scalar("entries", 0), Scalar("distinct", 0),
               Scalar("memory", 0)>>

StatsRes == <<Scalar("docs", 0), Scalar("docs_memory", 0), Scalar("indexes", 0),
              Scalar("total_memory", 0), Tables("per_index")>>

IndexRes == <<>>

Response == <<Scalar("version", 1), Scalar("req_id", 0),
              Scalar("status", Ordinal(Status, "OK")), Leaf("message"),
              Scalar("body_type", Ordinal(ResponseBody, "NONE")), Union("body")>>

-----------------------------------------------------------------------------
(* A written table is its schema and the slots that were pushed.           *)
Elided(field, x) == x = field.default \/ (field.default = Zero /\ x = NegZero)

(* The argument named by a field, or what the Args struct defaults to.     *)
Given(field, args) == IF field.name \in DOMAIN args THEN args[field.name] ELSE field.default

Create(schema, args) ==
  [schema |-> schema,
   slots  |-> [i \in {k \in DOMAIN schema : ~Elided(schema[k], Given(schema[k], args))} |->
                 Given(schema[i], args)]]

Get(table, name) ==
  LET i == CHOOSE k \in DOMAIN table.schema : table.schema[k].name = name
  IN  IF i \in DOMAIN table.slots THEN table.slots[i] ELSE table.schema[i].default

(* The tables that slot i of a table refers to.                            *)
Below(table, i) ==
  CASE table.schema[i].holds \in {"table", "union"} -> <<table.slots[i]>>
    [] table.schema[i].holds = "tables" -> table.slots[i]
    [] OTHER -> <<>>

Within(table) ==
  UNION {{<<i, k>> : k \in DOMAIN Below(table, i)} : i \in DOMAIN table.slots}

(* How deep the tables of a buffer nest and how many there are, as the     *)
(* verifier counts: a vector is no level of its own.                       *)
RECURSIVE Depth(_)
Depth(table) ==
  1 + Max({0} \cup {Depth(Below(table, p[1])[p[2]]) : p \in Within(table)})

RECURSIVE Size(_)
Size(table) ==
  1 + MapThenSumSet(LAMBDA p : Size(Below(table, p[1])[p[2]]), Within(table))

(* run_verifier of a root table: a union has its type and its payload or   *)
(* neither (the type is the field before it), and no limit is passed.      *)
Verified(table) ==
  /\ \A i \in DOMAIN table.schema :
       table.schema[i].holds = "union" =>
         ((i \in DOMAIN table.slots) <=> ((i - 1) \in DOMAIN table.slots))
  /\ Depth(table) <= MaxDepth
  /\ Size(table) <= MaxTables
=============================================================================
