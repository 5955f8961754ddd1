--------------------------- MODULE ServerCommands ----------------------------
(***************************************************************************)
(* The commands that write (server/src/lib.rs, do_insert, do_update,       *)
(* do_replace, do_delete, do_index), on one collection of the server's     *)
(* store.  Each runs under the exclusive lock (module ServerPool), so a    *)
(* command is one step: a call of Collection and the answer made of it.    *)
(***************************************************************************)
EXTENDS Collection, StdVec, SequencesExt

VARIABLES
  registered,  \* the store has an entry for the collection
  answer       \* the last answer: status, count, and InsertRes.ids

cmdVars == <<vars, registered, answer>>

Answer(cmd, status, count, ids) ==
  answer' = [cmd |-> cmd, status |-> status, count |-> count, ids |-> ids]

(* A write command registers the collection whatever becomes of it.        *)
Register == registered' = TRUE

-----------------------------------------------------------------------------
(* inserted_ids: insert_many returns only a count, so the identifiers are  *)
(* recovered from the store before and after it.  Those neither stored     *)
(* before nor named by the request are the generated ones; rendered from   *)
(* the counter with leading zeros, they sort in the order of drawing.      *)
Explicit(raws) == {raws[i].id : i \in DOMAIN raws} \ {Absent, NotString}

Drawn(id) == CHOOSE n \in 1..MaxId : HexId[n] = id

InOrderDrawn(ids) == Ranked(ids, LAMBDA x, y : Drawn(x) < Drawn(y))

(* Fault: identifiers the request named count as generated.                *)
GeneratedAll(raws, before, after) ==
  InOrderDrawn({id \in after \ before : \E n \in 1..MaxId : HexId[n] = id})

Generated(raws, before, after) == InOrderDrawn((after \ before) \ Explicit(raws))

InsertedIds(raws, before, after) ==
  LET generated == Generated(raws, before, after)
  IN  [i \in DOMAIN raws |->
         IF raws[i].id # Absent THEN raws[i].id ELSE generated[DrawnBy(raws, i)]]

DoInsert(raws) ==
  /\ InsertMany(raws)
  /\ Register
  /\ IF reply'.err = "ok"
     THEN Answer("insert", "ok", Len(raws), InsertedIds(raws, DOMAIN docs, DOMAIN docs'))
     ELSE Answer("insert", reply'.err, 0, <<>>)

(* update_many either way: `many` only decides about an empty match.       *)
DoUpdate(matched, u, many) ==
  /\ UpdateMany(matched, u)
  /\ Register
  /\ LET cmd == IF many THEN "update_many" ELSE "update_one"
     IN  IF reply'.err # "ok" THEN Answer(cmd, reply'.err, 0, <<>>)
         ELSE IF ~many /\ reply'.n = 0 THEN Answer(cmd, "NoMatch", 0, <<>>)
         ELSE Answer(cmd, "ok", reply'.n, <<>>)

DoReplace(matched, raw) ==
  /\ ReplaceOne(matched, raw)
  /\ Register
  /\ Answer("replace", reply'.err, reply'.n, <<>>)

(* Fault: the count is what matched, not what went.                        *)
DoDeleteMatched(matched, many) ==
  /\ IF many THEN DeleteMany(matched) ELSE DeleteOne(matched)
  /\ Register
  /\ Answer(IF many THEN "delete_many" ELSE "delete_one", "ok", Cardinality(matched), <<>>)

DoDelete(matched, many) ==
  /\ IF many THEN DeleteMany(matched) ELSE DeleteOne(matched)
  /\ Register
  /\ Answer(IF many THEN "delete_many" ELSE "delete_one", "ok", reply'.n, <<>>)

DoIndex(f) ==
  /\ \/ CreateIndex(f) \/ DropIndex(f)
     \/ f # IdKey /\ \E d \in Dims : CreateVectorIndex(f, d)
     \/ f # IdKey /\ (DropVectorIndex(f) \/ CreateTextIndex(f) \/ DropTextIndex(f))
  /\ Register
  /\ Answer("index", reply'.err, 0, <<>>)

CmdInit ==
  /\ Init
  /\ registered = FALSE
  /\ answer = [cmd |-> "none", status |-> "ok", count |-> 0, ids |-> <<>>]

CmdNext ==
  \/ \E raws \in Batches : DoInsert(raws)
  \/ \E matched \in SUBSET DOMAIN docs :
       \/ \E u \in UpdateInputs, many \in BOOLEAN : DoUpdate(matched, u, many)
       \/ \E raw \in RawInputs : DoReplace(matched, raw)
       \/ \E many \in BOOLEAN : DoDelete(matched, many)
  \/ \E f \in Fields \cup {IdKey} : DoIndex(f)
  \/ NextIdElsewhere /\ UNCHANGED <<registered, answer>>

CmdSpec == CmdInit /\ [][CmdNext]_cmdVars

-----------------------------------------------------------------------------
CmdTypeOK ==
  /\ TypeOK
  /\ registered \in BOOLEAN
  /\ answer.status \in Errors \cup {"ok"}
  /\ answer.count \in Nat /\ answer.ids \in Seq(Ids)

Changed == {id \in DOMAIN docs \cap DOMAIN docs' : docs[id] # docs'[id]}

(* The identifiers an insert answers with are, position by position, those *)
(* its documents are now stored under, whichever the request named and     *)
(* whatever other collections drew from the counter meanwhile.             *)
InsertAnswersStoredIds ==
  [][answer'.cmd = "insert" /\ answer'.status = "ok" /\ docs' # docs =>
       \A raws \in [1..answer'.count -> RawInputs] :
         DoInsert(raws) =>
           /\ IsInjective(answer'.ids) /\ Len(answer'.ids) = Len(raws)
           /\ \A i \in DOMAIN raws :
                /\ answer'.ids[i] \in DOMAIN docs' \ DOMAIN docs
                /\ docs'[answer'.ids[i]].body = raws[i].body]_cmdVars

(* An answer's count is what happened to the store: the documents gone     *)
(* after a delete, at least those changed by an update or a replace; and   *)
(* a delete_one or replace takes at most one.                              *)
CountsAreTrue ==
  [][UNCHANGED ID_COUNTER =>
       /\ answer'.cmd \in {"delete_one", "delete_many"} =>
            answer'.count = Cardinality(DOMAIN docs \ DOMAIN docs')
       /\ answer'.cmd \in {"update_one", "update_many", "replace"} /\ answer'.status = "ok" =>
            answer'.count >= Cardinality(Changed)
       /\ answer'.cmd = "delete_one" => answer'.count <= 1
       /\ answer'.cmd = "replace" => Cardinality(Changed) <= 1]_cmdVars

(* update_one changes at most one document: it applies its operators "to   *)
(* the first match" (client-rust/src/lib.rs, update_one).                  *)
UpdateOneTouchesOne ==
  [][answer'.cmd = "update_one" /\ answer'.status = "ok" => Cardinality(Changed) <= 1]_cmdVars
=============================================================================
