---------------------------- MODULE Transaction ------------------------------
(***************************************************************************)
(* The atomic batch (engine/src/collection.rs, struct Transaction) over a  *)
(* Collection.  Writes are resolved against the collection as it was at    *)
(* begin() and buffered in `ops`, with `seen[i]` the identifier of ops[i]; *)
(* commit() replays the buffer op by op and returns at the first one that  *)
(* fails.  The transaction borrows the collection mutably, so no other     *)
(* call runs between begin() and commit(), rollback() or the drop.         *)
(*                                                                         *)
(* The commit loop is modelled iteration by iteration, so that what an     *)
(* early return leaves behind is a state of the model.                     *)
(***************************************************************************)
EXTENDS Collection, SequencesExt

CONSTANT Deleted  \* the document of a staged BatchOp::Delete

ASSUME DeletedAssumption == Deleted \notin Docs

VARIABLES
  phase,     \* "idle", "open" or "committing"
  ops,       \* staged ops [id, doc], in write order
  seen,      \* their identifiers
  err,       \* "ok", or the error that failed the transaction
  pos,       \* the op the commit loop is at
  snapshot   \* history: the documents at begin()

txVars == <<phase, ops, seen, err, pos, snapshot>>
allVars == <<vars, txVars>>

BatchOps == [id : Ids, doc : Docs \cup {Deleted}]

-----------------------------------------------------------------------------
Begin ==
  /\ phase = "idle"
  /\ phase' = "open"
  /\ snapshot' = docs
  /\ UNCHANGED <<vars, ops, seen, err, pos>>

(* Fault: an op is appended even when its identifier is staged already.    *)
PutAppending(new) ==
  \E order \in SetToSeqs(DOMAIN new) :
    /\ ops' = ops \o [i \in DOMAIN order |-> [id |-> order[i], doc |-> new[order[i]]]]
    /\ seen' = seen \o order

(* Stage new[id] for every id of DOMAIN new, in whatever order a HashMap   *)
(* yields them: an op already staged on the id is overwritten in place,    *)
(* another one is appended.                                                *)
Put(new) ==
  \E order \in SetToSeqs(DOMAIN new \ ToSet(seen)) :
    /\ ops' = [i \in DOMAIN ops |->
                 IF seen[i] \in DOMAIN new
                 THEN [id |-> seen[i], doc |-> new[seen[i]]] ELSE ops[i]]
              \o [i \in DOMAIN order |-> [id |-> order[i], doc |-> new[order[i]]]]
    /\ seen' = seen \o order

(* The first error a staged call reports fails the transaction.            *)
TxReply(call, e, n) == Reply(call, e, n) /\ err' = e

(* A call staged while the transaction is open and has not failed; a call  *)
(* on a failed transaction returns the stored error and does nothing.      *)
Staging ==
  /\ phase = "open" /\ err = "ok"
  /\ UNCHANGED <<store, phase, pos, snapshot>>

TxInsertMany(call, raws) ==
  LET taken == DOMAIN docs \cup ToSet(seen)
      Stage(k) ==
        /\ ops' = ops \o [i \in 1..k |-> [id  |-> Staged(raws, i).doc.id,
                                          doc |-> Staged(raws, i).doc]]
        /\ seen' = seen \o [i \in 1..k |-> Staged(raws, i).doc.id]
  IN  /\ Staging
      /\ ID_COUNTER + DrawnBy(raws, Len(raws)) <= MaxId
      /\ \/ \E i \in DOMAIN raws :
              /\ StagedUpTo(raws, i - 1, taken)
              /\ StagedError(raws, i, taken) # "ok"
              /\ Stage(i - 1)
              /\ TxReply(call, StagedError(raws, i, taken), 0)
              /\ ID_COUNTER' = ID_COUNTER + DrawnBy(raws, i)
         \/ /\ StagedUpTo(raws, Len(raws), taken)
            /\ Stage(Len(raws))
            /\ TxReply(call, "ok", Len(raws))
            /\ ID_COUNTER' = ID_COUNTER + DrawnBy(raws, Len(raws))

TxInsert(raw) == TxInsertMany("tx.insert", <<raw>>)

(* Stage the update of every matched document.  Unlike set_doc, nothing    *)
(* checks the vector indexes here.                                         *)
TxUpdate(matched, u) ==
  LET bad == {id \in matched : UpdateFails(docs[id], u)}
      Updates1(ids) == [id \in ids |-> ApplyUpdate(docs[id], u)]
  IN  /\ Staging
      /\ UNCHANGED ID_COUNTER
      /\ \/ /\ ~ValidUpdate(u)
            /\ TxReply("tx.update", "InvalidUpdate", 0)
            /\ UNCHANGED <<ops, seen>>
         \/ /\ ValidUpdate(u) /\ bad = {}
            /\ Put(Updates1(matched))
            /\ TxReply("tx.update", "ok", Cardinality(matched))
         \/ /\ ValidUpdate(u) /\ bad # {}
            /\ \E done \in SUBSET (matched \ bad) : Put(Updates1(done))
            /\ TxReply("tx.update", "InvalidUpdate", 0)

TxReplace(matched, raw) ==
  /\ Staging
  /\ UNCHANGED ID_COUNTER
  /\ \/ /\ matched = {}
        /\ TxReply("tx.replace", "NoMatch", 0)
        /\ UNCHANGED <<ops, seen>>
     \/ \E id \in matched :
          LET n == NormalizeReplace(id, raw)
          IN  \/ /\ n.err # "ok"
                 /\ TxReply("tx.replace", n.err, 0)
                 /\ UNCHANGED <<ops, seen>>
              \/ /\ n.err = "ok"
                 /\ Put([i \in {id} |-> n.doc])
                 /\ TxReply("tx.replace", "ok", 1)

(* A filter only sees documents of the pre-batch store, so the branch for  *)
(* an identifier that is staged but not stored is never taken.             *)
TxDelete(matched) ==
  /\ Staging
  /\ UNCHANGED ID_COUNTER
  /\ Put([id \in matched |-> Deleted])
  /\ TxReply("tx.delete", "ok", Cardinality(matched))

-----------------------------------------------------------------------------
(* The end of the transaction: its buffer is gone with it.                 *)
Close ==
  /\ phase' = "idle"
  /\ ops' = <<>> /\ seen' = <<>> /\ err' = "ok" /\ pos' = 1
  /\ snapshot' = [id \in {} |-> Null]

(* rollback(), or dropping the transaction.                                *)
Rollback == phase = "open" /\ Close /\ UNCHANGED vars

CommitFailed ==
  /\ phase = "open" /\ err # "ok"
  /\ Close
  /\ Fail("commit", err)
  /\ UNCHANGED ID_COUNTER

(* Fault: the batch is applied although a staged call failed.              *)
CommitBeginFailed ==
  /\ phase = "open"
  /\ phase' = "committing"
  /\ UNCHANGED <<vars, ops, seen, err, pos, snapshot>>

CommitBegin ==
  /\ phase = "open" /\ err = "ok"
  /\ phase' = "committing"
  /\ UNCHANGED <<vars, ops, seen, err, pos, snapshot>>

(* Fault: a document that replaces a stored one is not checked again.      *)
CommitErrorNewOnly ==
  LET op == ops[pos]
  IN  IF op.doc # Deleted /\ op.id \notin DOMAIN docs /\ BadVector(op.doc)
      THEN "VectorDimMismatch" ELSE "ok"

(* What applying the op at `pos` reports: set_doc for a stored id,         *)
(* check_vectors for a new one.                                            *)
CommitError ==
  LET op == ops[pos]
  IN  IF op.doc = Deleted THEN "ok"
      ELSE IF op.id \in DOMAIN docs THEN SetDocError(op.id, op.doc)
      ELSE IF BadVector(op.doc) THEN "VectorDimMismatch" ELSE "ok"

(* Fault: the loop forgets to take out the entries of the old document.    *)
CommitOpStale ==
  LET op == ops[pos]
      puts == IF op.doc = Deleted THEN {} ELSE {op.id}
  IN  /\ phase = "committing" /\ pos \in DOMAIN ops
      /\ CommitError = "ok"
      /\ Write({}, [id \in puts |-> op.doc])
      /\ pos' = pos + 1
      /\ UNCHANGED <<ID_COUNTER, reply, phase, ops, seen, err, snapshot>>

CommitOp ==
  LET op == ops[pos]
      puts == IF op.doc = Deleted THEN {} ELSE {op.id}
  IN  /\ phase = "committing" /\ pos \in DOMAIN ops
      /\ CommitError = "ok"
      /\ Write({op.id} \cap DOMAIN docs, [id \in puts |-> op.doc])
      /\ pos' = pos + 1
      /\ UNCHANGED <<ID_COUNTER, reply, phase, ops, seen, err, snapshot>>

CommitStops ==
  /\ phase = "committing" /\ pos \in DOMAIN ops
  /\ CommitError # "ok"
  /\ Close
  /\ Fail("commit", CommitError)
  /\ UNCHANGED ID_COUNTER

CommitDone ==
  /\ phase = "committing" /\ pos > Len(ops)
  /\ Close
  /\ UNCHANGED <<store, ID_COUNTER>> /\ Reply("commit", "ok", 0)

-----------------------------------------------------------------------------
TxInit ==
  /\ Init
  /\ phase = "idle" /\ ops = <<>> /\ seen = <<>> /\ err = "ok" /\ pos = 1
  /\ snapshot = [id \in {} |-> Null]

DirectCall == phase = "idle" /\ Next /\ UNCHANGED txVars

TxStage ==
  \/ \E raw \in RawInputs : TxInsert(raw)
  \/ \E raws \in Batches : TxInsertMany("tx.insert_many", raws)
  \/ \E matched \in SUBSET DOMAIN docs :
       \/ \E u \in UpdateInputs : TxUpdate(matched, u)
       \/ \E raw \in RawInputs : TxReplace(matched, raw)
       \/ TxDelete(matched)

TxNext ==
  \/ DirectCall \/ Begin \/ TxStage \/ Rollback
  \/ CommitFailed \/ CommitBegin \/ CommitOp \/ CommitStops \/ CommitDone

TxSpec == TxInit /\ [][TxNext]_allVars

-----------------------------------------------------------------------------
TxTypeOK ==
  /\ TypeOK
  /\ phase \in {"idle", "open", "committing"}
  /\ ops \in Seq(BatchOps) /\ seen \in Seq(Ids)
  /\ err \in Errors \cup {"ok"}
  /\ pos \in Nat \ {0}

(* `ops` and `seen` are parallel arrays and no identifier is staged twice: *)
(* the buffer commits each identifier at most once, and overwriting by     *)
(* position overwrites the op of that identifier.                          *)
OpsAligned ==
  /\ Len(seen) = Len(ops)
  /\ \A i \in DOMAIN ops : ops[i].id = seen[i]
  /\ \A i, j \in DOMAIN seen : seen[i] = seen[j] => i = j

(* A staged document carries the identifier it is staged under, so a       *)
(* commit that fails can only fail on a vector index.                      *)
StagedKeyIsId ==
  \A i \in DOMAIN ops : ops[i].doc = Deleted \/ ops[i].doc.id = ops[i].id

(* A failed commit leaves every document as it was at begin().             *)
CommitAllOrNothing ==
  [][phase # "idle" /\ phase' = "idle" /\ reply'.call = "commit" /\ reply'.err # "ok"
       => docs' = snapshot]_allVars

(* The write a buffer o holds for each identifier: the last one, should an *)
(* identifier be there twice.                                              *)
StagedWrites(o) ==
  [id \in {o[i].id : i \in DOMAIN o} |->
     o[CHOOSE i \in DOMAIN o :
         /\ o[i].id = id
         /\ \A j \in DOMAIN o : j > i => o[j].id # id].doc]

(* The documents a caller sees: those of begin() while commit() runs.      *)
VisibleDocs == IF phase = "committing" THEN snapshot ELSE docs

Abstract ==
  INSTANCE AtomicBatch WITH
    Keys <- Ids,
    Items <- Docs,
    open <- phase # "idle",
    doomed <- err # "ok",
    failed <- reply.err # "ok",
    content <- VisibleDocs,
    staged <- StagedWrites(ops)

(* Seen from outside, commit() and its loop are one step: all of the batch *)
(* if it succeeds, whole writes of it if it stops at a vector index, and   *)
(* nothing from a batch that failed, was rolled back or dropped.           *)
ImplementsAtomicBatch == Abstract!Spec
=============================================================================
