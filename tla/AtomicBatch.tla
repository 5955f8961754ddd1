---------------------------- MODULE AtomicBatch -----------------------------
(***************************************************************************)
(* What an atomic batch gives its caller.  Writes are staged per           *)
(* identifier, the last one on an identifier winning.  A commit that       *)
(* succeeds installs all of them in one step; a batch that failed, or is   *)
(* rolled back or dropped, leaves the store as it was.  Nothing else       *)
(* touches the collection while a batch is open, since it borrows it       *)
(* mutably.                                                                *)
(*                                                                         *)
(* spec.md ("Atomic batch") has no CommitStopsShort: with it, this is what *)
(* the code gives, a commit that fails after it has installed some of the  *)
(* writes.  Each of them is still installed whole or not at all.           *)
(***************************************************************************)
CONSTANTS
  Keys,     \* identifiers
  Items,    \* documents
  Deleted   \* a staged delete

VARIABLES
  open,     \* a batch is open
  doomed,   \* a staged call of the open batch failed
  content,  \* identifier -> document
  staged,   \* identifier -> staged document or Deleted
  failed    \* the last call of the collection or of a batch reported an error

vars == <<open, doomed, content, staged, failed>>

Nothing == [k \in {} |-> Deleted]

Stores == UNION {[ks -> Items] : ks \in SUBSET Keys}

Stages == UNION {[ks -> Items \cup {Deleted}] : ks \in SUBSET Keys}

(* The store with the staged writes on `ids` applied.                      *)
Applied(ids) ==
  LET puts == {k \in ids : staged[k] # Deleted}
  IN  [k \in (DOMAIN content \ ids) \cup puts |->
         IF k \in puts THEN staged[k] ELSE content[k]]

(* A call on the collection itself, outside any batch.                     *)
DirectWrite ==
  /\ ~open
  /\ content' \in Stores
  /\ failed' \in BOOLEAN
  /\ UNCHANGED <<open, doomed, staged>>

Begin == ~open /\ open' = TRUE /\ UNCHANGED <<doomed, content, staged, failed>>

(* A staged call adds or overrides writes, and may fail; the store is left *)
(* alone either way.                                                       *)
Stage ==
  /\ open /\ ~doomed
  /\ staged' \in Stages
  /\ DOMAIN staged \subseteq DOMAIN staged'
  /\ doomed' \in BOOLEAN /\ failed' = doomed'
  /\ UNCHANGED <<open, content>>

Close == open /\ open' = FALSE /\ doomed' = FALSE /\ staged' = Nothing

(* Only a batch none of whose calls failed is applied, all of it at once.  *)
Commit ==
  /\ Close /\ ~doomed
  /\ content' = Applied(DOMAIN staged) /\ failed' = FALSE

CommitStopsShort ==
  /\ Close /\ ~doomed
  /\ \E ids \in SUBSET DOMAIN staged : ids # DOMAIN staged /\ content' = Applied(ids)
  /\ failed' = TRUE

(* The commit of a failed batch reports its error.                         *)
CommitRefused == Close /\ doomed /\ failed' = TRUE /\ UNCHANGED content

(* A rollback, or a drop.                                                  *)
Abandon == Close /\ UNCHANGED <<content, failed>>

Init ==
  /\ open = FALSE /\ doomed = FALSE /\ failed = FALSE
  /\ content = Nothing /\ staged = Nothing

Next ==
  \/ DirectWrite \/ Begin \/ Stage
  \/ Commit \/ CommitStopsShort \/ CommitRefused \/ Abandon

Spec == Init /\ [][Next]_vars
=============================================================================
