# mooracer: a verification project

TLA+ models of [mooracer](../src/README.md), an in-memory document database: a
Rust engine, a TCP server around it, and clients for Rust and Python.  The
models are checked by TLC on small instances; the safety of the engine's storage,
of its indexes with their searches, of queries and aggregation, of the batch, of the
server's pool and its write commands, and of the client's connection is proved for
every instance with TLAPS.

## The system

| part | source | state | operations |
|---|---|---|---|
| collection | `engine/src/collection.rs` | document map, three maps of indexes; one identifier counter per process | inserts, updates, replacements, deletes, index management, `reindex` |
| atomic batch | `engine/src/collection.rs`, `Transaction` | buffered ops and their ids, failed flag and error | staged writes, `commit`, `rollback`, drop |
| field index | `engine/src/index.rs` | array of (value, `_id`), sorted | `insert`, `remove`, `load`, ranges |
| vector index | `engine/src/vector.rs` | id list, flat buffer of unit vectors | `insert`, `remove`, `search` |
| text index | `engine/src/text.rs` | parallel arrays per document, posting lists per stem, token total | `insert`, `remove`, `load`, `search` |
| query | `engine/src/query.rs` | none | matching, plan choice, sort/skip/limit |
| hybrid search | `engine/src/collection.rs` | none | fusion of a text and a vector ranking |
| aggregation | `engine/src/agg.rs` | none | group and eight functions |
| values | `engine/src/value.rs` | none | total order, dotted paths: read, set, remove |
| server | `server/src/lib.rs` | channel of connections, receiver's Mutex, `RwLock` around the collections | accept loop, workers, one handler per command |
| wire | `wire/` | none | tables and unions, their slots and defaults, a verifier with limits |
| clients | `client-rust/`, `client-python/` | one socket, a request counter, a receive buffer | one request at a time |

**How they interact.**  A client writes a frame; the worker serving its
connection decodes it, takes the store's lock (shared for a read command,
exclusive for a write), calls the engine, encodes the answer under the lock,
drops it and writes the frame.  Inside the engine every write path of a
collection maintains the document map and, field by field, each index layer; a
query asks a field index for candidates and verifies them against the documents.

**Where it is hard.**  In the engine there is no concurrency (`&mut self`), but
long histories: the layers must agree with the documents after any sequence of
writes, index creations and errors half-way, and the vector and text indexes
keep parallel arrays that removals permute.  In the server: workers that die by
panic, a lock that panics poison, connections that hold their worker, real-time
order of commands.  On the wire: a default that is not written must be the one
that is read, on four sides (two clients, two directions), and what one side may
send the other must accept.  In the clients: a response that arrives after its
request was given up, a frame half read.  In the values: path edits that create,
pad and shift on the way, and a comparison of integers with floats in bit
arithmetic.  `PROJECT.json` lists these at their lines under `hazards`.

## The modules

    Documents ── Collection ─┬─ Transaction ── refines ── AtomicBatch
                             └─ ServerCommands
    StdVec ─┬─ FieldIndex ── Query
            ├─ VectorIndex
            ├─ TextIndex
            ├─ Aggregation
            └─ ServerCommands
    Schema ── Wire
    Client ── refines ── RemoteCall
    ServerPool      Values

    StdVecProofs ─┬─ QueryProofs         (FieldIndex, Query)
                  ├─ VectorIndexProofs
                  ├─ TextIndexProofs
                  ├─ AggregationProofs
                  └─ CollectionProofs    (Collection, Transaction, ServerCommands)
    ClientProofs      ServerPoolProofs

`MC*` modules give the constants their values.  Operators commented `Fault:`
are faulty variants of the operator that follows them; no specification uses
them.  They are what each property was tried against: with the fault in place
the property is violated.

**Documents** (`normalize_doc`, `normalize_replace`, `validate_update`,
`apply_update`).  A document is `[id, body]`; a value is abstract, and the
constants say which are numbers, numeric arrays of which length, or text.  An
update specification has one operator per field and a shape: well formed,
rejected by `validate_update`, or only by `apply_update` (a bad `$unset`).

**Collection.**  Variables are the struct's fields plus `ID_COUNTER` and the last
reply.  Each public method is one action, since it holds `&mut self`.  A filter
is the set of documents it matches, since any set of stored documents can be
asked for by `_id`; "the first match" is any member, since a `HashMap` iterates
in any order.  All write paths end in `Write(gone, new)`: the common
deindex/index tail, one operator per layer.  `update_many` ends with what its
loop leaves behind at the first failing document: any set of the others
updated.  A field index is abstracted to its set of entries, a vector or text
index to the set of documents it covers.
The order inside an index is left to the modules of the three indexes, and with it
what `reindex` does beyond these sets: it rebuilds field and text indexes by a fresh
load (`Load` in FieldIndex and TextIndex), which restores a posting list that was out
of order, and leaves vector indexes as they are (`ReindexRealigns` below).

**Transaction.**  Extends Collection with the op buffer.  Staged calls resolve
against the documents as they are (the pre-batch store, since nothing writes
while a batch borrows it).  `commit` is modelled op by op, so that its early
return leaves a state of the model.  `phase` stands for where control is;
`snapshot` is a history variable.  **AtomicBatch** is the abstract promise: a
commit installs everything or is refused.  It has one outcome more than the
documentation, `CommitStopsShort`, because the code has.  `ImplementsAtomicBatch`
maps the whole loop to one abstract step.

**StdVec.**  `swap_remove`, `drain`, `position`, `partition_point`,
`binary_search_by_key` of the standard library, as the indexes call them.  The
binary search follows the library's loop, because the text index runs it on
unsorted lists.  `Ranked` is a sort by a total order, `Filtered` a filter that keeps
the order, and `BestFirst` the sort of scored hits, by score and
among equal scores by number: the position in the index, where the code's stable
sort leaves them so, or the `_id`, where the fusion compares it.

**FieldIndex / VectorIndex / TextIndex.**  The three layers down to their arrays.
`held` (or `docs`) is what documents hold, and the actions are the calls
Collection makes.  A history variable of the vector index (`shifted`) and of the
text index (`unsorted`) marks where the layout stops being exact.  Searches are
operators over the same arrays, so that a property can ask what a search would
return in each state.  In VectorIndex a vector is its unit vector (`Unit`), and
the reciprocal ranks of the fusion with a text ranking are counted in units in
which all of them are whole (`Reciprocal(r, n)` for ranks up to `n`), so that
equal scores are equal.  In TextIndex the logarithm of a weight is replaced by
`Weight`, which grows with the same arguments and, as the code's, is positive; a
search that would read past an array is told from one that answers.

**Query.**  Pure operators over FieldIndex's state.  A filter is a sequence of
entries as the filter object has them; an operator per function of `query.rs`.
The one that panics returns `Panic`.  `Criteria` are the filters asked and everything
inside them, and the code's recursion over a filter is a function on `Criteria`, which
`Nesting` makes well founded.

**Aggregation.**  One pass of `agg()`: the state is the (group key, value) pairs
collected so far, and the grouping, the eight functions and the group sort are
operators over it, so that every stream within the bound is a state.  Floats are
those that are integers, whose sums are exact; sum and mean keep the two
accumulators of `add_numeric`.  The stable sort of the pairs is `Ranked` by key and then
by position, which is what stable means.

**ServerPool.**  Accept loop, channel, receiver Mutex, workers, lock, clients.  The
store is the number of writes applied plus `torn`, a write abandoned by a panic;
a request is its kind, including the kinds that panic.  A worker's program
counter is `worker[w]`: idle, pulling (holding the Mutex in `recv`), reading,
want_read/want_write, holds_read/holds_write, replying, dead, exited.  When the
listener fails, `run` returns the error without joining the workers
(`server/src/lib.rs:455`), and `main` returns it: the process ends, wherever the
workers are, and connections are closed unserved, queued ones too.  `ListenerError`
is the first step and `Exit` the second.  Between them the workers go on, for an
instant in the binary, for good in a program that embeds the server.

**Values.**  The tree of `value.rs`, with `parse_path`, `get_path`, `set_path`,
`remove_path`, `eq` and `cmp`.  A caller parses texts, compares values and edits one
document, call after call; the history in `call` holds the document before the
edit.  The promises are stated without the code's scanner and recursion: the
grammar of a path, the leaves of a tree, the exact value of a number.  A comparison
may panic: `cmp_i64_f64` asserts that its float is finite, in builds with debug
assertions, and nothing checks that before it (`debug` is the build; the repository
builds both, `cargo test` the one, `--release` the other).  Where the order of values is
a parameter (Query, FieldIndex, Aggregation) it is taken as total: no integer meets an
infinity or a NaN in a debug build, or a NaN with its sign bit set in a release build.
ServerPool's `panic_read` and `panic_write` stand for the panic.

**Schema / Wire.**  Schema has the tables and enums of `generated.rs` field by field
and the two rules that matter of the library underneath: a scalar equal to its
default is not written, and a slot that is not there is read as the default; and
what the verifier refuses.  Wire takes one call through: the table a client
method writes, the verification and decoding in `process_request`, what each `do_`
function asks of the engine, how it wraps the outcome, and what the client
makes of the response.  `stage` says how far the call has come.  The engine's
outcome is any that the call may have.  Python's `None` for the filter of a query or a
delete goes out as an empty object, which every document matches, and Rust's `Null` as it
is, which none does (`engine/src/query.rs:663`): `Arguments` makes the difference.  `Foreign` requests are what another
peer could send.

**Client.**  `send_receive` / `_rpc` on one side of a connection,
`handle_connection` on the other, token by token: a frame is a length and its
pieces, and a reader at the wrong place takes the one for the other.  Timeouts,
panics, hang-ups and oversized frames may come between any two tokens.  `caller`
says which client it is, whether it has a timeout, and whether its user goes on
using a client after a failed call.  **RemoteCall** is what the user of a client
relies on; `ImplementsRemoteCall` is the refinement.

**ServerCommands.**  The write handlers on one collection, each a call of
Collection and the answer made of it, including the before/after diff that
recovers generated ids.  The code sorts those as strings; with their leading zeros that
is the order of the counter values they render (`InOrderDrawn`).

## What the runs show

Run any with `tlc -config X.cfg MODULE`.  All of them visit every reachable state
within their constants.

| run | instance | shows |
|---|---|---|
| Collection | one field holding a number, a vector or text; three ids, two of them the generator's; batches of two | layers in lockstep, keys are ids, failed calls change nothing (`update_many` excepted), no write slips past a vector index |
| Transaction | two ids, one generated; batches of two; the values without text | buffer consistent, lockstep at every iteration of the commit loop, refinement of AtomicBatch |
| VectorIndex | four documents, two vectors, four queries in fifths, every text ranking of a few | covers the right documents; buffer packed, vectors whole; searches exact until a remove shifts vectors; a document ranked better by both searches is never fused below |
| TextIndex | three documents, two stems, texts of at most two tokens, posting lists of at most three entries | per-document arrays and total exact; searches return what a fresh index returns, in that order, as long as no list has been unsorted |
| Query | two fields, three documents, three values, one an array of the others and of an object; a few hundred filters in each state, filters on elements among them | arrays equal a fresh load; an index-driven plan returns what a scan returns, in index order; both sort paths agree under skip and limit |
| Aggregation | streams of up to four documents, three groups, one keyed by both `1` and `1.0`; integers, floats, text and missing values; `i64` up to 3 | groups exact, in key order and stream order within; sums and means exact unless the float accumulator is seeded twice; sort and limit of groups deterministic |
| ServerPool | two workers, two clients, two requests and one connection each, all kinds | real-time order, no torn answers, no leaked lock; connections and requests get served, or end with the process, unless idle clients keep every worker that is left |
| ServerCommands | three ids, batches of three | inserted ids are the stored ones, counts are what happened |
| Wire | every method of both clients with a few arguments each, nine requests of other peers; five levels and twelve tables instead of 64 and 1 000 000 | the engine is asked what the method stands for, the caller is told what the engine answered, and other peers get the right status |
| Client | four calls, frames of one or two pieces or over the limit of four; both clients, with and without a timeout, dropped after a failure | a connection in use holds no leftovers; the refinement of RemoteCall; every call returns |
| Values | every text of up to seven of the characters `.[]a`; every history of edits at paths of up to three tokens, on documents of up to four nodes; all pairs of numbers of 4 bits (integers) and 7 bits (floats), triples of 27 values of every kind | paths read as the grammar says; `set_path` and `remove_path` change what they name and nothing else; in builds with and without debug assertions the order is total, exact on numbers, and agrees with equality, but for the two disagreements below; a comparison panics only in the one build and on an integer against a float that is not finite |

**Why these bounds.**  Collection: one field is enough for one write to touch all
three layers, because the layers are independent of each other and of other
fields; three ids allow a matched set where some fail and some do not, and an
explicit id that collides with a generated one (`MaxId = 2`).  Transaction: two
ops are enough for a commit that stops between them, and for overwriting one of
two staged.  VectorIndex: three documents are the least where a removal shifts
others, a fourth lets a second removal follow.  TextIndex: three documents are
enough to unsort a list.  `MaxPostings` bounds `Put`: without it stale postings
make lists grow for ever.  Query: three documents allow ties and their breaking,
and a range with something on both sides.  Aggregation: four
documents allow an integer, two floats that cancel and a third (the seeding
fault), and `MaxI64 = 3` an overflow; the pass ends at `MaxStream`, hence
`CHECK_DEADLOCK FALSE`.  ServerPool: two workers are enough
for one to die holding the lock while another waits; `MaxRequests` and
`MaxConnects` make the system finite, and stopping when clients are done is
not a deadlock (`CHECK_DEADLOCK FALSE`).  Wire: with `MaxDepth = 5` one of the
documents just passes as part of a request and one does not, with
`MaxTables = 12` some answers are over the limit; `IdSpace = 2` lets request
identifiers wrap.  Client: a frame of one piece can be
read as part of another of two, four calls leave two after a first failure, and
an oversized frame is one piece past `MaxFrame`; a connection ends after `MaxCalls`
(`CHECK_DEADLOCK FALSE`).  Values: seven characters hold `a[a]a.a`, the shortest
text with a bare word after a bracket and before a dot; indices reach past
`MaxIndex`; `Width`, `FracBits` and `ExpBits` keep all cases of the code's shifts apart: floats between
the integers, above them all, and too large or small for the shift.  Edits stop
when the document has more than `MaxNodes` nodes, and the caller may stop
(`CHECK_DEADLOCK FALSE`).

**Fairness** (ServerPool and Client).  In ServerPool, weak fairness of each worker:
an OS thread that
can run eventually does.  `Lock` needs no more: with finitely many requests a
waiting worker's lock is eventually free for good.  This holds while the process does:
`Exit` stops the workers and disables them, and no fairness forces it.  Of clients
nothing is assumed.  The code has no timeouts, so a worker stays with a silent client
for ever, and as many of those as there are workers keep all others waiting; that is a
hazard, and the exception that `EveryConnectionServed` and `EveryRequestAnswered` name
(`Busy`), which also covers a pool whose workers panicking requests have killed.  What they
exclude is that anything less does it: a connection waiting beside an idle worker, or
a request, once read, held up by the lock, its poison or another worker's panic.  A
connection may end unserved when the process exits.
In Client, weak fairness of the client's blocking call and of the worker that
has taken the connection: both are loops of reads and writes that go on while
they can.  `Call`, `Close`, `Timeout` and `Panic` have none, so `CallReturns` holds
without a timeout as well.

### Where the code and its documentation part

`TextSearchPanic` is a run that finds the documented property violated: removals
unsort a posting list, a posting outlives its document, and a search indexes out
of bounds.  The others are to be run by hand (`tlc -config X.cfg MODULE`), each a
cfg that ends with its property violated; those listed twice check two
properties, and show both violated with `tlc -continue`.  `PROJECT.json` has all the quotes under `findings`.

| cfg, module | property | what happens |
|---|---|---|
| UpdateManyPartial, MCCollection | `UpdateManyAllOrNothing` | `update_many` fails at one document, those before it stay updated |
| CommitPartial, MCTransaction | `CommitAllOrNothing` | a commit fails at a vector-indexed field, the ops before it stay applied |
| VectorFindings, MCVectorIndex | `ReindexRealigns` | removals misalign ids and floats, `reindex` leaves vector indexes alone |
| VectorFindings, MCVectorIndex | `TiesById` | equal scores come in the order of the index, not by `_id` |
| SumMiscounts, MCAggregation | `SumIsTotal` | the float accumulator returns to zero, and the next float adds the group's integers a second time |
| QueryFindings, MCQuery | `NeverPanics` | `{$gt: 2, $lt: 1}` on an indexed field panics |
| QueryFindings, MCQuery | `NullMatchesMissing` | the direct value `null` does not match a missing field |
| ValuesFindings, MCValues | `NaNIsLast` | a NaN with its sign bit set orders before every integer |
| ValuesFindings, MCValues | `FiniteAsserted` | in a debug build an integer compared with an infinity or a NaN panics |
| UpdateOneMany, MCServerCommands | `UpdateOneTouchesOne` | `do_update` ignores `many`, an `update_one` over the wire changes every match |
| WireFindings, MCWire | `FirstIgnoresPaging` | the Python `Query.first` sends the chain's skip, and is answered the document after it |
| WireFindings, MCWire | `AcceptedIsReadable` | a document the server has accepted comes back in an answer past the reader's limits |
| StaleAnswer, MCClient | `OwnAnswer` | a Python client used again after a timeout is given the answer to the call before |
| LostFrame, MCClient | `CallReturns` | a Rust client used again after an oversized answer reads its payload as a length, and waits for ever |
| OneBadClient, ServerPool | `PoolSurvives` | requests that panic kill one worker each until none is left |

`remove_path` has no cfg: `RemoveIsExact` states the code's answer, `Ok(false)`, for an
array index equal to the length, which its comment (`engine/src/value.rs:500-501`) calls an
error.

## What is proved

`tlapm M.tla` checks module `M`.  Each theorem holds for every value of the
constants that satisfies the assumptions named with it; nothing is assumed of the
number of documents, fields, workers, clients or calls.  `PROJECT.json` lists the
theorems under `theorems`.  Most proofs have one shape: an inductive
invariant, one lemma per call or per part of the invariant, and the properties as
its consequences.

**CollectionProofs**, from `IdAssumption` (the generator renders counter values
injectively into strings a client could also send), `ValueAssumption` (what the
abstract values are: `Plus` is total on numbers, `Null` is a value, `Missing` is
not) and `InputAssumption` (the types of inputs).

- `TypeCorrect`, `KeysAreIds`, `LayersInLockstep`: `[]TypeOK`, `[]KeyIsId`, `[]Lockstep`.
- `FailuresChangeNothing`, `VectorsGuarded`: the action properties
  `FailedCallChangesNothing`, `WritesRespectVectors`.

The invariant is `IInv`: documents well typed and keyed by their own ids, each layer
well typed and equal to what the documents determine, the counter in range.  The
parts need each other.  Lockstep alone is not inductive: that a write takes out a
document's old entries is only visible if those entries are in the index, and that
the new document's entries go in under its key needs `KeyIsId` of what is written;
that `normalize_doc`'s result has an identifier among `Ids` needs the counter's range.
`WriteKeepsStore` is the core: `Write(gone, new)` keeps `IInv` if everything it
overwrites is in `gone` and `new` is keyed by its own ids (`Installable`).  Each call's
lemma then shows that it meets that: `StagedDocsInstallable` for `insert_many` (no
staged id is stored or staged twice), `UpdatedInstallable` for `update_many`,
including the part of it that a failing call leaves behind.

With `DeletedAssumption` (the mark of a staged removal is no document), for a batch:

- `TxTypeCorrect`, `BufferAligned`, `StagedUnderOwnId`, `TxLayersInLockstep`,
  `TxVectorsGuarded`: types, `OpsAligned`, `StagedKeyIsId`, and `Lockstep` and
  `WritesRespectVectors` at every iteration of the commit loop.
- `BatchRefines`: the specification implements AtomicBatch under the refinement
  mapping that the run checks.

`TxInv` adds to `IInv` the shape of the buffer and `Replayed`: while the loop runs,
the documents are those of `begin()` with the ops before `pos` applied.  The last is
what the refinement needs, since the abstract step happens at once when the loop
ends, and must find what all iterations together have done.

And for the server's write commands:

- `AnswersCount` (`CountsAreTrue`): an answer counts what its command did.
- `InsertsAnswerIds` (`InsertAnswersStoredIds`): the ids an insert answers with are,
  position by position, those its documents are stored under.

A command is a call of the collection (`CommandIsCall`), so `IInv` holds, and each lemma
compares the answer with what that call wrote.  For an insert, `StagedBatch` says that
the ids are apart and none was stored; so what is new and not named by the request is
what the counter drew for this batch (`GeneratedAreDrawn`, where `DrawnByAll` says that no
number is skipped), and since the sort gives back the order of drawing (`DrawnRanked`),
the n-th generated id belongs to the n-th document without one.  A client that sends
an id the generator might render breaks none of this, except by a duplicate.

**ServerPoolProofs**, from `PoolAssumption` (no worker or client is called `None`; the
request kinds are known ones).

- `PoolTypeCorrect`, `LockDiscipline` (`LockHeldByRunning`), `HalfWritesStayHidden`
  (`NoTornAnswer`), `AnswersInRealTime` (`RealTimeOrder`).

None of them is inductive.  `PoolInv` follows a request from the queue to its answer:
a connection is in one place, a worker runs the request it read, the lock is held
by those whose program counter says so, a half-made write has poisoned the lock, and
the versions of the store, of results not yet sent and of answers given are in order.
Real-time order needs the floor of a request (what had been answered when it was sent)
to be at most the version at which the lock is taken.

**ClientProofs**, from `ClientAssumption` (a frame has at least one piece and the limit
admits it).

- `NothingLeftOver`: `[]NoLeftovers`, for all clients.
- `AnswersAreOwn` and `RemoteCallRefined` (`ImplementsRemoteCall`): under the hypothesis
  that callers drop a client after a failed call.  Without it both are false, and
  StaleAnswer and LostFrame show how.

Nothing in a stream tells a length from a piece, so `InStep` speaks of both streams at
once: what was written and not yet read, followed by what is still to write, is what
is left of one frame, and the reader's state says which part of it.  After a failure
the rest of the request never comes, which is why the invariant has a lost part.

**StdVecProofs** has the facts about arrays that the indexes share.  The library's
theorems for induction take a predicate, which the provers cannot instantiate;
`Induction` states it with a set of numbers in its place, from the least element of a
set, and everything below rests on that.  That a recursive function of the models is
defined is proved by showing that a function with its equations exists.

- `BinarySearchFinds`: the binary search stays in bounds on any slice, returns only a
  position that holds the key, and finds the key of a sorted slice that has it.
- `BestFirstOrders`: the sort of scored hits is a permutation in which each stands
  after exactly those that beat it.
- `RankedOrders`: a sort by a total order lists each element once and in order; by
  `OrderedUnique` it is the only list that does.

**QueryProofs**, from `RankAssumption` (values and ids are numbered in their order,
`Null` first), `CriteriaAssumption` (a filter is a finite tree whose operands have the
types their constructors say) and `QueryAssumption` (no field is called `$and`, and the
marks for a panic and an unbounded side are apart from data).

- `FieldTypeCorrect`, `FieldIndexIsFreshLoad` (`IndexIsFreshLoad`).
- `QueryPlanMatchesScan` (`PlanMatchesScan`), `QueryIndexOrder` (`IndexOrder`),
  `QuerySortAgrees` (`SortAgrees`), for filters of any nesting.

A sorted array is determined by the set of its entries (`SortedIsUnique`), because the
order is total and no entry occurs twice.  So `FieldInv` says that arrays are sorted and
have the documents' entries, and `insert` and `remove` are shown to find their place.

The three of a query are consequences of `FieldInv`, with no invariant of their own.  A
document that matches a filter meets each of its conjuncts (`ConjunctsRequired`, by
induction on nesting), hence the one that drives the plan, so that its value lies in one
of the driver's ranges (`MatchInRange`).  A range fetches exactly the entries whose values
lie in it (`RangeFetched`), and the ranges of an `$in` list ascend and are disjoint, so
each match is fetched once and in index order (`DriverStream`); the filter drops the rest.
For the sorts, the walk of the index and the sort of the collected matches are both lists
of the matches in one total order, of which there is only one (`OrderedUnique`);
`EmittedIsSliced` shows that handing out documents one by one, with skip, limit and the
caller's own stop, is cutting a slice of that list.

**VectorIndexProofs**, from `DimAssumption` (`dim` is positive) and `SearchAssumption`
(coordinates are integers, a text ranking names no document twice).

- `VectorTypeCorrect`, `VectorIdsExact` (`IdsExact`), `VectorSlotsWhole` (`SlotsWhole`),
  `VectorAlignedUntilShift`: after any history the ids are those of the documents that
  hold a vector and the buffer is whole vectors of documents; each in its own place as
  long as no removal has taken a position before the last two.
- `VectorSearchExact` (`SearchExactUntilShift`): until then a search returns every
  document with the score of its vector, best first.
- `HybridSearchFair` (`FusionRespectsBoth`): the fusion lists what either search found,
  and never puts a document below one that a search ranks worse and none ranks better;
  a swap of two ranks between the searches is a tie, broken by `_id`.

`IndexInv` speaks of slots: `DrainedSlots` shows that a drain of `dim` floats at
`(p - 1) * dim` takes slot `p` out whole and moves the later ones down by one, while
`swap_remove` moves the last id, which is the whole misalignment.  The fusion rests on
`ReciprocalFalls`, a better rank earns strictly more, for any number of hits.

**TextIndexProofs**, from `TextAssumption` (finitely many stems, frequencies are
naturals).

- `TextTypeCorrect`, `TextArraysParallel` (`ArraysParallel`): however the posting lists
  are, the per-document arrays agree with the texts, and the token total is their sum,
  so that its subtraction never wraps.
- `TextExactWhileSorted`, `TextSearchExact` (`SearchExactWhileSorted`): unless a list has
  been out of order since the last build, the lists have exactly the entries of the texts,
  and a search panics never and returns what the texts determine.

`TextInv` needs sortedness and exactness of the lists together.  A removal drops its
document's entry (`DropExact`) and then repoints that of the document moved by
`swap_remove` (`RepointExact`); both are found by binary search, which is sure to find
them in a sorted list only.  Repointing can itself unsort the list, from where on
nothing is claimed of it until the next build.  `ScoreIs` then says that the sum over a
list is the document's weight, since one entry of the list names it.

**AggregationProofs**, from `AggAssumption` (keys and fields are values, `Missing` is
none).

- `AggregationGroups` (`GroupsExact`): the groups are the classes of the stream by key, in
  key order, each in stream order.
- `AggregationSums` (`SumExactUnlessReseeded`): sums and means are exact unless a float
  finds the float accumulator back at zero, and a sum is an integer unless a float takes
  part or it does not fit `i64`.
- `AggregationOrder` (`GroupOrder`): the sort of groups does not depend on the order they
  were in, descending is its reverse, and extremes are extremes.

The invariant is only that the state is a stream of pairs; the work is in the operators.
The sort is a permutation of the positions, ascending by key and within a key by position
(`SortedByKey`).  A run of equal keys is then an ascending list of all the places of a
key, and there is one such list (`RunsAreClasses`).  A running total stands beside the two
accumulators, and `RunAgrees` shows by induction over the run that they agree until the
second seeding, with the overflow into 128 bits among the cases.  The groups have distinct
keys (`GroupDocsApart`), so their order is strict and total, and a list in it is unique.

## What is only model-checked

- Liveness: `EveryConnectionServed` and `EveryRequestAnswered` of ServerPool,
  `CallReturns` of Client.  The prover has neither fairness nor ENABLED.
- Values, Wire and Schema: trees, tables and documents nest, and these modules follow
  the code with recursive operators, which the prover does not take.  The comparison of
  integers with floats in Values also needs powers of two, for which the provers have no
  theory.
- The cfgs of the table above, which are counterexamples.

## What is not modelled

- The tokenizer and the Porter stemmer: string rewriting by suffix tables, without
  state.  A text is the frequencies of its stems.
- Rounding: floats are exact wherever they are added or multiplied, and the
  logarithm in BM25 is any growing weight.
- Byte layout on the wire, which is the FlatBuffers library's.
- Dotted paths inside Collection's updates; they are in Values.  (Filters have none.)
- Display of values, conversions from Rust types, memory accounting of `stats`, and the
  Python client's conversion of Python objects.
- A panic in the middle of a write is modelled in ServerPool (`torn`), not in
  Collection.
- The benchmark and the examples, which drive the code above.

## What is left

1. FieldIndex, VectorIndex and TextIndex as refinements of the layers of Collection.  The
   sets that `IndexIsFreshLoad`, `IdsExact` and `ArraysParallel` determine are the ones
   `Lockstep` speaks of; that is argued here and not stated in a module.
2. `PathGrammar`, `SetStaysOnPath` and `RemoveIsExact` of Values as theorems, with trees as
   functions on a set of nodes, as `Query` has its criteria.
3. Panics inside a write path of Collection, so that `torn` of ServerPool could be mapped to
   a state of the layers.
