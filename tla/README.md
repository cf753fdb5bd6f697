# TLA+ models of etre

This directory holds TLA+ models of the parts of etre whose code is in
`src/`. It also holds the TLC configurations that model-check them on small
instances and the TLAPS proofs about them. `PROJECT.json` lists the
following, in machine-readable form:

- the components;
- the runs, the mutants and the findings;
- the hazards and the theorems;
- the map from each TLA+ definition to the source lines it models.

## The system and its parts

spec.md describes etre as a single-process service with these parts:

- a query parser;
- the **schema manager**;
- a CDC store and a CDC broadcast server;
- the entity store;
- the auth manager and an HTTP API.

Only some of that code is in this repository's `src/`:

| Source | What it is | Model |
|---|---|---|
| `src/unnamed/part_000` | package `schema`: `CreateOrUpdateMongoSchema` and the index, drop and validator helpers | `SchemaDDL`; `indexName`, `toBSONIndex` and `createIndex`'s checks in `IndexName` |
| `src/schema/config.go` | the schema config types | `SchemaDDL` (`SchemaRec`, `Config`), `IndexName` (`Index`) |
| `src/server/server.go` | `Boot`, `Run`, `Stop`, `connectToDatasource`, `runSchemaDDL` | `SchemaDDL` (retries), `ServerRun` |
| `src/entity_client.go` | HTTP client library | `EntityClient`, proved in `EntityClient_proofs` |
| `src/test/...`, `*_test.go`, `part_001`, `part_002` | tests and test doubles | read for the intended behaviour |

The parts interact as follows:

- `Boot` calls `runSchemaDDL` once, before serving.
  - `runSchemaDDL` calls `CreateOrUpdateMongoSchema` up to five times, with a 2-4 s sleep between tries.
  - Every etre instance that boots does this against the same DocumentDB database. Several instances booting at once (a deploy) run the reconciler concurrently.
  - DocumentDB allows only one index build or drop per collection at a time. A `CreateOne` that meets another build fails with "Existing index build in progress".
- `Run` starts one ping goroutine per datasource and waits on their done channels and on `stopChan`. It then starts the change stream server and the API.
- Programs that use etre call its API through `entity_client.go`. One `entityClient` is safe for use by several goroutines. Each method checks its arguments and sends one HTTP request to the API, whose entity store (spec.md §4.E) applies it.

## Modules

### `SchemaDDL`: the reconciler, over several instances

**State.** The state of the database is kept per collection:

- `idx`: the finished indexes;
- `building`: the index being built, or `NoBuild`;
- `coll`: whether the collection exists;
- `validator`: its current validator.

The state of each instance `p` is:

- `pc[p]`: where it is in the code;
- `tries[p]`: the tries of `runSchemaDDL`;
- `todo[p]`: the entity types left in the current call. This is Go's map iteration, in an arbitrary order.
- `cur[p]` and `pos[p]`: the entity type, and the Index in its list;
- `created[p]`: the `createdIndexes` map;
- `toDrop[p]`: the listed indexes still to inspect.

`faults` counts the transient database errors, up to `MaxFaults`.

**Actions.** Each action is one database call of the code together with the control flow around it:

- `DisableValidation`: `Schema == nil`, then `collMod`. A missing collection fails.
- `StartIndexes`: the empty-list check.
- `RejectIndex`: `createIndex`'s up-front checks fail.
- `BuildInProgress`: the `break` at part_000:110.
- `IndexExists`: `CreateOne` of an index that already exists.
- `StartBuild`: `CreateOne` of a new index. It creates the collection and its `_id_` index if needed. DocumentDB builds indexes in the background (src/schema/README.md:144-146, the comment at server.go:258). So `CreateOne` either waits for the build or returns the name at once while the build goes on.
- `FinishBuild`: the build a `CreateOne` waits for ends, or fails and is aborted.
- `BackgroundBuildEnds`: a database action. A build that no `CreateOne` waits for ends. Either the index is added, or the build fails. A unique index over duplicate keys fails this way after `CreateOne` has already returned its name.
- `ListIndexes`: `existingIndexes`. A build in progress may be listed.
- `DropIndex`: `DropOne`. "Index not found" is ignored, and DocumentDB refuses the drop during another build.
- `UpdateValidation`: `updateMongoJSONValidation`.
- `Succeed`: the call returns nil.

Every error return goes through `FailTry`. It counts the try, and either starts the call over from the first entity type or gives up after `DDLTries`.

**Data abstraction.**

- An Index is represented by the name `indexName` gives it.
- A validator is an opaque value. The exception is `BadValidator`, which stands for `BSONSchemaValidator` failing or for an invalid `validation_level`.
- An Index rejected by `createIndex`'s checks is `BadIndex`.
- A drop is one atomic step. src/schema/README.md:142 says a drop also occupies the collection's one build slot. The model instead lets a drop be refused during a build, but never lets a `CreateOne` meet a drop in progress.
- System indexes are the names beginning with `_`.

### `ServerRun`: `Run`'s wait for the databases, and `Stop`

**State.**

- `conn[d]`: the ping goroutine of datasource `d` is pinging or has returned (and closed its done channel).
- `waiting[d]`: Run's select still has `d`'s channel, which is not yet nil.
- `stopped`: `stopChan` is closed.
- `run`: `Run` is waiting, serving or has returned.
- `dbUp` and `pinged` are the environment and what the pings saw.

**Actions.** Go's `select` chooses at random among the ready cases. The model therefore lets `ReceiveDone(d)` and `ReceiveStop` both be enabled. The notify timer only logs, so it is left out.

### `IndexName`: the name and key document of an Index

`IndexName` translates the following pure functions with TLA+ strings, so that two names are equal exactly when the Go strings are:

- `indexName`: `fmt.Sprintf`, `strings.Join` with `"_"`, `strconv.Itoa`;
- `toBSONIndex`;
- `createIndex`'s checks (`IndexValid`).

`JoinUnderscore` is `strings.Join`, written with `FoldLeft`. `IndexModel` is what the database keeps apart: the key document and the options. The only state is a pair of valid Index definitions chosen in `Init`.

### `EntityClient`: the client library against the entity store

**Client state**, per goroutine `c` sharing one client:

- `cst[c]`: the call is idle, its request sent, being served, answered, or hung for ever in `http.Client.Do`;
- `req[c]`: the request, abstracted to the method, the query, the entity list, the id, the label, and whether the method is a `*One` method that returns `wr[0]`;
- `resp[c]`: the HTTP status and the ids of the write results. Status 0 stands for an error of `c.do`.
- `ret[c]`: what the call returned: success with ids, an error, or a panic.

**Store state**, spec-modelled from spec.md §4.E, because its code is not under `src/`:

- `live`: the stored entities;
- `lbl`: their labels. One of them, `UniqueLabel`, is under a unique index.
- `used`: the ids assigned so far;
- `work[c]` and `res[c]`: the entities of an insert not yet inserted, and the ids written so far for `c`'s request.

**Client actions.**

- One action per method: `Insert`, `Update`, `UpdateOne`, `Delete`, `DeleteOne`, `Labels`, `DeleteLabel`, `Query`. Each runs the method's checks (`InsertRefused`, `UpdateRefused`, the empty id, label and query), then either returns the error (`Refuse`) or sends the request (`Send`).
- `Receive` is `write`'s and `Labels`/`Query`'s handling of the answer:
  - `do`'s error;
  - a status outside `OkStatus` goes to `apiError`;
  - otherwise the decoded ids, and `wr[0]` for the `*One` methods.
- `LoseRequest` and `LoseResponse` are the two failure points of `do`: the request is lost before the server saw it, or the answer is lost after the server applied the request. In both, `LoseExchange` either makes `Do` return an error or leaves the call hung. `do` sets no timeout, so the call returns only if the caller's `http.Client` has a `Timeout`.

**Server actions.**

- `Accept` answers the one-step requests:
  - an update whose patch sets a meta-label is rejected with 400;
  - labels and delete-label of a missing entity get 404;
  - labels, delete-label and query otherwise get 200.
- `ServeInsert` inserts an insert batch one entity at a time. A duplicate on the unique label stops it with 409 and the ids written so far.
- `ServeDelete` deletes one matching entity at a time, and answers 200 when none is left. Concurrent requests therefore interleave between entities.

The store's find-one-and-update loop is not modelled. Every patch the client can send carries `_id` and is rejected first (see the divergence after the findings).

### MC modules

`MCSchemaDDL` and `MCServerRun` give the constants their values for TLC:

- model values for instances, entities, index names and datasources;
- `e1`, which has a schema `<<A, B>>`;
- `e2`, which has no schema;
- for the bad-config run, entity types with an invalid Index, an empty index list and an unbuildable validator;
- leftovers `A` (a declared index) and `O` (an obsolete one), which can exist at boot.

`MCEntityClient` has two goroutines, six ids (two stored), a label `U` under the unique index and a label `L`. Its insert batches include an entity with `_id` set, an entity of another type, a single `U` entity, and an `L` entity followed by a `U` entity, which fails part-way. `MCIndexName` has the keys `host`, `name` and `host_name`, and the directions 1, -1 and 0.

`Init` lets a collection start in any state an existing deployment can present. It either does not exist, or it exists with `_id_` and any subset of the leftovers.

## Runs

| Run | Checks | Result |
|---|---|---|
| `schema_safety` | `TypeOK`, `ReconciledOnSuccess` | pass |
| `schema_live` | `Termination` under fairness | pass |
| `schema_badconfig` | `ReconcileOnlyValid` | **violation** |
| `schema_declared` | `DeclaredOnSuccess` | **violation** |
| `schema_dropped` | `DeclaredNeverDropped` | **violation** |
| `server_live` | `WaitLoopExits` under fairness | pass |
| `server_connected` | `ServeOnlyWhenConnected` | **violation** |
| `client_ok` | `TypeOK` | pass |
| `client_panic` | `NoIndexPanic` | **violation** |
| `client_partial` | `PartialWritesReported` | **violation** |
| `index_name_unique` | `IndexNameUnique` | **violation** |

**`ReconciledOnSuccess`.** Once an instance's `runSchemaDDL` returns nil, two things hold, whatever the other instance is doing:

- no collection with a schema holds a non-system index the schema does not declare;
- every validator is the configured one.

This holds because an instance that returns nil has just listed and dropped the undeclared indexes of every collection. Other instances, and the background builds, only ever add declared or system indexes and only ever write the configured validator.

**`ReconcileOnlyValid`.** An entity type leaves `todo` only when its schema is valid: it has indexes, `createIndex` accepts all of them, and a validator can be built. This is spec.md §2's rule that an index must declare 1-30 keys. The run finds it violated (finding 7).

**`Termination`.** Every instance eventually returns, either with success or after its last try.

**`WaitLoopExits`.** `Run` leaves the wait loop once it has a reason to: both datasources answer, or the server was stopped.

**`TypeOK` of the client.** Besides the shapes of the store and the answers, it says that every request sent carries a well-formed query and id. The `*One` methods, `Labels` and `DeleteLabel` refuse an empty id, so no request ever carries `_id=`.

Two properties of earlier versions are not stated:

- **That a successful call returns the ids written for it.** The client keeps no state across calls. What a caller sees is fixed by the status check at entity_client.go:245, which reading that line shows.
- **That every call returns.** `do` sets no timeout. Whether a lost request or answer ends the call depends on the `http.Client` the caller passes to `NewEntityClient`. Neither the code nor spec.md promises it. The model keeps the hang (`LoseExchange`).

### Findings

1. **`DeclaredOnSuccess` is violated.** An instance that meets a build in progress takes the `break` at part_000:110. The build can be another instance's, or the instance's own background build of the previous index. It goes on to the drops and the validator, and reports success with declared indexes never created. The doc comment of `CreateOrUpdateMongoSchema` promises that the schema's indexes exist.
2. **`DeclaredNeverDropped` is violated.** After that break, `createdIndexes` is incomplete, so the drop loop (part_000:130-149) drops a declared index that the other instance has finished building in the meantime. The unique index of a schema can be lost this way. Spec §4.B says that after "build in progress" the code must make no further index mutations on that collection.
3. **`ServeOnlyWhenConnected` is violated.**
   - `connectToDatasource` closes its done channel in a `defer` also when it returns because of `Stop`.
   - `Run`'s select may then take both done channels instead of `stopChan`.
   - It leaves `DB_CONN_WAIT` and starts the change stream server and the API, although no database has answered.
4. **`NoIndexPanic` is violated** (entity_client.go:181, also 162 and 216).
   - `DeleteOne` of an id that matches nothing gets 200 with an empty list of write results. The id may already be gone, or another goroutine's `Delete` may have removed it in between.
   - `wr[0]` then panics with index out of range. `UpdateOne` and `DeleteLabel` index `wr[0]` the same way.
5. **`PartialWritesReported` is violated** (entity_client.go:245).
   - An insert of `[L-entity, U-entity]`, while an entity with `U` exists, writes the first entity and gets 409 with its id.
   - `write` returns only `apiError`, so the caller never learns that an entity was created.
   - spec.md §7 says store errors come back with the partial-success data.
6. **`IndexNameUnique` is violated** (part_000:207).
   - Keys `[host_name]` and keys `[host, name]` both get the name `SL_host_name`.
   - `createdIndexes` and the drop loop compare names only.
   - `CreateOne` of the second definition meets an index of that name with another key pattern. It fails on every try, or the index is dropped as obsolete.
7. **`ReconcileOnlyValid` is violated** (part_000:110). `createIndex` checks an Index only when the creation loop reaches it.
   - The run uses two instances, and e1's schema is `<<A, BadIndex>>`.
   - p2 starts building `A`. p1 meets that build at `A` and breaks out of the loop before `BadIndex` is ever checked.
   - p1 then drops, sets the validator and counts e1 as reconciled. Boot can succeed with a config that spec.md §2 calls invalid.

A further divergence is visible in the model without a run of its own. `Update` refuses a patch without `_id` (entity_client.go:144), but the entity store of spec.md §4.E rejects a patch that sets a meta-label with 400. So `Accept`'s 400 branch is the only answer an `Update` or `UpdateOne` can get. The contradiction is in one step between two rules, so no run is spent on it.

### Bounds

The schema runs use two instances, which is the least that can race. Each instance works on two entity types, one with a schema of two indexes and one without a schema. These bounds reach:

- a build met by the second instance;
- a leftover to drop and a declared leftover to keep;
- an index listed while its build is still running;
- an aborted build.

`DDLTries` is 3, or 2 in the liveness run to keep the fair state graph small. The code's value is 5, but more tries only repeat the same call. `MaxFaults` is 1, which lets every database call fail once. The bad-config run uses two instances and no faults: an invalid Index is skipped only when one instance meets the other's build. The liveness instance has e1 and an e3 whose only Index is the invalid one, so the reject-and-retry path must end too. In that run `MaxFaults` is 0, and failed calls still come from drops refused during a build. With one fault the fair state graph takes more than five minutes.

The client runs use two goroutines, which is the least that can interleave, and `MaxCalls = 2` calls in all. This reaches:

- a delete racing a `DeleteOne` of the same entity;
- a partial insert;
- every method's refusal.

`MaxNetFaults = 1` lets one exchange fail at either point, with an error or a hang. `IndexName` enumerates every pair of valid Index definitions with up to two keys from its three names.

Symmetry over the instances (and over the goroutines in `client_ok`) is used only in safety runs, where it is sound.

`CHECK_DEADLOCK FALSE` is set because the system really does stop. An instance that is done or has failed has finished boot, and a `Run` that serves or has returned has left the loop being modelled.

### Fairness

**`SchemaDDL`: weak fairness of each instance's step.**

- Each instance's boot goroutine runs until `runSchemaDDL` returns.
- DocumentDB finishes or aborts every build it starts. This is weak fairness of `BackgroundBuildEnds` for the builds no `CreateOne` waits for.
- The sleeps between tries are finite.

**`ServerRun`.**

- Weak fairness of each ping goroutine's steps (`PingOK`, `PingLoopStops`).
- Weak fairness of the select as a whole. A Go select with a ready case proceeds, but it chooses among the ready cases at random, so no single case is assumed fair.
- Databases coming up and `Stop` being called are left to the environment, with no fairness.

**`EntityClient`.** No run checks liveness, so no fairness is assumed.

### Mutants

Each property of a passing run is broken by a plausible bug in the code:

| Property | Mutant (in place of the definition) | What the bug is |
|---|---|---|
| `TypeOK` | `FailTryOffByOne` | `try <= 5` |
| `Termination` | `FailTryNoCount` | the try counter never advances |
| `ReconciledOnSuccess` | `BuildInProgressReturn` | `return` instead of `break` |
| `WaitLoopExits` | `ReceiveDoneKeep` | the done channel is not set to nil |
| `TypeOK` (client) | `DeleteOneNoIdCheck` | `DeleteOne` without its `id == ""` check, so it sends `Delete("_id=")` |

## Proofs

`SchemaDDL_proofs` proves the following for every value of the constants, under `ConstAssumption`:

- `IInvInvariant`: `Spec => []IInv`;
- `TypeCorrect`: `Spec => []TypeOK`.

`TypeOK` is not inductive on its own, so the proof rests on a stronger invariant, `IInv`. It adds these conjuncts to `TypeOK`:

- **`TriesLeft`.** An instance that has not failed has `tries < DDLTries`. Without it, `FailTry` could push `tries` past its range.
- **`InIndexLoop` and `PastIndexLoop`.** In the creation loop, `cur` has a schema and `pos` is within its index list. Past the creation loop, `cur` has a schema. These are needed so that `NextIndex` and `Config[cur].validator` are of the right type.
- **`OwnBuild`.** An instance waiting for a build waits for the build in progress on its collection, and no other instance waits on that collection. This is what shows that `FinishBuild` clears the right build and adds an index name to `idx`.

TLC checked `IInv` as an invariant on the safety and bad-config instances before the proof was written.

The proof has three parts:

- `InitIInv`.
- `NextIInv`, with one step per action. Each action's failing branch is handled by the lemmas `FailTryProps` and `FailStepIInv`.
- The temporal step, by PTL.

`SchemaDDL_reconcile_proofs` extends `SchemaDDL_proofs`. It proves the following for every value of the constants:

- `RInvInvariant`: `Spec => [](IInv /\ RInv)`;
- `ReconciledOnSuccessInvariant`: `Spec => []ReconciledOnSuccess`.

`ReconciledOnSuccess` is not inductive. An instance that is done could see its result undone by another instance's later step. `RInv` rules that out with five conjuncts:

- **`BuildDeclared`.** A build in progress is of a declared index. Needed because `FinishBuild` of another instance, or `BackgroundBuildEnds`, adds the built index to a collection that may already be clean.
- **`CreatedDeclared`.** `createdIndexes` holds only declared indexes. Needed because the drop loop spares everything in `created`. An undeclared name there would escape `DropCovers`. `IndexExists`, `FinishBuild` and a background `StartBuild` add `NextIndex(p)`, which `NextDeclared` shows is declared.
- **`DropCovers`.** In the drop loop, every index of `cur` that is neither declared nor a system index is still in `toDrop`. This is what makes a finished drop loop leave the collection clean.
- **`PassedClean`.** For an instance that has not failed, every entity type outside `todo` is `Clean`: its indexes are declared or system ones, and its validator is `WantValidator`. Every step of every instance keeps `Clean`: other instances only add declared or system indexes, drop indexes, and write `WantValidator`. A failing step restarts `todo` at all entity types.
- **`DoneAll`.** A done instance has `todo = {}`.

TLC checked `RInv` as an invariant on the `schema_safety` instance before the proof was written. `NextRInv` has one step per action, the database's `BackgroundBuildEnds` included. Each failing branch, either a `Fault` or a failed database call, goes through the lemma `FailStepRInv`.

`EntityClient_proofs` proves `TypeCorrect` (`Spec => []TypeOK`) under `EntityClientAssumption`. It holds for any number of goroutines, ids, labels and calls, and for lost or hung exchanges. It rests on `IInv == TypeOK /\ \A c : CallInv(c)`. `CallInv(c)` says three things:

- an insert in flight has entities left, so `Head(work[c])` is an entity;
- only inserts and deletes are served in several steps;
- a sent insert has a non-empty batch, so `Accept` starts one with entities left.

TLC checked `IInv` on the `client_ok` instance first. The proof has these parts:

- `CallStep`: a lemma shared by all eight methods;
- one lemma per client, network and server action;
- `NextIInv`;
- PTL.

Three kinds of fact stay with TLC only:

- **Liveness** (`Termination`, `WaitLoopExits`). TLAPS does not handle ENABLED and fairness here.
- **Violation runs.** Their properties are false in the code, and each run's counterexample shows why.
- **What recursive definitions compute.** None is used in the proved modules. `IndexName` is checked by TLC only, over bounded inputs.

## Not modelled

- **The entity store, CDC store, CDC broadcast server, query parser, auth and API.** spec.md specifies them, but their code is not in `src/`. The entity store is spec-modelled only as far as the client reaches it, in `EntityClient`.
- **`MockEntityClient`** (entity_client.go:322-394). It is a test double that forwards to callbacks.
- **The entity store's update loop, revisions and CDC events.** No request of this client reaches the update loop (see the `Update` divergence under Findings). The CDC pipeline is a component of its own.
- **`Boot`'s setup** (server.go:43-141): loading the config, creating the clients, validating entity types and mapping ACL roles. It runs once, in sequence. Each step either fails Boot or goes on, so a model would only restate its order. `ServerRun` is therefore partly modelled.
- **A second `Stop`** (server.go:209). It closes a closed channel and panics. This is a sequential misuse that a unit test reaches directly.
- **`BSONSchemaValidator`.** This pure function is abstracted to its result or its failure.
