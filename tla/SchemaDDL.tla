------------------------------ MODULE SchemaDDL ------------------------------
(***************************************************************************)
(* The schema reconciler run at boot: server.runSchemaDDL retrying         *)
(* schema.CreateOrUpdateMongoSchema, executed concurrently by several etre *)
(* instances against one DocumentDB database.                              *)
(*                                                                         *)
(* Per entity type with a schema, the code creates each declared index in  *)
(* order, lists the collection's indexes, drops every listed index that it *)
(* did not create in this pass and that is not a system index, and then    *)
(* sets the collection's $jsonSchema validator with collMod.  An entity    *)
(* type without a schema only has its validator switched off.  DocumentDB  *)
(* runs at most one index build (or drop) per collection at a time; a      *)
(* CreateOne that meets another build fails with "Existing index build in  *)
(* progress", which the code treats as "stop creating, go on".             *)
(*                                                                         *)
(* Index definitions are abstracted to the names indexName() gives them,   *)
(* validators to opaque values; BSONSchemaValidator's errors and an        *)
(* invalid validation level are the value BadValidator, an index that      *)
(* createIndex rejects before calling the database is BadIndex.            *)
(***************************************************************************)
EXTENDS Naturals, Sequences, FiniteSets, SequencesExt

CONSTANTS
    Procs,          \* etre instances running Boot against the same database
    Entities,       \* keys of schema.Config.Entities, one collection each
    IndexNames,     \* index names, system ones included
    SystemIndexes,  \* the names starting with "_" (the collection's _id_)
    Validators,     \* $jsonSchema documents BSONSchemaValidator can build
    ValidationOff,  \* validator {} with validationLevel "off"
    BadValidator,   \* a Schema whose validator cannot be built
    BadIndex,       \* an Index createIndex rejects up front
    NilSchema,      \* EntitySchema.Schema == nil
    NoBuild,        \* no index build in progress on a collection
    Leftovers,      \* non-system indexes a collection may hold at boot
    Config,         \* Entities -> NilSchema or [indexes, validator]
    DDLTries,       \* the 5 tries of runSchemaDDL
    MaxFaults       \* transient database errors allowed in one behaviour

SchemaRec ==
    [indexes : Seq(IndexNames \cup {BadIndex}),
     validator : Validators \cup {ValidationOff, BadValidator}]

ASSUME ConstAssumption ==
    /\ Entities # {}
    /\ SystemIndexes \subseteq IndexNames
    /\ Leftovers \subseteq IndexNames \ SystemIndexes
    /\ NoBuild \notin IndexNames
    /\ BadIndex \notin IndexNames
    /\ ValidationOff \notin Validators
    /\ BadValidator \notin Validators
    /\ Config \in [Entities -> {NilSchema} \cup SchemaRec]
    /\ DDLTries \in Nat \ {0}
    /\ MaxFaults \in Nat

VARIABLES
    idx,        \* idx[e]: the finished indexes of collection e
    building,   \* building[e]: the index being built on e, or NoBuild
    coll,       \* coll[e]: collection e exists
    validator,  \* validator[e]: the collection's current validator
    pc,         \* where each instance is in runSchemaDDL
    tries,      \* failed calls of CreateOrUpdateMongoSchema so far
    todo,       \* entity types not yet reconciled in this call
    cur,        \* the entity type being reconciled
    pos,        \* index of the next Index of cur's schema to create
    created,    \* createdIndexes of updateMongoIndexes
    toDrop,     \* listed indexes still to be inspected by the drop loop
    faults      \* transient database errors so far

dbVars   == <<idx, building, coll, validator>>
procVars == <<pc, tries, todo, cur, pos, created, toDrop>>
vars     == <<dbVars, procVars, faults>>

PCs == {"entity", "create", "building", "list", "drop", "done", "failed"}

\* Entity type e has a schema section.
Managed(e) == Config[e] # NilSchema

\* The names of the indexes e's schema declares.
Declared(e) ==
    IF Managed(e) THEN ToSet(Config[e].indexes) \ {BadIndex} ELSE {}

\* The validator the config asks for on collection e.
WantValidator(e) ==
    IF Managed(e) THEN Config[e].validator ELSE ValidationOff

TypeOK ==
    /\ idx \in [Entities -> SUBSET IndexNames]
    /\ building \in [Entities -> IndexNames \cup {NoBuild}]
    /\ coll \in [Entities -> BOOLEAN]
    /\ validator \in [Entities -> Validators \cup {ValidationOff}]
    /\ pc \in [Procs -> PCs]
    /\ tries \in [Procs -> 0..DDLTries]
    /\ todo \in [Procs -> SUBSET Entities]
    /\ cur \in [Procs -> Entities]
    /\ pos \in [Procs -> Nat \ {0}]
    /\ created \in [Procs -> SUBSET IndexNames]
    /\ toDrop \in [Procs -> SUBSET IndexNames]
    /\ faults \in 0..MaxFaults

(***************************************************************************)
(* A database that existing deployments can present: a collection exists  *)
(* with its _id_ index and any leftover indexes, or does not exist yet.    *)
(***************************************************************************)
Init ==
    /\ coll \in [Entities -> BOOLEAN]
    /\ idx \in {f \in [Entities -> SUBSET IndexNames] :
                  \A e \in Entities :
                     IF coll[e] THEN \E l \in SUBSET Leftovers :
                                          f[e] = SystemIndexes \cup l
                                ELSE f[e] = {}}
    /\ building = [e \in Entities |-> NoBuild]
    /\ validator \in [Entities -> Validators \cup {ValidationOff}]
    /\ pc = [p \in Procs |-> "entity"]
    /\ tries = [p \in Procs |-> 0]
    /\ todo = [p \in Procs |-> Entities]
    /\ cur = [p \in Procs |-> CHOOSE e \in Entities : TRUE]
    /\ pos = [p \in Procs |-> 1]
    /\ created = [p \in Procs |-> {}]
    /\ toDrop = [p \in Procs |-> {}]
    /\ faults = 0

\* The schema of e can be applied: createIndex accepts every Index, there is
\* at least one, and BSONSchemaValidator builds a validator.
SchemaValid(e) ==
    Managed(e) =>
        /\ Len(Config[e].indexes) > 0
        /\ BadIndex \notin ToSet(Config[e].indexes)
        /\ Config[e].validator # BadValidator

\* Variants of FailTry as a plausible bug would write it: the retry loop
\* bound off by one (try <= 5), and the try counter never advanced.
FailTryOffByOne(p) ==
    /\ tries' = [tries EXCEPT ![p] = @ + 1]
    /\ IF tries[p] + 1 <= DDLTries
         THEN /\ pc' = [pc EXCEPT ![p] = "entity"]
              /\ todo' = [todo EXCEPT ![p] = Entities]
         ELSE /\ pc' = [pc EXCEPT ![p] = "failed"]
              /\ UNCHANGED todo
    /\ UNCHANGED <<cur, pos, created, toDrop>>

FailTryNoCount(p) ==
    /\ pc' = [pc EXCEPT ![p] = "entity"]
    /\ todo' = [todo EXCEPT ![p] = Entities]
    /\ UNCHANGED <<tries, cur, pos, created, toDrop>>

(***************************************************************************)
(* CreateOrUpdateMongoSchema returned an error: runSchemaDDL sleeps and    *)
(* calls it again, over all entity types, or gives up after DDLTries.      *)
(***************************************************************************)
FailTry(p) ==
    /\ tries' = [tries EXCEPT ![p] = @ + 1]
    /\ IF tries[p] + 1 < DDLTries
         THEN /\ pc' = [pc EXCEPT ![p] = "entity"]
              /\ todo' = [todo EXCEPT ![p] = Entities]
         ELSE /\ pc' = [pc EXCEPT ![p] = "failed"]
              /\ UNCHANGED todo
    /\ UNCHANGED <<cur, pos, created, toDrop>>

\* A database call of p fails transiently (collMod under concurrent
\* writes, a lost connection): the call returns the error.
Fault(p) ==
    /\ faults < MaxFaults
    /\ faults' = faults + 1
    /\ FailTry(p)
    /\ UNCHANGED dbVars

\* The next Index of cur's schema, and moving past it.
NextIndex(p) == Config[cur[p]].indexes[pos[p]]

Advance(p) ==
    /\ pos' = [pos EXCEPT ![p] = @ + 1]
    /\ pc' = [pc EXCEPT ![p] =
                 IF pos[p] + 1 > Len(Config[cur[p]].indexes) THEN "list"
                                                             ELSE "create"]

-----------------------------------------------------------------------------
(***************************************************************************)
(* The loop over config.Entities (in Go's random map order).               *)
(***************************************************************************)

\* Schema == nil: disableMongoJSONValidation, then the next entity type.
DisableValidation(p) ==
    /\ pc[p] = "entity"
    /\ \E e \in todo[p] :
         /\ ~Managed(e)
         /\ \/ /\ coll[e]
               /\ validator' = [validator EXCEPT ![e] = ValidationOff]
               /\ todo' = [todo EXCEPT ![p] = @ \ {e}]
               /\ cur' = [cur EXCEPT ![p] = e]
               /\ UNCHANGED <<idx, building, coll, pc, tries, pos, created,
                              toDrop, faults>>
            \/ \* collMod on a collection that does not exist fails
               /\ ~coll[e]
               /\ FailTry(p)
               /\ UNCHANGED <<dbVars, faults>>
            \/ /\ coll[e]
               /\ Fault(p)

\* A schema: updateMongoIndexes starts, failing on an empty index list.
StartIndexes(p) ==
    /\ pc[p] = "entity"
    /\ \E e \in todo[p] :
         /\ Managed(e)
         /\ \/ /\ Len(Config[e].indexes) = 0
               /\ FailTry(p)
               /\ UNCHANGED <<dbVars, faults>>
            \/ /\ Len(Config[e].indexes) > 0
               /\ cur' = [cur EXCEPT ![p] = e]
               /\ pos' = [pos EXCEPT ![p] = 1]
               /\ created' = [created EXCEPT ![p] = {}]
               /\ pc' = [pc EXCEPT ![p] = "create"]
               /\ UNCHANGED <<dbVars, tries, todo, toDrop, faults>>

\* Every entity type is reconciled: CreateOrUpdateMongoSchema returns nil
\* and so does runSchemaDDL.
Succeed(p) ==
    /\ pc[p] = "entity"
    /\ todo[p] = {}
    /\ pc' = [pc EXCEPT ![p] = "done"]
    /\ UNCHANGED <<dbVars, tries, todo, cur, pos, created, toDrop, faults>>

-----------------------------------------------------------------------------
(***************************************************************************)
(* updateMongoIndexes: the creation loop.                                  *)
(***************************************************************************)

\* createIndex rejects the Index before calling the database.
RejectIndex(p) ==
    /\ pc[p] = "create"
    /\ NextIndex(p) = BadIndex
    /\ FailTry(p)
    /\ UNCHANGED <<dbVars, faults>>

\* A variant of BuildInProgress that returns nil for the collection
\* (return instead of break), leaving out the drops and the validator.
BuildInProgressReturn(p) ==
    /\ pc[p] = "create"
    /\ NextIndex(p) # BadIndex
    /\ building[cur[p]] # NoBuild
    /\ pc' = [pc EXCEPT ![p] = "entity"]
    /\ todo' = [todo EXCEPT ![p] = @ \ {cur[p]}]
    /\ UNCHANGED <<dbVars, tries, cur, pos, created, toDrop, faults>>

\* CreateOne meets another instance's build: break out of the loop.
BuildInProgress(p) ==
    /\ pc[p] = "create"
    /\ NextIndex(p) # BadIndex
    /\ building[cur[p]] # NoBuild
    /\ pc' = [pc EXCEPT ![p] = "list"]
    /\ UNCHANGED <<dbVars, tries, todo, cur, pos, created, toDrop, faults>>

\* CreateOne of an index that already exists succeeds at once.
IndexExists(p) ==
    /\ pc[p] = "create"
    /\ NextIndex(p) # BadIndex
    /\ building[cur[p]] = NoBuild
    /\ NextIndex(p) \in idx[cur[p]]
    /\ created' = [created EXCEPT ![p] = @ \cup {NextIndex(p)}]
    /\ Advance(p)
    /\ UNCHANGED <<dbVars, tries, todo, cur, toDrop, faults>>

\* CreateOne of a new index starts its build, creating the collection with
\* its _id_ index if needed.  DocumentDB runs builds in the background
\* (schema/README.md, server.go:258): CreateOne either waits for the build
\* or returns the index name while the build goes on.
StartBuild(p) ==
    /\ pc[p] = "create"
    /\ NextIndex(p) # BadIndex
    /\ building[cur[p]] = NoBuild
    /\ NextIndex(p) \notin idx[cur[p]]
    /\ \/ /\ building' = [building EXCEPT ![cur[p]] = NextIndex(p)]
          /\ coll' = [coll EXCEPT ![cur[p]] = TRUE]
          /\ idx' = [idx EXCEPT ![cur[p]] = @ \cup SystemIndexes]
          /\ \/ /\ pc' = [pc EXCEPT ![p] = "building"]
                /\ UNCHANGED <<pos, created>>
             \/ /\ created' = [created EXCEPT ![p] = @ \cup {NextIndex(p)}]
                /\ Advance(p)
          /\ UNCHANGED <<validator, tries, todo, cur, toDrop, faults>>
       \/ Fault(p)

\* The build ends and CreateOne returns the index name.
FinishBuild(p) ==
    /\ pc[p] = "building"
    /\ \/ /\ idx' = [idx EXCEPT ![cur[p]] = @ \cup {building[cur[p]]}]
          /\ building' = [building EXCEPT ![cur[p]] = NoBuild]
          /\ created' = [created EXCEPT ![p] = @ \cup {NextIndex(p)}]
          /\ Advance(p)
          /\ UNCHANGED <<coll, validator, tries, todo, cur, toDrop, faults>>
       \/ \* the build fails and is aborted
          /\ faults < MaxFaults
          /\ faults' = faults + 1
          /\ building' = [building EXCEPT ![cur[p]] = NoBuild]
          /\ FailTry(p)
          /\ UNCHANGED <<idx, coll, validator>>

-----------------------------------------------------------------------------
(***************************************************************************)
(* updateMongoIndexes: existingIndexes, then the drop loop.                *)
(***************************************************************************)

\* List the collection's indexes; a build in progress may be listed too.
ListIndexes(p) ==
    /\ pc[p] = "list"
    /\ \/ \E listed \in {idx[cur[p]],
                         idx[cur[p]] \cup ({building[cur[p]]} \ {NoBuild})} :
            /\ toDrop' = [toDrop EXCEPT ![p] =
                            {n \in listed : n \notin created[p] \cup SystemIndexes}]
            /\ pc' = [pc EXCEPT ![p] = "drop"]
            /\ UNCHANGED <<dbVars, tries, todo, cur, pos, created, faults>>
       \/ Fault(p)

\* DropOne of a listed index; "index not found" is ignored.  With another
\* index build in progress DocumentDB refuses the drop.
DropIndex(p) ==
    /\ pc[p] = "drop"
    /\ \E n \in toDrop[p] :
         \/ /\ building[cur[p]] = NoBuild
            /\ idx' = [idx EXCEPT ![cur[p]] = @ \ {n}]
            /\ toDrop' = [toDrop EXCEPT ![p] = @ \ {n}]
            /\ UNCHANGED <<building, coll, validator, pc, tries, todo, cur,
                           pos, created, faults>>
         \/ /\ building[cur[p]] # NoBuild
            /\ FailTry(p)
            /\ UNCHANGED <<dbVars, faults>>
         \/ Fault(p)

(***************************************************************************)
(* updateMongoJSONValidation, once the drop loop is over.                  *)
(***************************************************************************)
UpdateValidation(p) ==
    /\ pc[p] = "drop"
    /\ toDrop[p] = {}
    /\ \/ /\ Config[cur[p]].validator # BadValidator
          /\ validator' = [validator EXCEPT ![cur[p]] = Config[cur[p]].validator]
          /\ todo' = [todo EXCEPT ![p] = @ \ {cur[p]}]
          /\ pc' = [pc EXCEPT ![p] = "entity"]
          /\ UNCHANGED <<idx, building, coll, tries, cur, pos, created, toDrop,
                         faults>>
       \/ /\ Config[cur[p]].validator = BadValidator
          /\ FailTry(p)
          /\ UNCHANGED <<dbVars, faults>>
       \/ /\ Config[cur[p]].validator # BadValidator
          /\ Fault(p)

-----------------------------------------------------------------------------
(***************************************************************************)
(* DocumentDB ends a background build that no CreateOne waits for: the     *)
(* index is added, or the build fails (a unique index over duplicate keys, *)
(* which schema/README.md says is detected only after CreateOne returned). *)
(***************************************************************************)
BackgroundBuildEnds(e) ==
    /\ building[e] # NoBuild
    /\ \A p \in Procs : ~(pc[p] = "building" /\ cur[p] = e)
    /\ building' = [building EXCEPT ![e] = NoBuild]
    /\ \/ /\ idx' = [idx EXCEPT ![e] = @ \cup {building[e]}]
          /\ UNCHANGED faults
       \/ /\ faults < MaxFaults
          /\ faults' = faults + 1
          /\ UNCHANGED idx
    /\ UNCHANGED <<coll, validator, procVars>>

-----------------------------------------------------------------------------
Step(p) ==
    \/ DisableValidation(p)
    \/ StartIndexes(p)
    \/ Succeed(p)
    \/ RejectIndex(p)
    \/ BuildInProgress(p)
    \/ IndexExists(p)
    \/ StartBuild(p)
    \/ FinishBuild(p)
    \/ ListIndexes(p)
    \/ DropIndex(p)
    \/ UpdateValidation(p)

Next == \/ \E p \in Procs : Step(p)
        \/ \E e \in Entities : BackgroundBuildEnds(e)

\* Each instance's boot goroutine keeps running, and DocumentDB finishes the
\* index builds it has started.
Fairness == /\ \A p \in Procs : WF_vars(Step(p))
            /\ \A e \in Entities : WF_vars(BackgroundBuildEnds(e))

Spec == Init /\ [][Next]_vars

FairSpec == Spec /\ Fairness

-----------------------------------------------------------------------------
(***************************************************************************)
(* The inductive strengthening of TypeOK proved in SchemaDDL_proofs.       *)
(***************************************************************************)

\* An instance that has not given up has tries left.
TriesLeft ==
    \A p \in Procs : pc[p] # "failed" => tries[p] < DDLTries

\* An instance in the creation loop points into its schema's index list.
InIndexLoop ==
    \A p \in Procs : pc[p] \in {"create", "building"} =>
        /\ Managed(cur[p])
        /\ pos[p] \in 1..Len(Config[cur[p]].indexes)

\* An instance past the creation loop works on an entity with a schema.
PastIndexLoop ==
    \A p \in Procs : pc[p] \in {"list", "drop"} => Managed(cur[p])

\* The build an instance waits for is the one in progress on its
\* collection, so no two instances build on one collection at a time.
OwnBuild ==
    \A p \in Procs : pc[p] = "building" =>
        /\ NextIndex(p) \in IndexNames
        /\ building[cur[p]] = NextIndex(p)
        /\ \A q \in Procs \ {p} : pc[q] = "building" => cur[q] # cur[p]

IInv == TypeOK /\ TriesLeft /\ InIndexLoop /\ PastIndexLoop /\ OwnBuild

-----------------------------------------------------------------------------
(***************************************************************************)
(* Properties.                                                             *)
(***************************************************************************)

\* Once an instance's runSchemaDDL has returned nil, no collection with a
\* schema holds a non-system index its schema does not declare, and every
\* collection carries the validator its config asks for (the contract in
\* CreateOrUpdateMongoSchema's doc comment), whatever the other instances
\* booting at the same time are doing.
ReconciledOnSuccess ==
    \A p \in Procs : pc[p] = "done" =>
        \A e \in Entities :
            /\ Managed(e) => idx[e] \subseteq Declared(e) \cup SystemIndexes
            /\ validator[e] = WantValidator(e)

\* When runSchemaDDL returns nil, every index the schema declares exists:
\* the doc comment says CreateOrUpdateMongoSchema "ensures that the indexes
\* in the schema exists".
DeclaredOnSuccess ==
    [][\A p \in Procs :
         (pc[p] # "done" /\ pc'[p] = "done") =>
            \A e \in Entities : Declared(e) \subseteq idx'[e]]_vars

\* No step drops an index that the schema declares and that exists: the
\* instances booting together share one config, and the drop loop is
\* meant only for indexes "not in the schema".
DeclaredNeverDropped ==
    [][\A e \in Entities : Declared(e) \cap idx[e] \subseteq idx'[e]]_vars

\* An entity type counts as reconciled in a call of CreateOrUpdateMongoSchema
\* only if its schema could be applied: an invalid index, an empty index
\* list or an unbuildable validator fails the call, on every try.
ReconcileOnlyValid ==
    [][\A p \in Procs : \A e \in todo[p] \ todo'[p] : SchemaValid(e)]_vars

\* Every instance's runSchemaDDL eventually returns, nil or an error: Boot
\* never hangs in the schema step.
Termination == \A p \in Procs : <>(pc[p] \in {"done", "failed"})

=============================================================================
