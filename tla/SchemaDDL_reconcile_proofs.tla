----------------------- MODULE SchemaDDL_reconcile_proofs -----------------------
(***************************************************************************)
(* The proof of ReconciledOnSuccess: once runSchemaDDL has returned nil on *)
(* one instance, every collection holds only declared and system indexes  *)
(* and carries its configured validator, whatever the other instances do. *)
(***************************************************************************)
EXTENDS SchemaDDL_proofs

\* Collection e is reconciled: no undeclared non-system index if it has a
\* schema, and the validator the config asks for.
Clean(e) ==
    /\ Managed(e) => idx[e] \subseteq Declared(e) \cup SystemIndexes
    /\ validator[e] = WantValidator(e)

\* What every instance adds to a collection is declared by its schema.
BuildDeclared ==
    \A e \in Entities : building[e] \in Declared(e) \cup {NoBuild}

CreatedDeclared ==
    \A p \in Procs : pc[p] \in {"create", "building", "list", "drop"} =>
        created[p] \subseteq Declared(cur[p])

\* In the drop loop, every undeclared non-system index of the collection
\* is still to be dropped.
DropCovers ==
    \A p \in Procs : pc[p] = "drop" =>
        idx[cur[p]] \subseteq Declared(cur[p]) \cup SystemIndexes \cup toDrop[p]

\* The entity types an instance has passed in its current call stay
\* reconciled, and an instance that returned nil has passed them all.
PassedClean ==
    \A p \in Procs : pc[p] # "failed" =>
        \A e \in Entities \ todo[p] : Clean(e)

DoneAll ==
    \A p \in Procs : pc[p] = "done" => todo[p] = {}

RInv == BuildDeclared /\ CreatedDeclared /\ DropCovers /\ PassedClean /\ DoneAll

-----------------------------------------------------------------------------
LEMMA InitRInv == Init => RInv
BY DEF Init, RInv, BuildDeclared, CreatedDeclared, DropCovers, PassedClean,
       DoneAll

\* The Index an instance in the creation loop is about to create is one its
\* schema declares, unless createIndex rejects it.
LEMMA NextDeclared ==
    ASSUME IInv, NEW p \in Procs, pc[p] \in {"create", "building"},
           NextIndex(p) # BadIndex
    PROVE  NextIndex(p) \in Declared(cur[p])
<1>1. Managed(cur[p]) /\ pos[p] \in 1..Len(Config[cur[p]].indexes)
    BY DEF IInv, InIndexLoop
<1>2. Config[cur[p]] \in SchemaRec
    BY <1>1, ConstAssumption DEF IInv, TypeOK, Managed
<1> QED
    BY <1>1, <1>2 DEF NextIndex, Declared, ToSet, SchemaRec

\* A collection stays reconciled under a step that adds to it only
\* declared or system indexes and sets its validator, if at all, to the
\* configured one.
LEMMA CleanStable ==
    ASSUME NEW e \in Entities, Clean(e),
           idx'[e] \subseteq idx[e] \cup Declared(e) \cup SystemIndexes,
           validator'[e] \in {validator[e], WantValidator(e)}
    PROVE  Clean(e)'
BY DEF Clean

\* A failing call of an instance that leaves the database alone keeps RInv.
LEMMA FailStepRInv ==
    ASSUME IInv, RInv, NEW p \in Procs, pc[p] # "failed", FailTry(p),
           UNCHANGED dbVars
    PROVE  RInv'
<1>1. /\ pc'[p] \in {"entity", "failed"}
      /\ \A q \in Procs \ {p} : pc'[q] = pc[q]
      /\ UNCHANGED <<cur, pos, created, toDrop>>
    BY FailTryProps DEF IInv
<1>2. pc'[p] = "entity" => todo'[p] = Entities
    BY DEF FailTry, IInv, TypeOK
<1>3. \A q \in Procs \ {p} : todo'[q] = todo[q]
    BY DEF FailTry, IInv, TypeOK
<1>4. BuildDeclared' /\ CreatedDeclared' /\ DropCovers'
    BY <1>1 DEF RInv, BuildDeclared, CreatedDeclared, DropCovers, dbVars
<1>5. DoneAll'
    BY <1>1, <1>3 DEF RInv, DoneAll
<1>6. PassedClean'
    <2> SUFFICES ASSUME NEW q \in Procs, pc'[q] # "failed",
                        NEW e \in Entities \ todo'[q]
                 PROVE  Clean(e)'
        BY DEF PassedClean
    <2>1. CASE q = p
        BY <1>1, <1>2, <2>1
    <2>2. CASE q # p
        BY <1>1, <1>3, <2>2 DEF RInv, PassedClean, Clean, dbVars
    <2> QED
        BY <2>1, <2>2
<1> QED
    BY <1>4, <1>5, <1>6 DEF RInv

LEMMA NextRInv == IInv /\ RInv /\ [Next]_vars => RInv'
<1> SUFFICES ASSUME IInv, RInv, [Next]_vars PROVE RInv'
    OBVIOUS
<1> USE ConstAssumption DEF IInv, TypeOK, InIndexLoop, PastIndexLoop, PCs,
        RInv, BuildDeclared, CreatedDeclared, DropCovers, PassedClean, DoneAll,
        Clean, WantValidator
<1>1. CASE UNCHANGED vars
    BY <1>1 DEF vars, dbVars, procVars
<1>2. ASSUME NEW p \in Procs, DisableValidation(p) PROVE RInv'
    <2>1. CASE Failing(p)
        BY <1>2, <2>1, FailStepRInv DEF DisableValidation, Failing
    <2>2. CASE ~Failing(p)
        <3>1. PICK e \in todo[p] :
                 /\ ~Managed(e)
                 /\ validator' = [validator EXCEPT ![e] = ValidationOff]
                 /\ todo' = [todo EXCEPT ![p] = @ \ {e}]
                 /\ cur' = [cur EXCEPT ![p] = e]
                 /\ UNCHANGED <<idx, building, coll, pc, tries, pos, created,
                                toDrop, faults>>
            BY <1>2, <2>2 DEF DisableValidation, Failing, Fault, dbVars
        <3>2. pc[p] = "entity"
            BY <1>2 DEF DisableValidation
        <3> QED
            BY <3>1, <3>2
    <2> QED
        BY <2>1, <2>2
<1>3. ASSUME NEW p \in Procs, StartIndexes(p) PROVE RInv'
    <2>1. CASE Failing(p)
        BY <1>3, <2>1, FailStepRInv DEF StartIndexes, Failing
    <2>2. CASE ~Failing(p)
        <3>1. PICK e \in todo[p] :
                 /\ cur' = [cur EXCEPT ![p] = e]
                 /\ pos' = [pos EXCEPT ![p] = 1]
                 /\ created' = [created EXCEPT ![p] = {}]
                 /\ pc' = [pc EXCEPT ![p] = "create"]
                 /\ UNCHANGED <<dbVars, tries, todo, toDrop, faults>>
            BY <1>3, <2>2 DEF StartIndexes, Failing, dbVars
        <3>2. pc[p] = "entity"
            BY <1>3 DEF StartIndexes
        <3> QED
            BY <3>1, <3>2 DEF dbVars
    <2> QED
        BY <2>1, <2>2
<1>4. ASSUME NEW p \in Procs, Succeed(p) PROVE RInv'
    BY <1>4 DEF Succeed, dbVars
<1>5. ASSUME NEW p \in Procs, RejectIndex(p) PROVE RInv'
    BY <1>5, FailStepRInv DEF RejectIndex, dbVars
<1>6. ASSUME NEW p \in Procs, BuildInProgress(p) PROVE RInv'
    BY <1>6 DEF BuildInProgress, dbVars
<1>7. ASSUME NEW p \in Procs, IndexExists(p) PROVE RInv'
    <2>1. NextIndex(p) \in Declared(cur[p])
        BY <1>7, NextDeclared DEF IndexExists
    <2> QED
        BY <1>7, <2>1 DEF IndexExists, Advance, dbVars
<1>8. ASSUME NEW p \in Procs, StartBuild(p) PROVE RInv'
    <2>1. CASE Failing(p)
        BY <1>8, <2>1, FailStepRInv DEF StartBuild, Failing
    <2>2. CASE ~Failing(p)
        <3>1. /\ pc[p] = "create"
              /\ NextIndex(p) # BadIndex
              /\ building' = [building EXCEPT ![cur[p]] = NextIndex(p)]
              /\ coll' = [coll EXCEPT ![cur[p]] = TRUE]
              /\ idx' = [idx EXCEPT ![cur[p]] = @ \cup SystemIndexes]
              /\ \/ /\ pc' = [pc EXCEPT ![p] = "building"]
                    /\ UNCHANGED <<pos, created>>
                 \/ /\ created' = [created EXCEPT ![p] = @ \cup {NextIndex(p)}]
                    /\ Advance(p)
              /\ UNCHANGED <<validator, tries, todo, cur, toDrop, faults>>
            BY <1>8, <2>2 DEF StartBuild, Failing, Fault
        <3>2. NextIndex(p) \in Declared(cur[p])
            BY <3>1, NextDeclared
        <3>3. CASE pc' = [pc EXCEPT ![p] = "building"] /\ UNCHANGED <<pos, created>>
            BY <3>1, <3>2, <3>3
        <3>4. CASE created' = [created EXCEPT ![p] = @ \cup {NextIndex(p)}] /\ Advance(p)
            BY <3>1, <3>2, <3>4 DEF Advance
        <3> QED
            BY <3>1, <3>3, <3>4
    <2> QED
        BY <2>1, <2>2
<1>9. ASSUME NEW p \in Procs, FinishBuild(p) PROVE RInv'
    <2>1. /\ pc[p] = "building"
          /\ NextIndex(p) \in IndexNames
          /\ building[cur[p]] = NextIndex(p)
        BY <1>9 DEF FinishBuild, OwnBuild
    <2>2. NextIndex(p) \in Declared(cur[p])
        BY <2>1, NextDeclared, ConstAssumption
    <2>3. CASE /\ idx' = [idx EXCEPT ![cur[p]] = @ \cup {building[cur[p]]}]
               /\ building' = [building EXCEPT ![cur[p]] = NoBuild]
               /\ created' = [created EXCEPT ![p] = @ \cup {NextIndex(p)}]
               /\ Advance(p)
               /\ UNCHANGED <<coll, validator, tries, todo, cur, toDrop, faults>>
        BY <2>1, <2>2, <2>3 DEF Advance
    <2>4. CASE /\ building' = [building EXCEPT ![cur[p]] = NoBuild]
               /\ FailTry(p)
               /\ UNCHANGED <<idx, coll, validator>>
        <3>1. /\ pc'[p] \in {"entity", "failed"}
              /\ \A q \in Procs \ {p} : pc'[q] = pc[q]
              /\ UNCHANGED <<cur, pos, created, toDrop>>
            BY <2>1, <2>4, FailTryProps
        <3>2. pc'[p] = "entity" => todo'[p] = Entities
            BY <2>4 DEF FailTry
        <3>3. \A q \in Procs \ {p} : todo'[q] = todo[q]
            BY <2>4 DEF FailTry
        <3>4. BuildDeclared'
            BY <2>4
        <3>6. CreatedDeclared' /\ DropCovers'
            BY <2>4, <3>1
        <3>7. DoneAll'
            BY <3>1, <3>3
        <3>5. PassedClean'
            <4> SUFFICES ASSUME NEW q \in Procs, pc'[q] # "failed",
                                NEW e \in Entities \ todo'[q]
                         PROVE  Clean(e)'
                OBVIOUS
            <4>1. CASE q = p
                BY <3>1, <3>2, <4>1
            <4>2. CASE q # p
                BY <2>4, <3>1, <3>3, <4>2
            <4> QED
                BY <4>1, <4>2
        <3> QED
            BY <3>4, <3>5, <3>6, <3>7
    <2> QED
        BY <1>9, <2>3, <2>4 DEF FinishBuild
<1>10. ASSUME NEW p \in Procs, ListIndexes(p) PROVE RInv'
    <2>1. CASE Failing(p)
        BY <1>10, <2>1, FailStepRInv DEF ListIndexes, Failing
    <2>2. CASE ~Failing(p)
        <3>1. PICK listed \in {idx[cur[p]],
                               idx[cur[p]] \cup ({building[cur[p]]} \ {NoBuild})} :
                 /\ toDrop' = [toDrop EXCEPT ![p] =
                                 {n \in listed : n \notin created[p] \cup SystemIndexes}]
                 /\ pc' = [pc EXCEPT ![p] = "drop"]
                 /\ UNCHANGED <<dbVars, tries, todo, cur, pos, created, faults>>
            BY <1>10, <2>2 DEF ListIndexes, Failing, Fault
        <3>2. pc[p] = "list"
            BY <1>10 DEF ListIndexes
        <3>3. idx[cur[p]] \subseteq listed
            BY <3>1
        <3> QED
            BY <3>1, <3>2, <3>3 DEF dbVars
    <2> QED
        BY <2>1, <2>2
<1>11. ASSUME NEW p \in Procs, DropIndex(p) PROVE RInv'
    <2>1. CASE Failing(p)
        BY <1>11, <2>1, FailStepRInv DEF DropIndex, Failing
    <2>2. CASE ~Failing(p)
        <3>1. PICK n \in toDrop[p] :
                 /\ idx' = [idx EXCEPT ![cur[p]] = @ \ {n}]
                 /\ toDrop' = [toDrop EXCEPT ![p] = @ \ {n}]
                 /\ UNCHANGED <<building, coll, validator, pc, tries, todo, cur,
                                pos, created, faults>>
            <4>1. ~(FailTry(p) /\ UNCHANGED <<dbVars, faults>>)
                BY <2>2 DEF Failing
            <4>2. ~Fault(p)
                BY <2>2 DEF Failing, Fault
            <4> QED
                BY <1>11, <4>1, <4>2 DEF DropIndex
        <3>2. pc[p] = "drop"
            BY <1>11 DEF DropIndex
        <3>3. BuildDeclared' /\ CreatedDeclared' /\ DoneAll'
            BY <3>1
        <3>4. DropCovers'
            BY <3>1, <3>2
        <3>5. PassedClean'
            BY <3>1
        <3> QED
            BY <3>3, <3>4, <3>5
    <2> QED
        BY <2>1, <2>2
<1>12. ASSUME NEW p \in Procs, UpdateValidation(p) PROVE RInv'
    <2>1. CASE Failing(p)
        BY <1>12, <2>1, FailStepRInv DEF UpdateValidation, Failing
    <2>2. CASE ~Failing(p)
        <3>1. /\ pc[p] = "drop"
              /\ toDrop[p] = {}
              /\ validator' = [validator EXCEPT ![cur[p]] = Config[cur[p]].validator]
              /\ todo' = [todo EXCEPT ![p] = @ \ {cur[p]}]
              /\ pc' = [pc EXCEPT ![p] = "entity"]
              /\ UNCHANGED <<idx, building, coll, tries, cur, pos, created,
                             toDrop, faults>>
            <4>1. ~(FailTry(p) /\ UNCHANGED <<dbVars, faults>>)
                BY <2>2 DEF Failing
            <4>2. ~Fault(p)
                BY <2>2 DEF Failing, Fault
            <4> QED
                BY <1>12, <4>1, <4>2 DEF UpdateValidation
        <3>2. Managed(cur[p])
            BY <3>1
        <3> QED
            BY <3>1, <3>2
    <2> QED
        BY <2>1, <2>2
<1>13. ASSUME NEW e \in Entities, BackgroundBuildEnds(e) PROVE RInv'
    <2>1. /\ building[e] \in Declared(e)
          /\ building' = [building EXCEPT ![e] = NoBuild]
          /\ idx' \in {[idx EXCEPT ![e] = @ \cup {building[e]}], idx}
          /\ UNCHANGED <<coll, validator, pc, tries, todo, cur, pos, created, toDrop>>
        BY <1>13 DEF BackgroundBuildEnds, procVars
    <2>2. \A f \in Entities : idx'[f] \subseteq idx[f] \cup Declared(f)
        <3>1. CASE idx' = idx
            BY <3>1
        <3>2. CASE idx' = [idx EXCEPT ![e] = @ \cup {building[e]}]
            BY <2>1, <3>2
        <3> QED
            BY <2>1, <3>1, <3>2
    <2>3. BuildDeclared' /\ CreatedDeclared' /\ DoneAll'
        BY <2>1
    <2>4. DropCovers'
        BY <2>1, <2>2
    <2>5. PassedClean'
        BY <2>1, <2>2
    <2> QED
        BY <2>3, <2>4, <2>5
<1> QED
    BY <1>1, <1>2, <1>3, <1>4, <1>5, <1>6, <1>7, <1>8, <1>9, <1>10, <1>11,
       <1>12, <1>13 DEF Next, Step

\* IInv and RInv hold together in every state of every behaviour.
THEOREM RInvInvariant == Spec => [](IInv /\ RInv)
<1>1. Init => IInv /\ RInv
    BY InitIInv, InitRInv
<1>2. IInv /\ RInv /\ [Next]_vars => (IInv /\ RInv)'
    BY NextIInv, NextRInv
<1> QED
    BY <1>1, <1>2, PTL DEF Spec

\* ReconciledOnSuccess: once runSchemaDDL has returned nil on an instance,
\* every collection with a schema holds only declared and system indexes
\* and every collection carries its configured validator, for any number
\* of instances booting at once, any config and any number of tries.
THEOREM ReconciledOnSuccessInvariant == Spec => []ReconciledOnSuccess
<1>1. IInv /\ RInv => ReconciledOnSuccess
    BY DEF RInv, PassedClean, DoneAll, Clean, ReconciledOnSuccess
<1> QED
    BY <1>1, RInvInvariant, PTL

=============================================================================
