--------------------------- MODULE SchemaDDL_proofs ---------------------------
(***************************************************************************)
(* Proofs about SchemaDDL, for every set of instances, entity types,      *)
(* index names, config and number of tries.                                *)
(***************************************************************************)
EXTENDS SchemaDDL, TLAPS


LEMMA InitIInv == Init => IInv
<1> SUFFICES ASSUME Init PROVE IInv
    OBVIOUS
<1>1. (CHOOSE e \in Entities : TRUE) \in Entities
    BY ConstAssumption
<1>2. TypeOK
    <2>1. idx \in [Entities -> SUBSET IndexNames]
        BY ConstAssumption DEF Init
    <2>2. /\ tries \in [Procs -> 0..DDLTries]
          /\ pos \in [Procs -> Nat \ {0}]
          /\ faults \in 0..MaxFaults
        BY ConstAssumption DEF Init
    <2>3. /\ building \in [Entities -> IndexNames \cup {NoBuild}]
          /\ coll \in [Entities -> BOOLEAN]
          /\ validator \in [Entities -> Validators \cup {ValidationOff}]
          /\ pc \in [Procs -> PCs]
          /\ todo \in [Procs -> SUBSET Entities]
          /\ cur \in [Procs -> Entities]
          /\ created \in [Procs -> SUBSET IndexNames]
          /\ toDrop \in [Procs -> SUBSET IndexNames]
        BY <1>1 DEF Init, PCs
    <2> QED
        BY <2>1, <2>2, <2>3 DEF TypeOK
<1>3. TriesLeft /\ InIndexLoop /\ PastIndexLoop /\ OwnBuild
    BY ConstAssumption DEF Init, TriesLeft, InIndexLoop, PastIndexLoop, OwnBuild
<1> QED
    BY <1>2, <1>3 DEF IInv


\* A failed call of CreateOrUpdateMongoSchema moves the instance back to
\* the entity loop or to "failed", within its tries, and touches no other
\* instance.
LEMMA FailTryProps ==
    ASSUME TypeOK, TriesLeft, NEW p \in Procs, pc[p] # "failed", FailTry(p)
    PROVE  /\ pc' \in [Procs -> PCs]
           /\ tries' \in [Procs -> 0..DDLTries]
           /\ todo' \in [Procs -> SUBSET Entities]
           /\ pc'[p] \in {"entity", "failed"}
           /\ \A q \in Procs \ {p} : pc'[q] = pc[q]
           /\ TriesLeft'
           /\ UNCHANGED <<cur, pos, created, toDrop>>
<1>1. tries[p] + 1 \in 1..DDLTries
    BY ConstAssumption DEF TypeOK, TriesLeft
<1> QED
    BY <1>1, ConstAssumption DEF FailTry, TypeOK, TriesLeft, PCs

\* A step in which the database is untouched and the call fails keeps the
\* invariant.
LEMMA FailStepIInv ==
    ASSUME IInv, NEW p \in Procs, pc[p] # "failed", FailTry(p),
           UNCHANGED dbVars, faults' \in 0..MaxFaults
    PROVE  IInv'
<1>1. /\ pc' \in [Procs -> PCs]
      /\ tries' \in [Procs -> 0..DDLTries]
      /\ todo' \in [Procs -> SUBSET Entities]
      /\ pc'[p] \in {"entity", "failed"}
      /\ \A q \in Procs \ {p} : pc'[q] = pc[q]
      /\ TriesLeft'
      /\ UNCHANGED <<cur, pos, created, toDrop>>
    BY FailTryProps DEF IInv
<1>2. TypeOK'
    BY <1>1 DEF IInv, TypeOK, dbVars
<1>3. InIndexLoop' /\ PastIndexLoop'
    BY <1>1 DEF IInv, InIndexLoop, PastIndexLoop, Managed
<1>4. OwnBuild'
    BY <1>1 DEF IInv, OwnBuild, NextIndex, dbVars
<1> QED
    BY <1>1, <1>2, <1>3, <1>4 DEF IInv

\* The failing branch of an action: the call returns an error.
Failing(p) == FailTry(p) /\ UNCHANGED dbVars /\ faults' \in 0..MaxFaults

LEMMA NextIInv == IInv /\ [Next]_vars => IInv'
<1> SUFFICES ASSUME IInv, [Next]_vars PROVE IInv'
    OBVIOUS
<1> USE ConstAssumption DEF IInv, TypeOK, TriesLeft, InIndexLoop,
        PastIndexLoop, OwnBuild, PCs, Managed, NextIndex, SchemaRec
<1>1. CASE UNCHANGED vars
    BY <1>1 DEF vars, dbVars, procVars
<1>2. ASSUME NEW p \in Procs, DisableValidation(p) PROVE IInv'
    <2>1. CASE Failing(p)
        BY <1>2, <2>1, FailStepIInv DEF DisableValidation, Failing
    <2>2. CASE ~Failing(p)
        <3>1. PICK e \in todo[p] :
                 /\ coll[e]
                 /\ validator' = [validator EXCEPT ![e] = ValidationOff]
                 /\ todo' = [todo EXCEPT ![p] = @ \ {e}]
                 /\ cur' = [cur EXCEPT ![p] = e]
                 /\ UNCHANGED <<idx, building, coll, pc, tries, pos, created,
                                toDrop, faults>>
            BY <1>2, <2>2 DEF DisableValidation, Failing, Fault, dbVars
        <3>2. pc[p] = "entity"
            BY <1>2 DEF DisableValidation
        <3> QED
            BY <3>1, <3>2
    <2> QED
        BY <2>1, <2>2
<1>3. ASSUME NEW p \in Procs, StartIndexes(p) PROVE IInv'
    <2>1. CASE Failing(p)
        BY <1>3, <2>1, FailStepIInv DEF StartIndexes, Failing
    <2>2. CASE ~Failing(p)
        <3>1. PICK e \in todo[p] :
                 /\ Managed(e)
                 /\ Len(Config[e].indexes) > 0
                 /\ cur' = [cur EXCEPT ![p] = e]
                 /\ pos' = [pos EXCEPT ![p] = 1]
                 /\ created' = [created EXCEPT ![p] = {}]
                 /\ pc' = [pc EXCEPT ![p] = "create"]
                 /\ UNCHANGED <<dbVars, tries, todo, toDrop, faults>>
            BY <1>3, <2>2 DEF StartIndexes, Failing, dbVars
        <3>2. pc[p] = "entity"
            BY <1>3 DEF StartIndexes
        <3> QED
            BY <3>1, <3>2 DEF dbVars
    <2> QED
        BY <2>1, <2>2
<1>4. ASSUME NEW p \in Procs, Succeed(p) PROVE IInv'
    BY <1>4 DEF Succeed, dbVars
<1>5. ASSUME NEW p \in Procs, RejectIndex(p) PROVE IInv'
    BY <1>5, FailStepIInv DEF RejectIndex, dbVars
<1>6. ASSUME NEW p \in Procs, BuildInProgress(p) PROVE IInv'
    BY <1>6 DEF BuildInProgress, dbVars
<1>7. ASSUME NEW p \in Procs, IndexExists(p) PROVE IInv'
    BY <1>7 DEF IndexExists, Advance, dbVars
<1>8. ASSUME NEW p \in Procs, StartBuild(p) PROVE IInv'
    <2>1. CASE Failing(p)
        BY <1>8, <2>1, FailStepIInv DEF StartBuild, Failing
    <2>2. CASE ~Failing(p)
        <3>1. /\ pc[p] = "create"
              /\ NextIndex(p) # BadIndex
              /\ building[cur[p]] = NoBuild
              /\ building' = [building EXCEPT ![cur[p]] = NextIndex(p)]
              /\ coll' = [coll EXCEPT ![cur[p]] = TRUE]
              /\ idx' = [idx EXCEPT ![cur[p]] = @ \cup SystemIndexes]
              /\ \/ /\ pc' = [pc EXCEPT ![p] = "building"]
                    /\ UNCHANGED <<pos, created>>
                 \/ /\ created' = [created EXCEPT ![p] = @ \cup {NextIndex(p)}]
                    /\ Advance(p)
              /\ UNCHANGED <<validator, tries, todo, cur, toDrop, faults>>
            BY <1>8, <2>2 DEF StartBuild, Failing, Fault
        <3>2. NextIndex(p) \in IndexNames
            BY <3>1
        <3>3. \A q \in Procs \ {p} : pc[q] = "building" => cur[q] # cur[p]
            BY <3>1
        <3>4. CASE pc' = [pc EXCEPT ![p] = "building"] /\ UNCHANGED <<pos, created>>
            <4>1. TypeOK'
                BY <3>1, <3>2, <3>4
            <4> QED
                BY <3>1, <3>2, <3>3, <3>4, <4>1
        <3>5. CASE created' = [created EXCEPT ![p] = @ \cup {NextIndex(p)}] /\ Advance(p)
            <4>1. TypeOK'
                BY <3>1, <3>2, <3>5 DEF Advance
            <4> QED
                BY <3>1, <3>2, <3>3, <3>5, <4>1 DEF Advance
        <3> QED
            BY <3>1, <3>4, <3>5
    <2> QED
        BY <2>1, <2>2
<1>9. ASSUME NEW p \in Procs, FinishBuild(p) PROVE IInv'
    <2>1. /\ pc[p] = "building"
          /\ NextIndex(p) \in IndexNames
          /\ building[cur[p]] = NextIndex(p)
          /\ \A q \in Procs \ {p} : pc[q] = "building" => cur[q] # cur[p]
        BY <1>9 DEF FinishBuild
    <2>2. CASE /\ idx' = [idx EXCEPT ![cur[p]] = @ \cup {building[cur[p]]}]
               /\ building' = [building EXCEPT ![cur[p]] = NoBuild]
               /\ created' = [created EXCEPT ![p] = @ \cup {NextIndex(p)}]
               /\ Advance(p)
               /\ UNCHANGED <<coll, validator, tries, todo, cur, toDrop, faults>>
        BY <2>1, <2>2 DEF Advance
    <2>3. CASE /\ faults < MaxFaults
               /\ faults' = faults + 1
               /\ building' = [building EXCEPT ![cur[p]] = NoBuild]
               /\ FailTry(p)
               /\ UNCHANGED <<idx, coll, validator>>
        <3>1. /\ pc' \in [Procs -> PCs]
              /\ tries' \in [Procs -> 0..DDLTries]
              /\ todo' \in [Procs -> SUBSET Entities]
              /\ pc'[p] \in {"entity", "failed"}
              /\ \A q \in Procs \ {p} : pc'[q] = pc[q]
              /\ TriesLeft'
              /\ UNCHANGED <<cur, pos, created, toDrop>>
            BY <2>1, <2>3, FailTryProps
        <3> QED
            BY <2>1, <2>3, <3>1
    <2> QED
        BY <1>9, <2>2, <2>3 DEF FinishBuild
<1>10. ASSUME NEW p \in Procs, ListIndexes(p) PROVE IInv'
    <2>1. CASE Failing(p)
        BY <1>10, <2>1, FailStepIInv DEF ListIndexes, Failing
    <2>2. CASE ~Failing(p)
        <3>1. PICK listed \in {idx[cur[p]],
                               idx[cur[p]] \cup ({building[cur[p]]} \ {NoBuild})} :
                 /\ toDrop' = [toDrop EXCEPT ![p] =
                                 {n \in listed : n \notin created[p] \cup SystemIndexes}]
                 /\ pc' = [pc EXCEPT ![p] = "drop"]
                 /\ UNCHANGED <<dbVars, tries, todo, cur, pos, created, faults>>
            BY <1>10, <2>2 DEF ListIndexes, Failing, Fault
        <3>2. listed \subseteq IndexNames
            BY <3>1
        <3>3. pc[p] = "list"
            BY <1>10 DEF ListIndexes
        <3> QED
            BY <3>1, <3>2, <3>3 DEF dbVars
    <2> QED
        BY <2>1, <2>2
<1>11. ASSUME NEW p \in Procs, DropIndex(p) PROVE IInv'
    <2>1. CASE Failing(p)
        BY <1>11, <2>1, FailStepIInv DEF DropIndex, Failing
    <2>2. CASE ~Failing(p)
        <3>1. PICK n \in toDrop[p] :
                 /\ building[cur[p]] = NoBuild
                 /\ idx' = [idx EXCEPT ![cur[p]] = @ \ {n}]
                 /\ toDrop' = [toDrop EXCEPT ![p] = @ \ {n}]
                 /\ UNCHANGED <<building, coll, validator, pc, tries, todo, cur,
                                pos, created, faults>>
            <4>1. ~(FailTry(p) /\ UNCHANGED <<dbVars, faults>>)
                BY <2>2 DEF Failing
            <4>2. ~Fault(p)
                BY <2>2 DEF Failing, Fault
            <4> QED
                BY <1>11, <4>1, <4>2 DEF DropIndex
        <3>2. pc[p] = "drop"
            BY <1>11 DEF DropIndex
        <3> QED
            BY <3>1, <3>2
    <2> QED
        BY <2>1, <2>2
<1>12. ASSUME NEW p \in Procs, UpdateValidation(p) PROVE IInv'
    <2>1. CASE Failing(p)
        BY <1>12, <2>1, FailStepIInv DEF UpdateValidation, Failing
    <2>2. CASE ~Failing(p)
        <3>1. /\ pc[p] = "drop"
              /\ Config[cur[p]].validator # BadValidator
              /\ validator' = [validator EXCEPT ![cur[p]] = Config[cur[p]].validator]
              /\ todo' = [todo EXCEPT ![p] = @ \ {cur[p]}]
              /\ pc' = [pc EXCEPT ![p] = "entity"]
              /\ UNCHANGED <<idx, building, coll, tries, cur, pos, created,
                             toDrop, faults>>
            BY <1>12, <2>2 DEF UpdateValidation, Failing, Fault, dbVars
        <3>2. Config[cur[p]].validator \in Validators \cup {ValidationOff}
            BY <3>1
        <3> QED
            BY <3>1, <3>2
    <2> QED
        BY <2>1, <2>2
<1>13. ASSUME NEW e \in Entities, BackgroundBuildEnds(e) PROVE IInv'
    <2>1. /\ building[e] \in IndexNames
          /\ \A p \in Procs : pc[p] = "building" => cur[p] # e
          /\ building' = [building EXCEPT ![e] = NoBuild]
          /\ idx' \in {[idx EXCEPT ![e] = @ \cup {building[e]}], idx}
          /\ faults' \in 0..MaxFaults
          /\ UNCHANGED <<coll, validator, procVars>>
        BY <1>13 DEF BackgroundBuildEnds
    <2>2. UNCHANGED <<pc, tries, todo, cur, pos, created, toDrop>>
        BY <2>1 DEF procVars
    <2>3. idx' \in [Entities -> SUBSET IndexNames]
        <3>1. CASE idx' = idx
            BY <3>1
        <3>2. CASE idx' = [idx EXCEPT ![e] = @ \cup {building[e]}]
            BY <2>1, <3>2
        <3> QED
            BY <2>1, <3>1, <3>2
    <2>4. TypeOK'
        BY <2>1, <2>2, <2>3
    <2>5. TriesLeft' /\ InIndexLoop' /\ PastIndexLoop'
        BY <2>2
    <2>6. OwnBuild'
        BY <2>1, <2>2
    <2> QED
        BY <2>5, <2>6, <2>4
<1> QED
    BY <1>1, <1>2, <1>3, <1>4, <1>5, <1>6, <1>7, <1>8, <1>9, <1>10, <1>11,
       <1>12, <1>13 DEF Next, Step

\* IInv holds in every state of every behaviour: the try counters stay in
\* range, an instance in the creation loop points into its schema's index
\* list, and no two instances wait on builds of one collection.
THEOREM IInvInvariant == Spec => []IInv
<1>1. Init => IInv
    BY InitIInv
<1>2. IInv /\ [Next]_vars => IInv'
    BY NextIInv
<1> QED
    BY <1>1, <1>2, PTL DEF Spec

\* Every state of runSchemaDDL's reconciler, over any number of instances
\* booting at once, has the types TypeOK gives it.
THEOREM TypeCorrect == Spec => []TypeOK
<1>1. IInv => TypeOK
    BY DEF IInv
<1> QED
    BY <1>1, IInvInvariant, PTL

=============================================================================
