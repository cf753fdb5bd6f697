---------------------------- MODULE MCSchemaDDL ----------------------------
(***************************************************************************)
(* Instances of SchemaDDL for TLC.  Collection e1 has a schema declaring   *)
(* two indexes A and B and a validator V1; the database may also hold an   *)
(* obsolete index O and no validator.  Collection e2 has no       *)
(* schema section.                                                         *)
(***************************************************************************)
EXTENDS SchemaDDL, TLC

CONSTANTS p1, p2, e1, e2, e3, e4, IdIdx, A, B, O, V1

MCProcs2 == {p1, p2}
MCEntities == {e1, e2}
MCIndexNames == {IdIdx, A, B, O}
MCSystemIndexes == {IdIdx}
MCValidators == {V1}
MCLeftovers == {A, O}

\* e1: indexes [A, B] and validator V1; e2: Schema == nil.
MCConfig == (e1 :> [indexes |-> <<A, B>>, validator |-> V1]) @@ (e2 :> NilSchema)

\* An invalid config: e1 has an Index createIndex rejects, e2 no index,
\* e3 a schema BSONSchemaValidator rejects; e4 has no schema.
MCEntitiesBad == {e1, e2, e3, e4}
MCConfigBad ==
    (e1 :> [indexes |-> <<A, BadIndex>>, validator |-> V1])
    @@ (e2 :> [indexes |-> <<>>, validator |-> V1])
    @@ (e3 :> [indexes |-> <<B>>, validator |-> BadValidator])
    @@ (e4 :> NilSchema)

\* The liveness instance replaces e2 by e3, whose only Index createIndex rejects,
\* so that the retry-and-exit path is among the behaviours that must end.
MCEntitiesLive == {e1, e3}
MCConfigLive == (e1 :> MCConfig[e1]) @@ (e3 :> [indexes |-> <<BadIndex>>, validator |-> V1])

MCSymmetry == Permutations(MCProcs2)
=============================================================================
