---------------------------- MODULE MCEntityClient ----------------------------
(* Two goroutines, two stored entities, fresh ids for every insert of two  *)
(* calls, a plain label L and the unique label U.                           *)
EXTENDS EntityClient, TLC

CONSTANTS c1, c2, i1, i2, i3, i4, i5, i6, U, L

MCCallers == {c1, c2}
MCIds == {i1, i2, i3, i4, i5, i6}
MCStoredIds == {i1, i2}
MCLabels == {U, L}

\* An entity with label l, optionally setting _id or another _type.
E(id, type, ls) == [id |-> id, type |-> type, labels |-> ls]

\* Empty, refused for _id or _type, one entity, and a batch whose second
\* entity may hit the unique index.
MCBatches ==
    {<<>>, <<E(TRUE, "none", {L})>>, <<E(FALSE, "other", {L})>>,
     <<E(FALSE, "own", {U})>>, <<E(FALSE, "none", {L}), E(FALSE, "none", {U})>>}

\* Patches with and without _id.
MCPatches == {<<>>, <<E(TRUE, "none", {L})>>, <<E(FALSE, "none", {L})>>}

MCSymmetry == Permutations(MCCallers)

=============================================================================
