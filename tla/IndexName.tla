------------------------------ MODULE IndexName ------------------------------
(***************************************************************************)
(* The pure functions of package schema that turn an Index of the config   *)
(* into what updateMongoIndexes sends to the database: the checks of        *)
(* createIndex, the name indexName gives it, and the key document of        *)
(* toBSONIndex.  Strings are TLA+ strings and the formatting is done as     *)
(* the code does it (fmt.Sprintf with "_", strings.Join, strconv.Itoa), so  *)
(* two names are equal exactly when the Go strings are.                     *)
(*                                                                         *)
(* The drop loop and createdIndexes of updateMongoIndexes identify an      *)
(* index by its name alone, so the name must tell apart indexes that the   *)
(* database keeps apart.                                                    *)
(***************************************************************************)
EXTENDS Naturals, Sequences, SequencesExt, TLC

CONSTANTS
    KeyNames,       \* field names (strings) an Index may list
    Directions,     \* direction values (integers) a config may give, valid or not
    MaxKeys         \* longest key list enumerated (the code allows 30)

\* The Index values of the config that are enumerated.
Indexes ==
    [keys : BoundedSeq(KeyNames, MaxKeys), unique : BOOLEAN,
     sparse : BOOLEAN, direction : BoundedSeq(Directions, MaxKeys)]

\* createIndex's up-front checks: 1 to 30 keys, as many directions as keys
\* when any is given, each direction 1 or -1, never sparse and unique.
IndexValid(i) ==
    /\ Len(i.keys) \in 1..30
    /\ Len(i.direction) > 0 => Len(i.keys) = Len(i.direction)
    /\ ~(i.sparse /\ i.unique)
    /\ \A k \in 1..Len(i.direction) : i.direction[k] \in {1, -1}

\* strings.Join(s, "_").
JoinUnderscore(s) ==
    IF s = <<>> THEN ""
    ELSE FoldLeft(LAMBDA acc, x : acc \o "_" \o x, Head(s), Tail(s))

\* strconv.Itoa of a direction.
Itoa(n) == IF n < 0 THEN "-" \o ToString(-n) ELSE ToString(n)

\* intSliceToString.
intSliceToString(s) == [k \in 1..Len(s) |-> Itoa(s[k])]

\* indexName: the prefix by kind, the joined keys and, if directions were
\* given, the joined directions.
indexName(i) ==
    LET prefix == IF i.unique THEN "IL" ELSE IF i.sparse THEN "SPARSE" ELSE "SL"
    IN  IF Len(i.keys) = 0 THEN ""
        ELSE IF Len(i.direction) = 0
             THEN prefix \o "_" \o JoinUnderscore(i.keys)
             ELSE prefix \o "_" \o JoinUnderscore(i.keys) \o "_"
                         \o JoinUnderscore(intSliceToString(i.direction))

\* toBSONIndex: the ordered key document, ascending by default.
toBSONIndex(i) ==
    [k \in 1..Len(i.keys) |->
        <<i.keys[k], IF Len(i.direction) = 0 THEN 1 ELSE i.direction[k]>>]

\* What the database keeps apart: the key document and the options
\* createIndex sets.
IndexModel(i) == [keys |-> toBSONIndex(i), unique |-> i.unique, sparse |-> i.sparse]

VARIABLE pair       \* two Index definitions of a config

Init == pair \in {<<i, j>> : i, j \in {x \in Indexes : IndexValid(x)}}

Next == UNCHANGED pair

Spec == Init /\ [][Next]_pair

-----------------------------------------------------------------------------
\* Two valid Index definitions that the database keeps apart get different
\* names ("we need to add them to the index name to ensure uniqueness",
\* indexName), so that createdIndexes and the drop loop of
\* updateMongoIndexes, which compare names only, never confuse them.
IndexNameUnique ==
    IndexModel(pair[1]) # IndexModel(pair[2]) =>
        indexName(pair[1]) # indexName(pair[2])

=============================================================================
