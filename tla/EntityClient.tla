----------------------------- MODULE EntityClient -----------------------------
(***************************************************************************)
(* The Go client library (entity_client.go): an entityClient shared by     *)
(* several goroutines, each making one call at a time, against the etre    *)
(* API's entity store.                                                      *)
(*                                                                         *)
(* A call runs the method's argument checks and either returns an error    *)
(* at once or sends one HTTP request (write/do).  The network may fail     *)
(* before the server saw the request or after it answered.  The client     *)
(* then handles the status and decodes the write results; UpdateOne,       *)
(* DeleteOne and DeleteLabel return wr[0].                                 *)
(*                                                                         *)
(* The server side is the entity store of spec.md 4.E, whose code is not   *)
(* in this repository: Insert and Delete run one entity at a time, so      *)
(* concurrent requests interleave between entities; the other requests are *)
(* one step.  Entities are ids with a set of labels; one label is under a  *)
(* unique index.  Values, JSON and URLs are left out.                      *)
(***************************************************************************)
EXTENDS Naturals, Sequences, SequencesExt, FiniteSets

CONSTANTS
    Callers,        \* goroutines sharing the client
    Ids,            \* ids of entities, stored or assigned later
    StoredIds,      \* the entities stored when the calls start
    LabelNames,     \* label names
    UniqueLabel,    \* the label with a unique index
    NoId,           \* the empty id string ""
    NoQuery,        \* the empty query string ""
    Batches,        \* entity lists a caller passes to Insert
    Patches,        \* patch lists a caller passes to Update
    MaxCalls,       \* calls in one behaviour
    MaxNetFaults    \* failed HTTP exchanges in one behaviour

\* An entity a caller passes: whether it sets _id, its _type (absent, the
\* client's type, another type) and its other labels.
Ent == [id : BOOLEAN, type : {"none", "own", "other"}, labels : SUBSET LabelNames]

\* A query string: empty, "_id=<id>", or a selector on a label.
Queries ==
    {NoQuery} \cup {[by |-> "id", id |-> i] : i \in Ids}
              \cup {[by |-> "label", label |-> l] : l \in LabelNames}

ASSUME EntityClientAssumption ==
    /\ UniqueLabel \in LabelNames
    /\ StoredIds \subseteq Ids
    /\ NoId \notin Ids
    /\ Batches \subseteq Seq(Ent)
    /\ Patches \subseteq Seq(Ent)
    /\ MaxCalls \in Nat
    /\ MaxNetFaults \in Nat

Methods == {"insert", "update", "delete", "labels", "dellabel", "query"}

WriteMethods == {"insert", "update", "delete", "dellabel"}

Req == [m : Methods, q : Queries, batch : Seq(Ent), id : Ids \cup {NoId},
        label : LabelNames \cup {""}, one : BOOLEAN]

\* Status 0 stands for an error of c.do: no HTTP response.
Statuses == {0, 200, 201, 400, 404, 409}

NoReq == [m |-> "query", q |-> NoQuery, batch |-> <<>>, id |-> NoId,
          label |-> "", one |-> FALSE]

VARIABLES
    live,       \* ids of the entities stored
    lbl,        \* lbl[i]: the labels of entity i
    used,       \* ids the server has assigned
    cst,        \* cst[c]: "idle", "sent", "serving", "responded" or "hung"
    req,        \* req[c]: the request of c's current call
    work,       \* work[c]: the entities of an Insert not yet inserted
    res,        \* res[c]: ids the server wrote for c's request
    resp,       \* resp[c]: the HTTP status and the write results' ids
    ret,        \* ret[c]: what c's last call returned
    calls,      \* calls made so far
    netFaults   \* failed HTTP exchanges so far

storeVars  == <<live, lbl, used>>
clientVars == <<cst, req, work, res, resp, ret>>
vars       == <<storeVars, clientVars, calls, netFaults>>

Returns == [kind : {"none", "ok", "err", "panic"}, ids : SUBSET Ids]

TypeOK ==
    /\ live \subseteq used /\ used \subseteq Ids
    /\ lbl \in [Ids -> SUBSET LabelNames]
    /\ cst \in [Callers -> {"idle", "sent", "serving", "responded", "hung"}]
    /\ req \in [Callers -> Req]
    /\ work \in [Callers -> Seq(Ent)]
    /\ res \in [Callers -> SUBSET Ids]
    /\ resp \in [Callers -> [status : Statuses, ids : SUBSET Ids]]
    /\ ret \in [Callers -> Returns]
    /\ calls \in 0..MaxCalls
    /\ netFaults \in 0..MaxNetFaults

\* At most one stored entity has the unique label.
UniqueOK(S, f) == \A i, j \in S : UniqueLabel \in f[i] \cap f[j] => i = j

Init ==
    /\ used = StoredIds
    /\ live = StoredIds
    /\ lbl \in {f \in [Ids -> SUBSET LabelNames] :
                  UniqueOK(live, f) /\ \A i \in Ids \ live : f[i] = {}}
    /\ cst = [c \in Callers |-> "idle"]
    /\ req = [c \in Callers |-> NoReq]
    /\ work = [c \in Callers |-> <<>>]
    /\ res = [c \in Callers |-> {}]
    /\ resp = [c \in Callers |-> [status |-> 0, ids |-> {}]]
    /\ ret = [c \in Callers |-> [kind |-> "none", ids |-> {}]]
    /\ calls = 0
    /\ netFaults = 0

\* Entity i matches query q.
Matches(i, q) ==
    IF q.by = "id" THEN i = q.id ELSE q.label \in lbl[i]

QId(i) == [by |-> "id", id |-> i]

-----------------------------------------------------------------------------
(***************************************************************************)
(* The client: a method's checks, then one request through write or do.    *)
(***************************************************************************)

\* Start a call of c; nothing of it is written or answered yet.
Begin(c) ==
    /\ cst[c] = "idle"
    /\ calls < MaxCalls
    /\ calls' = calls + 1
    /\ res' = [res EXCEPT ![c] = {}]
    /\ resp' = [resp EXCEPT ![c] = [status |-> 0, ids |-> {}]]

\* The method returns an error before any request.
Refuse(c) ==
    /\ ret' = [ret EXCEPT ![c] = [kind |-> "err", ids |-> {}]]
    /\ UNCHANGED <<storeVars, cst, req, work, netFaults>>

\* The method sends request r.
Send(c, r) ==
    /\ cst' = [cst EXCEPT ![c] = "sent"]
    /\ req' = [req EXCEPT ![c] = r]
    /\ ret' = [ret EXCEPT ![c] = [kind |-> "none", ids |-> {}]]
    /\ UNCHANGED <<storeVars, work, netFaults>>

\* Insert's checks: a non-empty list, no _id set, _type the client's own.
InsertRefused(b) ==
    b = <<>> \/ \E k \in 1..Len(b) : b[k].id \/ b[k].type = "other"

\* Update's checks: a query, a non-empty patch list, _id set in every
\* patch, _type the client's own.
UpdateRefused(q, p) ==
    \/ q = NoQuery
    \/ p = <<>>
    \/ \E k \in 1..Len(p) : ~p[k].id \/ p[k].type = "other"

WriteReq(m, q, b, i, l, one) ==
    [m |-> m, q |-> q, batch |-> b, id |-> i, label |-> l, one |-> one]

Insert(c, b) ==
    /\ Begin(c)
    /\ IF InsertRefused(b) THEN Refuse(c)
       ELSE Send(c, WriteReq("insert", NoQuery, b, NoId, "", FALSE))

Update(c, q, p) ==
    /\ Begin(c)
    /\ IF UpdateRefused(q, p) THEN Refuse(c)
       ELSE Send(c, WriteReq("update", q, p, NoId, "", FALSE))

\* UpdateOne(id, patch) is Update("_id="+id, []Entity{patch}), then wr[0].
UpdateOne(c, i, p) ==
    /\ Begin(c)
    /\ IF i = NoId \/ UpdateRefused(QId(i), <<p>>) THEN Refuse(c)
       ELSE Send(c, WriteReq("update", QId(i), <<p>>, NoId, "", TRUE))

Delete(c, q) ==
    /\ Begin(c)
    /\ IF q = NoQuery THEN Refuse(c)
       ELSE Send(c, WriteReq("delete", q, <<>>, NoId, "", FALSE))

\* A variant of DeleteOne without its empty-id check: Delete("_id=").
DeleteOneNoIdCheck(c, i) ==
    /\ Begin(c)
    /\ Send(c, WriteReq("delete", QId(i), <<>>, NoId, "", TRUE))

\* DeleteOne(id) is Delete("_id="+id), then wr[0].
DeleteOne(c, i) ==
    /\ Begin(c)
    /\ IF i = NoId THEN Refuse(c)
       ELSE Send(c, WriteReq("delete", QId(i), <<>>, NoId, "", TRUE))

Labels(c, i) ==
    /\ Begin(c)
    /\ IF i = NoId THEN Refuse(c)
       ELSE Send(c, WriteReq("labels", NoQuery, <<>>, i, "", FALSE))

DeleteLabel(c, i, l) ==
    /\ Begin(c)
    /\ IF i = NoId \/ l = "" THEN Refuse(c)
       ELSE Send(c, WriteReq("dellabel", NoQuery, <<>>, i, l, TRUE))

\* Query sends GET /entities or, for a query of 2000 bytes or more, POST
\* /query; the two are answered alike.
Query(c, q) ==
    /\ Begin(c)
    /\ IF q = NoQuery THEN Refuse(c)
       ELSE Send(c, WriteReq("query", q, <<>>, NoId, "", FALSE))

\* The statuses a method takes as success: write accepts 200 and 201,
\* Labels and Query only 200.
OkStatus(m) == IF m \in WriteMethods THEN {200, 201} ELSE {200}

\* The client handles the answer: an error of do, a status that is not a
\* success (apiError), or the decoded write results; the *One methods
\* index the first write result.
Receive(c) ==
    /\ cst[c] = "responded"
    /\ cst' = [cst EXCEPT ![c] = "idle"]
    /\ ret' = [ret EXCEPT ![c] =
                 IF resp[c].status \notin OkStatus(req[c].m)
                 THEN [kind |-> "err", ids |-> {}]
                 ELSE IF req[c].one /\ resp[c].ids = {}
                      THEN [kind |-> "panic", ids |-> {}]
                      ELSE [kind |-> "ok", ids |-> resp[c].ids]]
    /\ UNCHANGED <<storeVars, req, work, res, resp, calls, netFaults>>

\* The exchange fails: Do returns an error, or, when the caller's
\* http.Client has no Timeout (do sets none itself), blocks for ever.
LoseExchange(c) ==
    \/ /\ cst' = [cst EXCEPT ![c] = "responded"]
       /\ resp' = [resp EXCEPT ![c] = [status |-> 0, ids |-> {}]]
    \/ /\ cst' = [cst EXCEPT ![c] = "hung"]
       /\ UNCHANGED resp

\* The request is lost before it reaches the server.
LoseRequest(c) ==
    /\ cst[c] = "sent"
    /\ netFaults < MaxNetFaults
    /\ netFaults' = netFaults + 1
    /\ LoseExchange(c)
    /\ UNCHANGED <<storeVars, req, work, res, ret, calls>>

\* The server answered, but the answer is lost on the way back.
LoseResponse(c) ==
    /\ cst[c] = "responded"
    /\ resp[c].status # 0
    /\ netFaults < MaxNetFaults
    /\ netFaults' = netFaults + 1
    /\ LoseExchange(c)
    /\ UNCHANGED <<storeVars, req, work, res, ret, calls>>

-----------------------------------------------------------------------------
(***************************************************************************)
(* The entity store answering the requests (spec.md 4.E).                  *)
(***************************************************************************)

Respond(c, status, ids) ==
    /\ cst' = [cst EXCEPT ![c] = "responded"]
    /\ resp' = [resp EXCEPT ![c] = [status |-> status, ids |-> ids]]

\* The server takes the request: the one-step operations answer at once.
Accept(c) ==
    /\ cst[c] = "sent"
    /\ LET r == req[c] IN
       \/ /\ r.m \in {"insert", "delete"}
          /\ cst' = [cst EXCEPT ![c] = "serving"]
          /\ work' = [work EXCEPT ![c] = r.batch]
          /\ res' = [res EXCEPT ![c] = {}]
          /\ UNCHANGED <<storeVars, resp>>
       \/ \* a patch must not set a meta-label: invalid-param
          /\ r.m = "update"
          /\ \E k \in 1..Len(r.batch) : r.batch[k].id
          /\ Respond(c, 400, {})
          /\ UNCHANGED <<storeVars, work, res>>
       \/ /\ r.m \in {"labels", "dellabel"}
          /\ r.id \notin live
          /\ Respond(c, 404, {})
          /\ UNCHANGED <<storeVars, work, res>>
       \/ /\ r.m = "labels"
          /\ r.id \in live
          /\ Respond(c, 200, {})
          /\ UNCHANGED <<storeVars, work, res>>
       \/ /\ r.m = "dellabel"
          /\ r.id \in live
          /\ lbl' = [lbl EXCEPT ![r.id] = @ \ {r.label}]
          /\ res' = [res EXCEPT ![c] = {r.id}]
          /\ Respond(c, 200, {r.id})
          /\ UNCHANGED <<live, used, work>>
       \/ /\ r.m = "query"
          /\ Respond(c, 200, {i \in live : Matches(i, r.q)})
          /\ UNCHANGED <<storeVars, work, res>>
    /\ UNCHANGED <<req, ret, calls, netFaults>>

\* Insert, for the next entity of the batch: a fresh _id and the insert;
\* a duplicate key on the unique label stops the batch with
\* duplicate-entity and the ids inserted so far; after the last entity,
\* 201 with all the ids.
ServeInsert(c) ==
    /\ cst[c] = "serving"
    /\ req[c].m = "insert"
    /\ LET e == Head(work[c]) IN
       \/ /\ UniqueLabel \in e.labels
          /\ \E j \in live : UniqueLabel \in lbl[j]
          /\ Respond(c, 409, res[c])
          /\ UNCHANGED <<storeVars, work, res>>
       \/ /\ ~(UniqueLabel \in e.labels /\ \E j \in live : UniqueLabel \in lbl[j])
          /\ \E i \in Ids \ used :
               /\ used' = used \cup {i}
               /\ live' = live \cup {i}
               /\ lbl' = [lbl EXCEPT ![i] = e.labels]
               /\ res' = [res EXCEPT ![c] = @ \cup {i}]
               /\ work' = [work EXCEPT ![c] = Tail(@)]
               /\ IF Tail(work[c]) = <<>>
                    THEN Respond(c, 201, res'[c])
                    ELSE UNCHANGED <<cst, resp>>
    /\ UNCHANGED <<req, ret, calls, netFaults>>

\* Delete: find one entity matching the query and delete it, until none
\* matches; then 200 with the deleted entities.
ServeDelete(c) ==
    /\ cst[c] = "serving"
    /\ req[c].m = "delete"
    /\ \/ \E i \in live :
            /\ Matches(i, req[c].q)
            /\ live' = live \ {i}
            /\ res' = [res EXCEPT ![c] = @ \cup {i}]
            /\ UNCHANGED <<lbl, used, cst, resp>>
       \/ /\ \A i \in live : ~Matches(i, req[c].q)
          /\ Respond(c, 200, res[c])
          /\ UNCHANGED <<storeVars, res>>
    /\ UNCHANGED <<req, work, ret, calls, netFaults>>

-----------------------------------------------------------------------------
Caller(c) ==
    \/ \E b \in Batches : Insert(c, b)
    \/ \E q \in Queries, p \in Patches : Update(c, q, p)
    \/ \E i \in Ids \cup {NoId}, p \in UNION {Range(s) : s \in Patches} :
         UpdateOne(c, i, p)
    \/ \E q \in Queries : Delete(c, q) \/ Query(c, q)
    \/ \E i \in Ids \cup {NoId} : DeleteOne(c, i) \/ Labels(c, i)
    \/ \E i \in Ids \cup {NoId}, l \in LabelNames \cup {""} : DeleteLabel(c, i, l)
    \/ Receive(c)

Network(c) == LoseRequest(c) \/ LoseResponse(c)

Server(c) == Accept(c) \/ ServeInsert(c) \/ ServeDelete(c)

Next == \E c \in Callers : Caller(c) \/ Network(c) \/ Server(c)

Spec == Init /\ [][Next]_vars

-----------------------------------------------------------------------------
\* No call panics: UpdateOne, DeleteOne and DeleteLabel index wr[0] only
\* when there is a write result ("On success, there should always be a
\* list of write results", write).
NoIndexPanic ==
    \A c \in Callers : ret[c].kind # "panic"

\* When the server answered, the call reports every entity the server wrote
\* for it: store errors come back "with any partial-success data (ids-so-far
\* for insert)" (spec.md 7).
PartialWritesReported ==
    \A c \in Callers :
        ret[c].kind \in {"ok", "err"} /\ resp[c].status # 0 =>
            res[c] \subseteq ret[c].ids

=============================================================================
