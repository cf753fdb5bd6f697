-------------------------- MODULE EntityClient_proofs --------------------------
(***************************************************************************)
(* Proofs about the entity client: the type invariant, for any number of  *)
(* goroutines, entities, labels, calls and lost or hung exchanges.         *)
(***************************************************************************)
EXTENDS EntityClient, TLAPS

\* What each goroutine's call has reached, beyond the types: an insert in
\* flight has entities left, so the entity the server inserts next is
\* Head(work[c]), and only Insert and Delete are served in several steps.
CallInv(c) ==
    /\ cst[c] = "sent" /\ req[c].m = "insert" => req[c].batch # <<>>
    /\ cst[c] = "serving" => req[c].m \in {"insert", "delete"}
    /\ cst[c] = "serving" /\ req[c].m = "insert" => work[c] # <<>>

IInv == TypeOK /\ \A c \in Callers : CallInv(c)

-----------------------------------------------------------------------------
LEMMA InitIInv == Init => IInv
<1> SUFFICES ASSUME Init PROVE IInv
    OBVIOUS
<1>1. NoReq \in Req
    <2>1. <<>> \in Seq(Ent)
        OBVIOUS
    <2> QED
        BY <2>1 DEF NoReq, Req, Queries, Methods
<1>2. TypeOK
    <2>1. live \subseteq used /\ used \subseteq Ids
        BY EntityClientAssumption DEF Init
    <2>2. lbl \in [Ids -> SUBSET LabelNames]
        BY DEF Init
    <2>3. cst \in [Callers -> {"idle", "sent", "serving", "responded"}]
              /\ req \in [Callers -> Req]
              /\ work \in [Callers -> Seq(Ent)]
              /\ res \in [Callers -> SUBSET Ids]
        BY <1>1 DEF Init
    <2>4. resp \in [Callers -> [status : Statuses, ids : SUBSET Ids]]
              /\ ret \in [Callers -> Returns]
        BY DEF Init, Statuses, Returns
    <2>5. calls \in 0..MaxCalls /\ netFaults \in 0..MaxNetFaults
        BY EntityClientAssumption DEF Init
    <2> QED
        BY <2>1, <2>2, <2>3, <2>4, <2>5 DEF TypeOK
<1>3. \A c \in Callers : CallInv(c)
    BY DEF Init, CallInv
<1> QED
    BY <1>2, <1>3 DEF IInv

\* The step of a method: Begin, then an error return or the request r.
LEMMA CallStep ==
    ASSUME IInv, NEW c \in Callers, NEW r, Begin(c),
           \/ Refuse(c)
           \/ /\ r \in Req
              /\ r.m = "insert" => r.batch # <<>>
              /\ Send(c, r)
    PROVE  IInv'
<1>1. TypeOK'
    <2>1. calls' \in 0..MaxCalls
        BY EntityClientAssumption DEF IInv, TypeOK, Begin
    <2>2. res' \in [Callers -> SUBSET Ids]
              /\ resp' \in [Callers -> [status : Statuses, ids : SUBSET Ids]]
        BY DEF IInv, TypeOK, Begin, Statuses
    <2>3. CASE Refuse(c)
        BY <2>1, <2>2, <2>3 DEF IInv, TypeOK, Refuse, Returns, storeVars
    <2>4. CASE r \in Req /\ Send(c, r)
        BY <2>1, <2>2, <2>4 DEF IInv, TypeOK, Send, Returns, storeVars
    <2> QED
        BY <2>3, <2>4
<1>2. \A d \in Callers : CallInv(d)'
    BY DEF IInv, TypeOK, CallInv, Begin, Refuse, Send, storeVars
<1> QED
    BY <1>1, <1>2 DEF IInv

LEMMA EmptyBatch == <<>> \in Seq(Ent)
    OBVIOUS

\* The calls of the methods of entityClient.
LEMMA MethodIInv ==
    ASSUME IInv, NEW c \in Callers,
           Caller(c) /\ ~Receive(c)
    PROVE  IInv'
<1> DEFINE Req1(m, q, b, i, l, one) == WriteReq(m, q, b, i, l, one) \in Req
<1>1. ASSUME NEW b \in Batches, Insert(c, b) PROVE IInv'
    <2>1. ~InsertRefused(b) => Req1("insert", NoQuery, b, NoId, "", FALSE)
        BY EntityClientAssumption DEF Req1, WriteReq, Req, Queries, Methods
    <2>2. ~InsertRefused(b) => b # <<>>
        BY DEF InsertRefused
    <2> QED
        BY <1>1, <2>1, <2>2, CallStep DEF Insert, WriteReq
<1>2. ASSUME NEW q \in Queries, NEW p \in Patches, Update(c, q, p) PROVE IInv'
    <2>1. Req1("update", q, p, NoId, "", FALSE)
        BY EntityClientAssumption DEF Req1, WriteReq, Req, Methods
    <2> QED
        BY <1>2, <2>1, CallStep DEF Update, WriteReq
<1>3. ASSUME NEW i \in Ids \cup {NoId}, NEW p \in UNION {Range(s) : s \in Patches},
             UpdateOne(c, i, p)
      PROVE  IInv'
    <2>1. p \in Ent
        BY EntityClientAssumption DEF Range
    <2>2. i # NoId => Req1("update", QId(i), <<p>>, NoId, "", TRUE)
        BY <2>1 DEF Req1, WriteReq, Req, Methods, QId, Queries
    <2> QED
        BY <1>3, <2>2, CallStep DEF UpdateOne, WriteReq
<1>4. ASSUME NEW q \in Queries, Delete(c, q) \/ Query(c, q) PROVE IInv'
    <2>1. Req1("delete", q, <<>>, NoId, "", FALSE) /\ Req1("query", q, <<>>, NoId, "", FALSE)
        BY DEF Req1, WriteReq, Req, Methods
    <2> QED
        BY <1>4, <2>1, CallStep DEF Delete, Query, WriteReq
<1>5. ASSUME NEW i \in Ids \cup {NoId}, DeleteOne(c, i) \/ Labels(c, i) PROVE IInv'
    <2>1. i # NoId => /\ Req1("delete", QId(i), <<>>, NoId, "", TRUE)
                      /\ Req1("labels", NoQuery, <<>>, i, "", FALSE)
        BY DEF Req1, WriteReq, Req, Methods, QId, Queries
    <2> QED
        BY <1>5, <2>1, CallStep DEF DeleteOne, Labels, WriteReq
<1>6. ASSUME NEW ii \in Ids \cup {NoId}, NEW ll \in LabelNames \cup {""},
             DeleteLabel(c, ii, ll)
      PROVE  IInv'
    <2>1. Req1("dellabel", NoQuery, <<>>, ii, ll, TRUE)
        <3>1. NoQuery \in Queries
            BY DEF Queries
        <3>4. <<>> \in Seq(Ent)
            BY EmptyBatch
        <3>5. "dellabel" \in Methods
            BY DEF Methods
        <3>2. ii \in Ids \cup {NoId} /\ ll \in LabelNames \cup {""}
            OBVIOUS
        <3> QED
            BY <3>1, <3>2, <3>4, <3>5 DEF Req1, WriteReq, Req
    <2> QED
        BY <1>6, <2>1, CallStep DEF DeleteLabel, WriteReq
<1> QED
    BY <1>1, <1>2, <1>3, <1>4, <1>5, <1>6 DEF Caller

\* The client reads an answer.
LEMMA ReceiveIInv ==
    ASSUME IInv, NEW c \in Callers, Receive(c)
    PROVE  IInv'
<1>1. TypeOK'
    BY DEF IInv, TypeOK, Receive, Returns, storeVars
<1>2. \A d \in Callers : CallInv(d)'
    BY DEF IInv, TypeOK, CallInv, Receive, storeVars
<1> QED
    BY <1>1, <1>2 DEF IInv

\* The exchange fails before the server saw the request or on the way back:
\* the call gets an error, or hangs.
LEMMA NetworkIInv ==
    ASSUME IInv, NEW c \in Callers, Network(c)
    PROVE  IInv'
<1>1. /\ cst[c] \in {"sent", "responded"}
      /\ netFaults' \in 0..MaxNetFaults
      /\ LoseExchange(c)
      /\ UNCHANGED <<storeVars, req, work, res, ret, calls>>
    BY EntityClientAssumption DEF Network, LoseRequest, LoseResponse, IInv, TypeOK
<1>2. CASE /\ cst' = [cst EXCEPT ![c] = "responded"]
           /\ resp' = [resp EXCEPT ![c] = [status |-> 0, ids |-> {}]]
    <2>1. TypeOK'
        BY <1>1, <1>2 DEF IInv, TypeOK, Statuses, storeVars
    <2>2. \A d \in Callers : CallInv(d)'
        BY <1>1, <1>2 DEF IInv, TypeOK, CallInv, storeVars
    <2> QED
        BY <2>1, <2>2 DEF IInv
<1>3. CASE cst' = [cst EXCEPT ![c] = "hung"] /\ UNCHANGED resp
    <2>1. TypeOK'
        BY <1>1, <1>3 DEF IInv, TypeOK, storeVars
    <2>2. \A d \in Callers : CallInv(d)'
        BY <1>1, <1>3 DEF IInv, TypeOK, CallInv, storeVars
    <2> QED
        BY <2>1, <2>2 DEF IInv
<1> QED
    BY <1>1, <1>2, <1>3 DEF LoseExchange

\* The server takes a request.
LEMMA AcceptIInv ==
    ASSUME IInv, NEW c \in Callers, Accept(c)
    PROVE  IInv'
<1> DEFINE r == req[c]
<1>0. /\ cst[c] = "sent"
      /\ r \in Req
      /\ UNCHANGED <<req, ret, calls, netFaults>>
    BY DEF Accept, IInv, TypeOK
<1>1. CASE /\ r.m \in {"insert", "delete"}
           /\ cst' = [cst EXCEPT ![c] = "serving"]
           /\ work' = [work EXCEPT ![c] = r.batch]
           /\ res' = [res EXCEPT ![c] = {}]
           /\ UNCHANGED <<storeVars, resp>>
    <2>1. TypeOK'
        BY <1>0, <1>1 DEF IInv, TypeOK, Req, storeVars
    <2>2. \A d \in Callers : CallInv(d)'
        BY <1>0, <1>1 DEF IInv, TypeOK, CallInv, storeVars
    <2> QED
        BY <2>1, <2>2 DEF IInv
<1>2. CASE /\ r.m = "update"
           /\ Respond(c, 400, {})
           /\ UNCHANGED <<storeVars, work, res>>
    <2>1. TypeOK'
        BY <1>0, <1>2 DEF IInv, TypeOK, Respond, Statuses, storeVars
    <2>2. \A d \in Callers : CallInv(d)'
        BY <1>0, <1>2 DEF IInv, TypeOK, CallInv, Respond, storeVars
    <2> QED
        BY <2>1, <2>2 DEF IInv
<1>3. CASE /\ r.m \in {"labels", "dellabel"}
           /\ Respond(c, 404, {})
           /\ UNCHANGED <<storeVars, work, res>>
    <2>1. TypeOK'
        BY <1>0, <1>3 DEF IInv, TypeOK, Respond, Statuses, storeVars
    <2>2. \A d \in Callers : CallInv(d)'
        BY <1>0, <1>3 DEF IInv, TypeOK, CallInv, Respond, storeVars
    <2> QED
        BY <2>1, <2>2 DEF IInv
<1>4. CASE /\ r.m = "labels"
           /\ Respond(c, 200, {})
           /\ UNCHANGED <<storeVars, work, res>>
    <2>1. TypeOK'
        BY <1>0, <1>4 DEF IInv, TypeOK, Respond, Statuses, storeVars
    <2>2. \A d \in Callers : CallInv(d)'
        BY <1>0, <1>4 DEF IInv, TypeOK, CallInv, Respond, WriteMethods, storeVars
    <2> QED
        BY <2>1, <2>2 DEF IInv
<1>5. CASE /\ r.m = "dellabel"
           /\ r.id \in live
           /\ lbl' = [lbl EXCEPT ![r.id] = @ \ {r.label}]
           /\ res' = [res EXCEPT ![c] = {r.id}]
           /\ Respond(c, 200, {r.id})
           /\ UNCHANGED <<live, used, work>>
    <2>1. TypeOK'
        BY <1>0, <1>5 DEF IInv, TypeOK, Respond, Statuses
    <2>2. \A d \in Callers : CallInv(d)'
        BY <1>0, <1>5 DEF IInv, TypeOK, CallInv, Respond
    <2> QED
        BY <2>1, <2>2 DEF IInv
<1>6. CASE /\ r.m = "query"
           /\ Respond(c, 200, {i \in live : Matches(i, r.q)})
           /\ UNCHANGED <<storeVars, work, res>>
    <2>1. TypeOK'
        BY <1>0, <1>6 DEF IInv, TypeOK, Respond, Statuses, storeVars
    <2>2. \A d \in Callers : CallInv(d)'
        BY <1>0, <1>6 DEF IInv, TypeOK, CallInv, Respond, WriteMethods, storeVars
    <2> QED
        BY <2>1, <2>2 DEF IInv
<1> QED
    BY <1>1, <1>2, <1>3, <1>4, <1>5, <1>6 DEF Accept

\* The server inserts the next entity of a batch, or stops at a duplicate.
LEMMA ServeInsertIInv ==
    ASSUME IInv, NEW c \in Callers, ServeInsert(c)
    PROVE  IInv'
<1> DEFINE e == Head(work[c])
<1>0. /\ cst[c] = "serving" /\ req[c].m = "insert"
      /\ work[c] \in Seq(Ent) /\ work[c] # <<>>
      /\ e \in Ent
      /\ UNCHANGED <<req, ret, calls, netFaults>>
    BY DEF ServeInsert, IInv, TypeOK, CallInv
<1>1. CASE /\ Respond(c, 409, res[c])
           /\ UNCHANGED <<storeVars, work, res>>
    <2>1. TypeOK'
        BY <1>0, <1>1 DEF IInv, TypeOK, Respond, Statuses, storeVars
    <2>2. \A d \in Callers : CallInv(d)'
        BY <1>0, <1>1 DEF IInv, TypeOK, CallInv, Respond, storeVars
    <2> QED
        BY <2>1, <2>2 DEF IInv
<1>2. ASSUME NEW i \in Ids \ used,
             used' = used \cup {i},
             live' = live \cup {i},
             lbl' = [lbl EXCEPT ![i] = e.labels],
             res' = [res EXCEPT ![c] = @ \cup {i}],
             work' = [work EXCEPT ![c] = Tail(@)],
             IF Tail(work[c]) = <<>>
               THEN Respond(c, 201, res'[c])
               ELSE UNCHANGED <<cst, resp>>
      PROVE  IInv'
    <2>1. Tail(work[c]) \in Seq(Ent)
        BY <1>0
    <2>2. /\ live' \subseteq used' /\ used' \subseteq Ids
          /\ lbl' \in [Ids -> SUBSET LabelNames]
          /\ work' \in [Callers -> Seq(Ent)]
          /\ res' \in [Callers -> SUBSET Ids]
        BY <1>0, <1>2, <2>1 DEF IInv, TypeOK, Ent
    <2>3. CASE Tail(work[c]) = <<>>
        <3>1. Respond(c, 201, res'[c])
            BY <1>2, <2>3
        <3>2. TypeOK'
            BY <1>0, <2>2, <3>1 DEF IInv, TypeOK, Respond, Statuses
        <3>3. \A d \in Callers : CallInv(d)'
            BY <1>0, <1>2, <3>1 DEF IInv, TypeOK, CallInv, Respond, WriteMethods
        <3> QED
            BY <3>2, <3>3 DEF IInv
    <2>4. CASE Tail(work[c]) # <<>>
        <3>1. UNCHANGED <<cst, resp>>
            BY <1>2, <2>4
        <3>2. TypeOK'
            BY <1>0, <2>2, <3>1 DEF IInv, TypeOK
        <3>3. \A d \in Callers : CallInv(d)'
            BY <1>0, <1>2, <2>4, <3>1 DEF IInv, TypeOK, CallInv
        <3> QED
            BY <3>2, <3>3 DEF IInv
    <2> QED
        BY <2>3, <2>4
<1> QED
    BY <1>1, <1>2 DEF ServeInsert

\* The server deletes one matching entity, or answers when none is left.
LEMMA ServeDeleteIInv ==
    ASSUME IInv, NEW c \in Callers, ServeDelete(c)
    PROVE  IInv'
<1>0. /\ cst[c] = "serving" /\ req[c].m = "delete"
      /\ UNCHANGED <<req, work, ret, calls, netFaults>>
    BY DEF ServeDelete
<1>1. ASSUME NEW i \in live,
             live' = live \ {i},
             res' = [res EXCEPT ![c] = @ \cup {i}],
             UNCHANGED <<lbl, used, cst, resp>>
      PROVE  IInv'
    <2>1. TypeOK'
        BY <1>0, <1>1 DEF IInv, TypeOK
    <2>2. \A d \in Callers : CallInv(d)'
        BY <1>0, <1>1 DEF IInv, TypeOK, CallInv
    <2> QED
        BY <2>1, <2>2 DEF IInv
<1>2. CASE /\ Respond(c, 200, res[c])
           /\ UNCHANGED <<storeVars, res>>
    <2>1. TypeOK'
        BY <1>0, <1>2 DEF IInv, TypeOK, Respond, Statuses, storeVars
    <2>2. \A d \in Callers : CallInv(d)'
        BY <1>0, <1>2 DEF IInv, TypeOK, CallInv, Respond, storeVars
    <2> QED
        BY <2>1, <2>2 DEF IInv
<1> QED
    BY <1>1, <1>2 DEF ServeDelete

LEMMA NextIInv == IInv /\ [Next]_vars => IInv'
<1> SUFFICES ASSUME IInv, [Next]_vars PROVE IInv'
    OBVIOUS
<1>1. CASE UNCHANGED vars
    BY <1>1 DEF IInv, TypeOK, CallInv, vars, storeVars, clientVars
<1>2. ASSUME NEW c \in Callers, Caller(c) \/ Network(c) \/ Server(c)
      PROVE  IInv'
    <2>1. CASE Receive(c)
        BY <2>1, ReceiveIInv
    <2>2. CASE Caller(c) /\ ~Receive(c)
        BY <2>2, MethodIInv
    <2>3. CASE Network(c)
        BY <2>3, NetworkIInv
    <2>4. CASE Server(c)
        BY <2>4, AcceptIInv, ServeInsertIInv, ServeDeleteIInv DEF Server
    <2> QED
        BY <1>2, <2>1, <2>2, <2>3, <2>4
<1> QED
    BY <1>1, <1>2 DEF Next

\* IInv holds in every state of every behaviour.
THEOREM IInvInvariant == Spec => []IInv
BY InitIInv, NextIInv, PTL DEF Spec

\* The type invariant TypeOK of the client and the entity store.
THEOREM TypeCorrect == Spec => []TypeOK
<1>1. IInv => TypeOK
    BY DEF IInv
<1> QED
    BY <1>1, IInvInvariant, PTL

=============================================================================
