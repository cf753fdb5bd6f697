------------------------------ MODULE ServerRun ------------------------------
(***************************************************************************)
(* Server.Run's wait for the databases, and Server.Stop (server.go).       *)
(*                                                                         *)
(* Run starts one connectToDatasource goroutine per datasource (the main   *)
(* one, and the CDC one when CDC is enabled).  Each pings its database     *)
(* until a ping succeeds or the server is stopped, and closes its done     *)
(* channel when it returns.  Run selects on the done channels (setting a   *)
(* channel to nil once received), the notify timer and stopChan: when all  *)
(* done channels were received it leaves DB_CONN_WAIT, starts the change   *)
(* stream server and runs the API; on stopChan it returns nil.  Stop       *)
(* closes stopChan and stops the API.  Go's select picks at random among   *)
(* the cases that are ready.  The notify timer only logs a warning and is  *)
(* left out.                                                               *)
(***************************************************************************)
CONSTANT DBs    \* datasources Run connects to: main, and cdc if enabled

ASSUME DBsAssumption == DBs # {}

VARIABLES
    dbUp,       \* dbUp[d]: datasource d answers pings
    conn,       \* conn[d]: connectToDatasource for d "pinging" or "returned"
    pinged,     \* pinged[d]: a ping of d succeeded
    waiting,    \* waiting[d]: Run still selects on d's done channel
    stopped,    \* stopChan is closed
    run         \* Run: "wait" in DB_CONN_WAIT, "serving", or "returned"

vars == <<dbUp, conn, pinged, waiting, stopped, run>>

TypeOK ==
    /\ dbUp \in [DBs -> BOOLEAN]
    /\ conn \in [DBs -> {"pinging", "returned"}]
    /\ pinged \in [DBs -> BOOLEAN]
    /\ waiting \in [DBs -> BOOLEAN]
    /\ stopped \in BOOLEAN
    /\ run \in {"wait", "serving", "returned"}

Init ==
    /\ dbUp \in [DBs -> BOOLEAN]
    /\ conn = [d \in DBs |-> "pinging"]
    /\ pinged = [d \in DBs |-> FALSE]
    /\ waiting = [d \in DBs |-> TRUE]
    /\ stopped = FALSE
    /\ run = "wait"

\* A database becomes reachable.
DbComesUp(d) ==
    /\ ~dbUp[d]
    /\ dbUp' = [dbUp EXCEPT ![d] = TRUE]
    /\ UNCHANGED <<conn, pinged, waiting, stopped, run>>

\* connectToDatasource: a ping succeeds; the goroutine returns and its
\* deferred close(doneChan) runs.  The stopped() check came before the
\* ping, so the ping may succeed after Stop.
PingOK(d) ==
    /\ conn[d] = "pinging"
    /\ dbUp[d]
    /\ conn' = [conn EXCEPT ![d] = "returned"]
    /\ pinged' = [pinged EXCEPT ![d] = TRUE]
    /\ UNCHANGED <<dbUp, waiting, stopped, run>>

\* connectToDatasource: the loop sees stopped() and the goroutine returns,
\* still closing doneChan.
PingLoopStops(d) ==
    /\ conn[d] = "pinging"
    /\ stopped
    /\ conn' = [conn EXCEPT ![d] = "returned"]
    /\ UNCHANGED <<dbUp, pinged, waiting, stopped, run>>

\* A variant of ReceiveDone that forgets to set the channel to nil.
ReceiveDoneKeep(d) ==
    /\ run = "wait"
    /\ waiting[d]
    /\ conn[d] = "returned"
    /\ run' = IF \A o \in DBs \ {d} : ~waiting[o] THEN "serving" ELSE "wait"
    /\ UNCHANGED <<dbUp, conn, pinged, waiting, stopped>>

\* Run's select receives from d's closed done channel and sets the channel
\* to nil; with no other channel left it breaks DB_CONN_WAIT and serves.
ReceiveDone(d) ==
    /\ run = "wait"
    /\ waiting[d]
    /\ conn[d] = "returned"
    /\ waiting' = [waiting EXCEPT ![d] = FALSE]
    /\ run' = IF \A o \in DBs \ {d} : ~waiting[o] THEN "serving" ELSE "wait"
    /\ UNCHANGED <<dbUp, conn, pinged, stopped>>

\* Run's select receives from the closed stopChan and returns nil.
ReceiveStop ==
    /\ run = "wait"
    /\ stopped
    /\ run' = "returned"
    /\ UNCHANGED <<dbUp, conn, pinged, waiting, stopped>>

\* Server.Stop closes stopChan (and stops the API).
Stop ==
    /\ ~stopped
    /\ stopped' = TRUE
    /\ UNCHANGED <<dbUp, conn, pinged, waiting, run>>

Next ==
    \/ \E d \in DBs : DbComesUp(d) \/ PingOK(d) \/ PingLoopStops(d)
                      \/ ReceiveDone(d)
    \/ ReceiveStop
    \/ Stop

\* Go's scheduler keeps runnable goroutines running, and a select with a
\* ready case eventually proceeds.  Databases coming up and Stop being
\* called are up to the environment.
Fairness ==
    /\ \A d \in DBs : WF_vars(PingOK(d)) /\ WF_vars(PingLoopStops(d))
    /\ WF_vars(\E d \in DBs : ReceiveDone(d) \/ ReceiveStop)

Spec == Init /\ [][Next]_vars

FairSpec == Spec /\ Fairness

-----------------------------------------------------------------------------
\* Run only gets past DB_CONN_WAIT, starting the change stream server and
\* the API, once every datasource answered a ping ("Verify we can connect
\* to the db", server.go:147).
ServeOnlyWhenConnected ==
    run = "serving" => \A d \in DBs : pinged[d]

\* Run does not stay in DB_CONN_WAIT once it has a reason to leave: the
\* server was stopped, or every database is reachable.
WaitLoopExits ==
    (stopped \/ \A d \in DBs : dbUp[d]) ~> (run # "wait")

=============================================================================
