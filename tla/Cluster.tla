------------------------------ MODULE Cluster ------------------------------
(***************************************************************************)
(* Start-up of the program: the core process (main-process.service.ts)     *)
(* forks the workers, waits until each has reported READY and then sends   *)
(* READY to all; a worker (worker.service.ts) starts its work on that      *)
(* message.  A worker that exits is not forked again.                      *)
(***************************************************************************)
EXTENDS Naturals, FiniteSets

CONSTANT Workers

VARIABLES
    worker,     \* worker -> state of its process
    toMain,     \* workers whose READY is on its way to the core process
    isReady,    \* workers whose READY has arrived
    broadcast,  \* handleAllWorkerReady: waiting, in its delay, or done
    toWorker    \* workers to which READY is on its way

clusterVars == <<worker, toMain, isReady, broadcast, toWorker>>

WorkerStates == {"forked", "inited", "started", "exited"}

\* clusterize: the workers are all in workerMap before any message arrives.
ClusterInit ==
    /\ worker = [w \in Workers |-> "forked"]
    /\ toMain = {}
    /\ isReady = {}
    /\ broadcast = "waiting"
    /\ toWorker = {}

\* The worker's module has been initialised.
ready(w) ==
    /\ worker[w] = "forked"
    /\ worker' = [worker EXCEPT ![w] = "inited"]
    /\ toMain' = toMain \cup {w}
    /\ UNCHANGED <<isReady, broadcast, toWorker>>

\* Faults: some instead of every; every, before this worker's flag is set.
IsAllReadySome(w) == isReady \cup {w} # {}
IsAllReadyBefore(w) == Workers \subseteq isReady
IsAllReady(w) == Workers \subseteq isReady \cup {w}

\* The core process receives READY; the first time all are ready it starts
\* the delay of three seconds.
onReceivedMessage(w) ==
    /\ w \in toMain
    /\ toMain' = toMain \ {w}
    /\ isReady' = isReady \cup {w}
    /\ broadcast' = IF broadcast = "waiting" /\ IsAllReady(w) THEN "delayed" ELSE broadcast
    /\ UNCHANGED <<worker, toWorker>>

\* The delay is over.  Sending to a worker that is gone emits an error nobody
\* listens to: the core process ends, and every worker with it.
handleAllWorkerReady ==
    /\ broadcast = "delayed"
    /\ broadcast' = "done"
    /\ IF \E w \in Workers : worker[w] = "exited"
       THEN worker' = [w \in Workers |-> "exited"] /\ toWorker' = {}
       ELSE toWorker' = Workers /\ UNCHANGED worker
    /\ UNCHANGED <<toMain, isReady>>

\* The worker receives READY: what waits for onReadyObserver goes on.
onReady(w) ==
    /\ w \in toWorker
    /\ worker[w] = "inited"
    /\ worker' = [worker EXCEPT ![w] = "started"]
    /\ toWorker' = toWorker \ {w}
    /\ UNCHANGED <<toMain, isReady, broadcast>>

\* The process of a worker ends: the core process only logs it.
Exit(w) ==
    /\ worker[w] # "exited"
    /\ worker' = [worker EXCEPT ![w] = "exited"]
    /\ UNCHANGED <<toMain, isReady, broadcast, toWorker>>

\* The whole program is started again.
ClusterRestart ==
    /\ worker' = [w \in Workers |-> "forked"]
    /\ toMain' = {}
    /\ isReady' = {}
    /\ broadcast' = "waiting"
    /\ toWorker' = {}

ClusterStep ==
    \/ \E w \in Workers : ready(w) \/ onReceivedMessage(w) \/ onReady(w)
    \/ handleAllWorkerReady

-----------------------------------------------------------------------------
\* No worker starts its work before every worker has been initialised, though
\* workers may exit and messages be under way.
NobodyStartsEarly ==
    (\E w \in Workers : worker[w] = "started") => \A w \in Workers : worker[w] # "forked"
=============================================================================
