------------------------- MODULE CompatibilitySnapshot -------------------------
(***************************************************************************)
(* The queue that keeps the JSON copy of the SessionStore up to date.      *)
(*                                                                         *)
(* Every successful save enqueues the store; one worker thread writes the  *)
(* latest store of each path to its JSON file.  The update command and the *)
(* exit path wait, with a timeout, until the queue is drained.  Worker and *)
(* waiters share one condition variable; an enqueue wakes one of them, the *)
(* end of a write wakes all.                                               *)
(*                                                                         *)
(* Every region in which the code holds the queue's mutex is one step.     *)
(* Saves of a path happen under the SessionStore mutex, so the stores of   *)
(* one path are numbered in the order of their enqueue calls.              *)
(***************************************************************************)
EXTENDS Naturals, Sequences, FiniteSets, SequencesExt

CONSTANTS
    Paths,        \* JSON files, one per data directory in use
    Flushers,     \* threads that wait for the queue to drain
    Worker,       \* the thread "portmate-json-compatibility"
    MaxPending,   \* MAX_PENDING_COMPATIBILITY_SNAPSHOTS
    MaxStores,    \* bound: stores saved per path
    SpawnFails    \* whether starting the worker thread may fail

VARIABLES
    saved,    \* per path: the last store committed to SQLite
    queued,   \* per path: the last store enqueued
    pending,  \* per path: the store waiting to be written, 0 for none
    order,    \* the paths with a pending store, in order of arrival
    writing,  \* the paths being written
    started,  \* worker_started
    worker,   \* the worker: off, ready to lock the queue, waiting or writing
    job,      \* the path and the store it is writing
    file,     \* per path: the store in the JSON file
    tried,    \* per path: the last store the worker has finished with
    flush,    \* per flusher: idle, ready to lock the queue, waiting, done or timedOut
    asked     \* per flusher: the stores enqueued when it was called

queueVars == <<pending, order, writing, started>>
vars == <<saved, queued, pending, order, writing, started, worker, job, file, tried, flush, asked>>

Stores == 0 .. MaxStores
NoJob == [path |-> CHOOSE p \in Paths : TRUE, store |-> 0]

TypeOK ==
    /\ saved \in [Paths -> Stores]
    /\ queued \in [Paths -> Stores]
    /\ pending \in [Paths -> Stores]
    /\ order \in Seq(Paths)
    /\ writing \subseteq Paths
    /\ started \in BOOLEAN
    /\ worker \in {"off", "ready", "waiting", "writing"}
    /\ job \in [path : Paths, store : Stores]
    /\ file \in [Paths -> Stores]
    /\ tried \in [Paths -> Stores]
    /\ flush \in [Flushers -> {"idle", "ready", "waiting", "done", "timedOut"}]
    /\ asked \in [Flushers -> [Paths -> Stores]]

Nothing == [p \in Paths |-> 0]

Init ==
    /\ saved = Nothing
    /\ queued = Nothing
    /\ pending = Nothing
    /\ order = <<>>
    /\ writing = {}
    /\ started = FALSE
    /\ worker = "off"
    /\ job = NoJob
    /\ file = Nothing
    /\ tried = Nothing
    /\ flush = [f \in Flushers |-> "idle"]
    /\ asked = [f \in Flushers |-> Nothing]

PendingPaths == {p \in Paths : pending[p] # 0}

-------------------------------------------------------------------------------
(* The condition variable: a woken thread locks the queue and tests again. *)

Waiting == {f \in Flushers : flush[f] = "waiting"}
            \cup (IF worker = "waiting" THEN {Worker} ELSE {})

\* The threads in W stop waiting; w is the worker's state otherwise.
Wake(W, w) ==
    /\ worker' = IF Worker \in W THEN "ready" ELSE w
    /\ flush' = [f \in Flushers |-> IF f \in W THEN "ready" ELSE flush[f]]

\* Mutant: nobody is woken.
NotifyNobody(w) == Wake({}, w)


NotifyOne(w) ==
    IF Waiting = {} THEN Wake({}, w) ELSE \E t \in Waiting : Wake({t}, w)

NotifyAll(w) == Wake(Waiting, w)

-------------------------------------------------------------------------------
(* enqueue_json_compatibility_snapshot, called after a successful save. *)

Full(p) == pending[p] = 0 /\ Cardinality(PendingPaths) >= MaxPending

OrderAfter(p) == IF pending[p] = 0 THEN Append(order, p) ELSE order


Enqueue(p) ==
    /\ saved[p] < MaxStores
    /\ saved' = [saved EXCEPT ![p] = @ + 1]
    /\ ~ Full(p)
    /\ queued' = [queued EXCEPT ![p] = saved'[p]]
    /\ pending' = [pending EXCEPT ![p] = saved'[p]]
    /\ order' = OrderAfter(p)
    /\ \/ /\ started' = TRUE
          /\ NotifyOne(IF started THEN worker ELSE "ready")
       \* The thread cannot be started: the store stays pending.
       \/ /\ SpawnFails /\ ~ started
          /\ UNCHANGED <<started, worker, flush>>
    /\ UNCHANGED <<writing, job, file, tried, asked>>

\* The queue is full: the save stands, its JSON copy is not scheduled.
EnqueueRefused(p) ==
    /\ saved[p] < MaxStores
    /\ Full(p)
    /\ saved' = [saved EXCEPT ![p] = @ + 1]
    /\ UNCHANGED <<queued, queueVars, worker, job, file, tried, flush, asked>>

-------------------------------------------------------------------------------
(* compatibility_snapshot_worker. *)

WorkerWaits ==
    /\ worker = "ready"
    /\ order = <<>>
    /\ worker' = "waiting"
    /\ UNCHANGED <<saved, queued, queueVars, job, file, tried, flush, asked>>

\* The front path is taken with its latest store.
WorkerTakes ==
    /\ worker = "ready"
    /\ order # <<>>
    /\ worker' = "writing"
    /\ job' = [path |-> Head(order), store |-> pending[Head(order)]]
    /\ order' = Tail(order)
    /\ pending' = [pending EXCEPT ![Head(order)] = 0]
    /\ writing' = writing \cup {Head(order)}
    /\ UNCHANGED <<saved, queued, started, file, tried, flush, asked>>

\* save_store_json replaces the file or fails and is logged; then the path is
\* not being written any more and everybody is woken.
WorkerWrites ==
    /\ worker = "writing"
    /\ \/ file' = [file EXCEPT ![job.path] = job.store]
       \/ file' = file
    /\ tried' = [tried EXCEPT ![job.path] = job.store]
    /\ writing' = writing \ {job.path}
    /\ NotifyAll("ready")
    /\ UNCHANGED <<saved, queued, pending, order, started, job, asked>>

-------------------------------------------------------------------------------
(* flush_json_compatibility_snapshots. *)

FlushCall(f) ==
    /\ flush[f] = "idle"
    /\ flush' = [flush EXCEPT ![f] = "ready"]
    /\ asked' = [asked EXCEPT ![f] = queued]
    /\ UNCHANGED <<saved, queued, queueVars, worker, job, file, tried>>

\* Mutant: a store being written does not count.
NothingPending == PendingPaths = {}


Finished == PendingPaths = {} /\ writing = {}

FlushChecks(f) ==
    /\ flush[f] = "ready"
    /\ flush' = [flush EXCEPT ![f] = IF Finished THEN "done" ELSE "waiting"]
    /\ UNCHANGED <<saved, queued, queueVars, worker, job, file, tried, asked>>

\* The time is up: an error, unless the queue has just drained.
FlushTimesOut(f) ==
    /\ flush[f] \in {"ready", "waiting"}
    /\ flush' = [flush EXCEPT ![f] = IF Finished THEN "done" ELSE "timedOut"]
    /\ UNCHANGED <<saved, queued, queueVars, worker, job, file, tried, asked>>

-------------------------------------------------------------------------------
WorkerStep == WorkerWaits \/ WorkerTakes \/ WorkerWrites

Next ==
    \/ \E p \in Paths : Enqueue(p) \/ EnqueueRefused(p)
    \/ WorkerStep
    \/ \E f \in Flushers : FlushCall(f) \/ FlushChecks(f) \/ FlushTimesOut(f)

Spec == Init /\ [][Next]_vars

-------------------------------------------------------------------------------
(* Properties. *)

\* A JSON file never goes back to an older store, and a flush that returns Ok
\* means that the worker is done with every store enqueued before the call.
FlushedMeansTried ==
    [][/\ \A p \in Paths : file'[p] >= file[p]
       /\ \A f \in Flushers :
            flush'[f] = "done" => \A p \in Paths : tried'[p] >= asked[f][p]]_vars

\* No wake-up is lost on the shared condition variable: once the worker runs,
\* a store that was enqueued is written, it or a later one.
EveryStoreTried ==
    \A p \in Paths : \A n \in 1 .. MaxStores :
        started /\ queued[p] = n ~> tried[p] >= n
=============================================================================
