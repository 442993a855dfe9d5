------------------------------ MODULE Persistence ------------------------------
(***************************************************************************)
(* The two halves of saving: the snapshot in SQLite, and the JSON copy of  *)
(* what has been saved.  All that passes between them is the store of a    *)
(* save that succeeded, in the order of the saves; a behaviour exercises   *)
(* one half.                                                               *)
(***************************************************************************)
EXTENDS StoreSnapshot

CONSTANTS Paths, Flushers, Worker, MaxPending, MaxStores, SpawnFails

ASSUME QueueAssumption ==
    /\ Worker \notin Flushers
    /\ MaxPending \in Nat \ {0}
    /\ MaxStores \in Nat
    /\ SpawnFails \in BOOLEAN

VARIABLES half, saved, queued, pending, order, writing, started, worker, job, file, tried, flush, asked

Json == INSTANCE CompatibilitySnapshot

jsonVars == <<saved, queued, pending, order, writing, started, worker, job, file, tried, flush, asked>>

SavingInit == half \in {"sqlite", "json"} /\ Init /\ Json!Init

SqliteStep == half = "sqlite" /\ Next /\ UNCHANGED <<half, jsonVars>>

JsonStep(step) == half = "json" /\ step /\ UNCHANGED <<half, vars>>

SavingNext == SqliteStep \/ JsonStep(Json!Next)

\* The worker is a thread of its own; a flusher's wait has a timeout.
SavingFairness ==
    /\ WF_jsonVars(JsonStep(Json!WorkerStep))
    /\ \A f \in Flushers : WF_jsonVars(JsonStep(Json!FlushChecks(f) \/ Json!FlushTimesOut(f)))

SavingSpec == SavingInit /\ [][SavingNext]_<<half, vars, jsonVars>> /\ SavingFairness

\* A JSON file never goes back to an older store, and a flush that returns Ok
\* means that the worker is done with every store enqueued before the call.  No
\* wake-up is lost on the condition variable that worker and flushers share: once
\* the worker runs, a store that was enqueued is written, it or a later one.
StoresAreTried == Json!FlushedMeansTried /\ Json!EveryStoreTried
=============================================================================
