-------------------------- MODULE TransferQueueProofs --------------------------
(* Proofs about TransferQueue for every workload and every limit.            *)
EXTENDS TransferQueue, TLAPS

-----------------------------------------------------------------------------
(* What the operators on stores return.                                     *)

\* Forgetting records keeps a store a store: the records in D are gone, the
\* others are untouched.
LEMMA ForgetStore ==
    ASSUME NEW st \in Stores, NEW D
    PROVE  /\ Forget(st, D) \in Stores
           /\ Forget(st, D).profiles = st.profiles
           /\ \A t \in Tasks : Forget(st, D).status[t]
                                 = IF t \in D THEN "none" ELSE st.status[t]
  BY DEF Forget, Stores, Statuses

\* trim_transfer_history drops terminal records only.
LEMMA TrimStore ==
    ASSUME NEW st \in Stores, NEW s
    PROVE  /\ TrimHistory(st, s) \in Stores
           /\ \A t \in Tasks :
                 /\ TrimHistory(st, s).status[t] \in {st.status[t], "none"}
                 /\ st.status[t] \notin Terminal
                    => TrimHistory(st, s).status[t] = st.status[t]
<1> DEFINE D == Surplus(st, s)
<1>1. \A t \in D : st.status[t] \in Terminal
  BY DEF Surplus, TasksOf
<1>2. TrimHistory(st, s) = Forget(st, D)
  BY DEF TrimHistory
<1> QED
  BY <1>1, <1>2, ForgetStore

\* Stamping gives one record a new status.
LEMMA StampStore ==
    ASSUME NEW st \in Stores, NEW t \in Tasks, NEW new \in Statuses
    PROVE  /\ Stamp(st, t, new) \in Stores
           /\ \A u \in Tasks : Stamp(st, t, new).status[u]
                                 = IF u = t THEN new ELSE st.status[u]
  BY DEF Stamp, Stores

\* normalize_interrupted_transfers and the rest of loading leave no record
\* active and invent none.
LEMMA LoadedStore ==
    ASSUME NEW st \in Stores
    PROVE  /\ Loaded(st) \in Stores
           /\ \A t \in Tasks : /\ Loaded(st).status[t] \notin Active
                               /\ st.status[t] = "none" => Loaded(st).status[t] = "none"
<1> DEFINE kept == Forget(st, {t \in Tasks : SessionOf[t] \notin st.profiles})
           failed == Interrupted(kept)
           surplus == UNION {Surplus(failed, s) : s \in Sessions}
<1>1. kept \in Stores /\ \A t \in Tasks : kept.status[t] \in {"none", st.status[t]}
  BY ForgetStore
<1>2. failed \in Stores
  <2> HIDE DEF kept
  <2> QED  BY <1>1 DEF Interrupted, Stores, Statuses, Terminal, Active, ActiveTasks
<1>3. \A t \in Tasks : /\ failed.status[t] \notin Active
                       /\ kept.status[t] = "none" => failed.status[t] = "none"
  <2> HIDE DEF kept
  <2> QED  BY <1>1 DEF Interrupted, Stores, Active, ActiveTasks
<1>4. Loaded(st) = Forget(failed, surplus)
  BY DEF Loaded
<1> HIDE DEF kept, failed, surplus
<1>5. \A t \in Tasks : st.status[t] = "none" => failed.status[t] = "none"
  BY <1>1, <1>3
<1> QED
  BY <1>2, <1>3, <1>4, <1>5, ForgetStore DEF Active

\* The stores an action writes.
LEMMA WrittenStores ==
    ASSUME TypeOK, NEW t \in Tasks
    PROVE  /\ EnqueuedStore(t) \in Stores
           /\ MarkedStore(t) \in Stores
           /\ CancelledStore(t) \in Stores
           /\ \A final \in Statuses :
                TrimHistory(Stamp(store, t, final), SessionOf[t]) \in Stores
           /\ \A s \in Sessions : WithoutProfile(s) \in Stores
<1> USE DEF Statuses, Active, Terminal
<1>1. store \in Stores
  BY DEF TypeOK
<1>2. EnqueuedStore(t) \in Stores
  BY <1>1, StampStore, TrimStore DEF EnqueuedStore
<1>3. MarkedStore(t) \in Stores
  BY <1>1 DEF MarkedStore, Stores
<1>4. CancelledStore(t) \in Stores
  BY <1>1, StampStore, TrimStore DEF CancelledStore
<1>5. \A final \in Statuses :
        TrimHistory(Stamp(store, t, final), SessionOf[t]) \in Stores
  BY <1>1, StampStore, TrimStore
<1>6. ASSUME NEW s \in Sessions PROVE WithoutProfile(s) \in Stores
  <2>1. Forget(store, TasksOf(s)) \in Stores
    BY <1>1, ForgetStore
  <2> HIDE DEF Statuses
  <2> QED  BY <1>1, <2>1 DEF WithoutProfile, WithProfiles, Stores
<1> QED
  BY <1>2, <1>3, <1>4, <1>5, <1>6

-----------------------------------------------------------------------------
(* Type correctness.                                                        *)

LEMMA TypeInit == Init => TypeOK
  BY WorkloadAssumption
  DEF Init, TypeOK, Stores, Statuses, LinkStates, Labels, NoCancel

LEMMA RunnerType ==
    ASSUME TypeOK, NEW t \in Tasks, Runner(t) PROVE TypeOK'
<1> USE WorkloadAssumption
<1> USE DEF TypeOK, RunnerFrame, FinishAs, Goto, linkVars, updateVars, deleteVars,
            persistVars, tokenVars, Terminal, Labels
<1>1. CASE TakeLane(t)
  BY <1>1 DEF TakeLane
<1>2. CASE CancelledInLine(t)
  BY <1>2 DEF CancelledInLine
<1>3. CASE Gate(t)
  BY <1>3 DEF Gate
<1>4. CASE Validate(t)
  BY <1>4 DEF Validate, SshRuntime
<1>5. CASE MarkTransferRunning(t)
  <2>1. store' \in Stores /\ disk' \in Stores
    BY <1>5, WrittenStores DEF MarkTransferRunning, MarkRefused
  <2> QED
    BY <1>5, <2>1 DEF MarkTransferRunning, MarkRefused
<1>6. CASE BindModem(t)
  BY <1>6 DEF BindModem
<1>7. CASE TransferAborts(t)
  BY <1>7 DEF TransferAborts
<1>8. CASE TransferEnds(t)
  <2>1. PICK result \in Terminal : FinishAs(t, result)
    BY <1>8 DEF TransferEnds
  <2>2. UNCHANGED <<persistVars, expected, binding, laneOf, holds, tokenVars>> /\ RunnerFrame
    BY <1>8 DEF TransferEnds
  <2> QED
    BY <2>1, <2>2
<1>9. CASE FinishCleanup(t)
  BY <1>9 DEF FinishCleanup, DropRegistrations
<1>10. CASE FinishCommit(t)
  <2>1. store' \in Stores /\ disk' \in Stores
    BY <1>10, WrittenStores DEF FinishCommit, FinalStatus, PersistApplied, Statuses
  <2> QED
    BY <1>10, <2>1 DEF FinishCommit, Exit
<1> QED
  BY <1>1, <1>2, <1>3, <1>4, <1>5, <1>6, <1>7, <1>8, <1>9, <1>10 DEF Runner

LEMMA TypeNext == TypeOK /\ [Next]_vars => TypeOK'
<1> SUFFICES ASSUME TypeOK, [Next]_vars PROVE TypeOK'
  OBVIOUS
<1> USE WorkloadAssumption
<1> USE DEF TypeOK, persistVars, linkVars, runnerVars, tokenVars, updateVars, deleteVars
<1>1. CASE UNCHANGED vars
  BY <1>1 DEF vars
<1>2. ASSUME NEW s \in Sessions, InstallRuntime(s) PROVE TypeOK'
  BY <1>2 DEF InstallRuntime, LinkStates
<1>3. ASSUME NEW s \in Sessions, LoseRuntime(s) PROVE TypeOK'
  BY <1>3 DEF LoseRuntime, LinkSteps, LinkStates
<1>4. ASSUME NEW s \in Sessions, DeleteProfile(s) PROVE TypeOK'
  <2>1. WithoutProfile(s) \in Stores
    BY ForgetStore DEF WithoutProfile, WithProfiles, Stores
  <2> QED  BY <1>4, <2>1 DEF DeleteProfile, TasksOf
<1>5. ASSUME NEW s \in Sessions, DeleteUnknown(s) PROVE TypeOK'
  <2>1. WithoutProfile(s) \in Stores
    BY ForgetStore DEF WithoutProfile, WithProfiles, Stores
  <2> QED  BY <1>5, <2>1 DEF DeleteUnknown
<1>6. ASSUME NEW s \in Sessions, DeleteCleanup(s) PROVE TypeOK'
  BY <1>6 DEF DeleteCleanup
<1>7. ASSUME NEW s \in Sessions, CreateProfile(s) PROVE TypeOK'
  <2>1. disk' \in Stores /\ store' \in Stores
    BY <1>7 DEF CreateProfile, WithProfiles, Stores
  <2> QED  BY <1>7, <2>1 DEF CreateProfile
<1>8. ASSUME NEW t \in Tasks, Submit(t) PROVE TypeOK'
  BY <1>8 DEF Submit, TransferLane, SshRuntime, Labels
<1>9. ASSUME NEW t \in Tasks, Enqueue(t) PROVE TypeOK'
  BY <1>9, WrittenStores DEF Enqueue, Labels
<1>10. ASSUME NEW t \in Tasks, RefuseEnqueue(t) PROVE TypeOK'
  BY <1>10, WrittenStores DEF RefuseEnqueue, Exit, DropRegistrations, Labels
<1>11. ASSUME NEW t \in Tasks, Runner(t) PROVE TypeOK'
  BY <1>11, RunnerType
<1>12. ASSUME NEW t \in Tasks, UpdateCancel(t) PROVE TypeOK'
  BY <1>12 DEF UpdateCancel, LookUp, UpdateFrame, Cancellers
<1>13. ASSUME NEW c \in Users, NEW t \in Tasks, CancelBegin(c, t) PROVE TypeOK'
  BY <1>13 DEF CancelBegin, LookUp, Cancellers
<1>14. ASSUME NEW c \in Cancellers, CancelCommit(c) PROVE TypeOK'
  <2> DEFINE t == cancelling[c].task
  <2>1. t \in Tasks
    BY <1>14 DEF CancelCommit
  <2>2. CancelledStore(t) \in Stores
    BY <2>1, WrittenStores
  <2> QED
    BY <1>14, <2>1, <2>2 DEF CancelCommit, TokensAfterCancel, PersistApplied, NoCancel
<1>15. ASSUME NEW c \in Cancellers, CancelUnknown(c) PROVE TypeOK'
  BY <1>15 DEF CancelUnknown, NoCancel
<1>16. CASE UpdateBegin
  BY <1>16 DEF UpdateBegin, UpdateFrame
<1>17. CASE UpdateSnapshot
  BY <1>17 DEF UpdateSnapshot, UpdateFrame, ActiveTasks
<1>18. CASE UpdatePrepared
  BY <1>18 DEF UpdatePrepared, UpdateFrame
<1>19. CASE UpdateFails
  BY <1>19 DEF UpdateFails, UpdateFrame
<1>20. CASE Restart
  BY <1>20, LoadedStore DEF Restart, LinkStates, Labels, NoCancel
<1> QED
  BY <1>1, <1>2, <1>3, <1>4, <1>5, <1>6, <1>7, <1>8, <1>9, <1>10, <1>11, <1>12,
     <1>13, <1>14, <1>15, <1>16, <1>17, <1>18, <1>19, <1>20
  DEF Next, Retry

\* Every variable keeps its type, for every workload.
THEOREM TypeCorrect == Spec => []TypeOK
<1>1. Init => TypeOK
  BY TypeInit
<1>2. TypeOK /\ [Next]_vars => TypeOK'
  BY TypeNext
<1> QED
  BY <1>1, <1>2, PTL DEF Spec

-----------------------------------------------------------------------------
(* The safety invariant.                                                    *)

LEMMA QueueInit == Init => QueueInvariant
  BY WorkloadAssumption
  DEF Init, QueueInvariant, NoRecordYet, ActiveHasRunner, EndedRecordStopsRunner,
         TokenReachable, LateCancels, TodoKnown, DoomedStopped, CommitUnregistered,
         SettledIsDone, NoLeak, UpdateCovers, Pending, Working, Finishing,
         Active, NoCancel, ActiveTasks

\* What each kind of commit does to the records' statuses.
LEMMA EnqueuedStatus ==
    ASSUME TypeOK, NEW t \in Tasks
    PROVE  \A u \in Tasks :
              /\ u = t => EnqueuedStore(t).status[u] = "Queued"
              /\ u # t => EnqueuedStore(t).status[u] \in {store.status[u], "none"}
              /\ u # t /\ store.status[u] \notin Terminal
                   => EnqueuedStore(t).status[u] = store.status[u]
<1> DEFINE st == Stamp(store, t, "Queued")
<1>1. st \in Stores /\ \A u \in Tasks :
         st.status[u] = IF u = t THEN "Queued" ELSE store.status[u]
  BY StampStore DEF TypeOK, Statuses, Active
<1>2. EnqueuedStore(t) = TrimHistory(st, SessionOf[t])
  BY DEF EnqueuedStore
<1> HIDE DEF st
<1> QED
  BY <1>1, <1>2, TrimStore DEF Terminal

LEMMA FinishedStatus ==
    ASSUME TypeOK, NEW t \in Tasks, NEW final \in Statuses
    PROVE  LET st == TrimHistory(Stamp(store, t, final), SessionOf[t]) IN
           \A u \in Tasks :
              /\ u = t => st.status[u] \in {final, "none"}
              /\ u # t => st.status[u] \in {store.status[u], "none"}
              /\ u # t /\ store.status[u] \notin Terminal
                   => st.status[u] = store.status[u]
<1> DEFINE stamped == Stamp(store, t, final)
<1>1. stamped \in Stores /\ \A u \in Tasks :
         stamped.status[u] = IF u = t THEN final ELSE store.status[u]
  BY StampStore DEF TypeOK
<1> HIDE DEF stamped
<1>2. \A u \in Tasks :
         /\ TrimHistory(stamped, SessionOf[t]).status[u] \in {stamped.status[u], "none"}
         /\ stamped.status[u] \notin Terminal
            => TrimHistory(stamped, SessionOf[t]).status[u] = stamped.status[u]
  BY <1>1, TrimStore
<1>3. \A u \in Tasks :
         LET st == TrimHistory(stamped, SessionOf[t]) IN
              /\ u = t => st.status[u] \in {final, "none"}
              /\ u # t => st.status[u] \in {store.status[u], "none"}
              /\ u # t /\ store.status[u] \notin Terminal
                   => st.status[u] = store.status[u]
  BY <1>1, <1>2
<1> QED
  BY <1>3 DEF stamped

LEMMA CancelledStatus ==
    ASSUME TypeOK, NEW t \in Tasks
    PROVE  \A u \in Tasks :
              /\ CancelledStore(t).status[u] \in {store.status[u], "Cancelled", "none"}
              /\ u = t => CancelledStore(t).status[u] \notin Active
              /\ u # t => CancelledStore(t).status[u] \in {store.status[u], "none"}
              /\ store.status[u] \notin Active \cup Terminal
                   => CancelledStore(t).status[u] = store.status[u]
              /\ u # t /\ store.status[u] \notin Terminal
                   => CancelledStore(t).status[u] = store.status[u]
              /\ u = t /\ store.status[u] \notin Active
                   => CancelledStore(t).status[u] \in {store.status[u], "none"}
<1>1. CASE store.status[t] \in Active
  <2>1. CancelledStore(t) = TrimHistory(Stamp(store, t, "Cancelled"), SessionOf[t])
    BY <1>1 DEF CancelledStore
  <2>2. "Cancelled" \in Statuses
    BY DEF Statuses, Terminal
  <2> QED
    BY <1>1, <2>1, <2>2, FinishedStatus DEF Active, Terminal
<1>2. CASE store.status[t] \notin Active
  <2>1. CancelledStore(t) = TrimHistory(store, SessionOf[t])
    BY <1>2 DEF CancelledStore
  <2>2. store \in Stores
    BY DEF TypeOK
  <2> QED
    BY <1>2, <2>1, <2>2, TrimStore DEF Active, Terminal
<1> QED
  BY <1>1, <1>2

\* Steps of a runner that neither touch the store nor the maps.
LEMMA RunnerSafe ==
    ASSUME TypeOK, QueueInvariant, NEW t \in Tasks, Runner(t)
    PROVE  QueueInvariant'
<1> USE DEF TypeOK, QueueInvariant, NoRecordYet, ActiveHasRunner,
            EndedRecordStopsRunner, TokenReachable, LateCancels, TodoKnown,
            DoomedStopped, CommitUnregistered, SettledIsDone, NoLeak,
            UpdateCovers, Pending, Working, Finishing,
            RunnerFrame, FinishAs, Goto, linkVars, updateVars, deleteVars,
            persistVars, tokenVars, ActiveTasks
<1>1. CASE TakeLane(t)
  BY <1>1 DEF TakeLane
<1>2. CASE CancelledInLine(t)
  BY <1>2 DEF CancelledInLine
<1>3. CASE Gate(t)
  BY <1>3 DEF Gate
<1>4. CASE Validate(t)
  BY <1>4 DEF Validate
<1>5. CASE MarkTransferRunning(t)
  <2>1. CASE MarkRefused(t) /\ UNCHANGED store
    <3>1. /\ pc[t] = "mark" /\ pc' = [pc EXCEPT ![t] = "cleanup"]
          /\ disk' \in {disk, MarkedStore(t)}
          /\ UNCHANGED <<store, registered, cancelled, staged, cancelling, todo, upd,
                         doomed>>
      BY <1>5, <2>1 DEF MarkTransferRunning, MarkRefused
    <3>2. \A u \in Tasks \ {t} : disk'.status[u] \in {disk.status[u], store.status[u]}
      BY <3>1 DEF MarkedStore, Stores
    <3> QED
      BY <3>1, <3>2
  <2>2. CASE ~(MarkRefused(t) /\ UNCHANGED store)
    <3>1. /\ store.status[t] \in Active
          /\ store' = MarkedStore(t) /\ disk' = store'
          /\ pc[t] = "mark" /\ pc' \in {[pc EXCEPT ![t] = "bind"],
                                         [pc EXCEPT ![t] = "transfer"]}
          /\ UNCHANGED <<registered, cancelled, staged, cancelling, todo, upd, doomed>>
      BY <1>5, <2>2 DEF MarkTransferRunning, Stores, Statuses, Active, Terminal
    <3>2. \A u \in Tasks : store'.status[u] = IF u = t THEN "Running" ELSE store.status[u]
      BY <3>1 DEF MarkedStore, Stores
    <3> QED
      <4>1. NoRecordYet'
        BY <3>1, <3>2 DEF Active
      <4>2. ActiveHasRunner'
        BY <3>1, <3>2 DEF Active
      <4>3. EndedRecordStopsRunner'
        BY <3>1, <3>2 DEF Active
      <4>4. TokenReachable'
        BY <3>1, <3>2 DEF Active
      <4>5. LateCancels'
        BY <3>1, <3>2 DEF Active
      <4>6. TodoKnown'
        BY <3>1, <3>2 DEF Active
      <4>7. DoomedStopped'
        BY <3>1, <3>2 DEF Active
      <4>8. CommitUnregistered'
        BY <3>1, <3>2 DEF Active
      <4>9. SettledIsDone'
        BY <3>1, <3>2 DEF Active
      <4>10. NoLeak'
        BY <3>1, <3>2 DEF Active
      <4>11. UpdateCovers'
        BY <3>1, <3>2 DEF Active
      <4> QED  BY <4>1, <4>2, <4>3, <4>4, <4>5, <4>6, <4>7, <4>8, <4>9, <4>10, <4>11
  <2> QED  BY <2>1, <2>2
<1>6. CASE BindModem(t)
  BY <1>6 DEF BindModem
<1>7. CASE TransferAborts(t)
  BY <1>7 DEF TransferAborts
<1>8. CASE TransferEnds(t)
  BY <1>8 DEF TransferEnds
<1>9. CASE FinishCleanup(t)
  BY <1>9 DEF FinishCleanup, DropRegistrations
<1>10. CASE FinishCommit(t)
  <2>1. CASE store.status[t] = "none"
    BY <1>10, <2>1 DEF FinishCommit, Exit, Active
  <2>2. CASE store.status[t] # "none"
    <3>1. FinalStatus(t) \in Statuses \ Active
      BY DEF FinalStatus, Statuses, Terminal, Active
    <3>2. store' = TrimHistory(Stamp(store, t, FinalStatus(t)), SessionOf[t])
      BY <1>10, <2>2 DEF FinishCommit
    <3>3. \A u \in Tasks :
            /\ u = t => store'.status[u] \notin Active
            /\ u # t => store'.status[u] \in {store.status[u], "none"}
            /\ u # t /\ store.status[u] \notin Terminal
                   => store'.status[u] = store.status[u]
      BY <3>1, <3>2, FinishedStatus DEF Active
    <3>4. pc[t] = "commit" /\ disk' \in {disk, store'}
      BY <1>10, <2>2 DEF FinishCommit, PersistApplied
    <3> QED
      <4>1. NoRecordYet'
        BY <1>10, <3>3, <3>4 DEF FinishCommit, Exit, Active, Terminal
      <4>2. ActiveHasRunner'
        BY <1>10, <3>3, <3>4 DEF FinishCommit, Exit, Active, Terminal
      <4>3. EndedRecordStopsRunner'
        BY <1>10, <3>3, <3>4 DEF FinishCommit, Exit, Active, Terminal
      <4>4. TokenReachable'
        BY <1>10, <3>3, <3>4 DEF FinishCommit, Exit, Active, Terminal
      <4>5. LateCancels'
        BY <1>10, <3>3, <3>4 DEF FinishCommit, Exit, Active, Terminal
      <4>6. TodoKnown'
        BY <1>10, <3>3, <3>4 DEF FinishCommit, Exit, Active, Terminal
      <4>7. DoomedStopped'
        BY <1>10, <3>3, <3>4 DEF FinishCommit, Exit, Active, Terminal
      <4>8. CommitUnregistered'
        BY <1>10, <3>3, <3>4 DEF FinishCommit, Exit, Active, Terminal
      <4>9. SettledIsDone'
        BY <1>10, <3>3, <3>4 DEF FinishCommit, Exit, Active, Terminal
      <4>10. NoLeak'
        BY <1>10, <3>3, <3>4 DEF FinishCommit, Exit, Active, Terminal
      <4>11. UpdateCovers'
        BY <1>10, <3>3, <3>4 DEF FinishCommit, Exit, Active, Terminal
      <4> QED  BY <4>1, <4>2, <4>3, <4>4, <4>5, <4>6, <4>7, <4>8, <4>9, <4>10, <4>11
  <2> QED  BY <2>1, <2>2
<1> QED
  BY <1>1, <1>2, <1>3, <1>4, <1>5, <1>6, <1>7, <1>8, <1>9, <1>10 DEF Runner

LEMMA QueueNext ==
    ASSUME TypeOK, QueueInvariant, [Next]_vars
    PROVE  QueueInvariant'
<1> USE WorkloadAssumption
<1> USE DEF TypeOK, QueueInvariant, NoRecordYet, ActiveHasRunner,
            EndedRecordStopsRunner, TokenReachable, LateCancels, TodoKnown,
            DoomedStopped, CommitUnregistered, SettledIsDone, NoLeak,
            UpdateCovers, Pending, Working, Finishing, persistVars, linkVars,
            runnerVars, tokenVars, updateVars, deleteVars, ActiveTasks
<1>1. CASE UNCHANGED vars
  BY <1>1 DEF vars
<1>2. ASSUME NEW s \in Sessions, InstallRuntime(s) PROVE QueueInvariant'
  BY <1>2 DEF InstallRuntime
<1>3. ASSUME NEW s \in Sessions, LoseRuntime(s) PROVE QueueInvariant'
  BY <1>3 DEF LoseRuntime
<1>4. ASSUME NEW s \in Sessions, DeleteProfile(s) PROVE QueueInvariant'
  <2>1. \A t \in Tasks :
          /\ store'.status[t] = IF t \in TasksOf(s) THEN "none" ELSE store.status[t]
          /\ t \in TasksOf(s) => store.status[t] \notin Active
    BY <1>4, ForgetStore DEF DeleteProfile, MayDelete, WithoutProfile, WithProfiles
  <2>2. \A t \in doomed'[s] : t \in TasksOf(s) /\ store.status[t] # "none"
    BY <1>4 DEF DeleteProfile
  <2> QED
    <3>1. NoRecordYet'
      BY <1>4, <2>1, <2>2 DEF DeleteProfile, Active, TasksOf
    <3>2. ActiveHasRunner'
      BY <1>4, <2>1, <2>2 DEF DeleteProfile, Active, TasksOf
    <3>3. EndedRecordStopsRunner'
      BY <1>4, <2>1, <2>2 DEF DeleteProfile, Active, TasksOf
    <3>4. TokenReachable'
      BY <1>4, <2>1, <2>2 DEF DeleteProfile, Active, TasksOf
    <3>5. LateCancels'
      BY <1>4, <2>1, <2>2 DEF DeleteProfile, Active, TasksOf
    <3>6. TodoKnown'
      BY <1>4, <2>1, <2>2 DEF DeleteProfile, Active, TasksOf
    <3>7. DoomedStopped'
      BY <1>4, <2>1, <2>2 DEF DeleteProfile, Active, TasksOf
    <3>8. CommitUnregistered'
      BY <1>4, <2>1, <2>2 DEF DeleteProfile, Active, TasksOf
    <3>9. SettledIsDone'
      BY <1>4, <2>1, <2>2 DEF DeleteProfile, Active, TasksOf
    <3>10. NoLeak'
      BY <1>4, <2>1, <2>2 DEF DeleteProfile, Active, TasksOf
    <3>11. UpdateCovers'
      BY <1>4, <2>1, <2>2 DEF DeleteProfile, Active, TasksOf
    <3> QED  BY <3>1, <3>2, <3>3, <3>4, <3>5, <3>6, <3>7, <3>8, <3>9, <3>10, <3>11
<1>5. ASSUME NEW s \in Sessions, DeleteUnknown(s) PROVE QueueInvariant'
  <2>1. \A t \in Tasks : disk'.status[t] \in {store.status[t], "none"}
    BY <1>5, ForgetStore DEF DeleteUnknown, WithoutProfile, WithProfiles
  <2> QED
    BY <1>5, <2>1 DEF DeleteUnknown
<1>6. ASSUME NEW s \in Sessions, DeleteCleanup(s) PROVE QueueInvariant'
  BY <1>6 DEF DeleteCleanup
<1>7. ASSUME NEW s \in Sessions, CreateProfile(s) PROVE QueueInvariant'
  <2>1. /\ store'.status = store.status
        /\ disk'.status = store.status
    BY <1>7 DEF CreateProfile, WithProfiles
  <2> QED
    <3>1. NoRecordYet'
      BY <1>7, <2>1 DEF CreateProfile
    <3>2. ActiveHasRunner'
      BY <1>7, <2>1 DEF CreateProfile
    <3>3. EndedRecordStopsRunner'
      BY <1>7, <2>1 DEF CreateProfile
    <3>4. TokenReachable'
      BY <1>7, <2>1 DEF CreateProfile
    <3>5. LateCancels'
      BY <1>7, <2>1 DEF CreateProfile
    <3>6. TodoKnown'
      BY <1>7, <2>1 DEF CreateProfile
    <3>7. DoomedStopped'
      BY <1>7, <2>1 DEF CreateProfile
    <3>8. CommitUnregistered'
      BY <1>7, <2>1 DEF CreateProfile
    <3>9. SettledIsDone'
      BY <1>7, <2>1 DEF CreateProfile
    <3>10. NoLeak'
      BY <1>7, <2>1 DEF CreateProfile
    <3>11. UpdateCovers'
      BY <1>7, <2>1 DEF CreateProfile
    <3> QED  BY <3>1, <3>2, <3>3, <3>4, <3>5, <3>6, <3>7, <3>8, <3>9, <3>10, <3>11
<1>8. ASSUME NEW t \in Tasks, Submit(t) PROVE QueueInvariant'
  BY <1>8 DEF Submit
<1>9. ASSUME NEW t \in Tasks, Enqueue(t) PROVE QueueInvariant'
  <2>1. store' = EnqueuedStore(t) /\ disk' = store' /\ upd = "idle"
    BY <1>9 DEF Enqueue, MayEnqueue, Updating
  <2>2. \A u \in Tasks :
              /\ u = t => store'.status[u] = "Queued"
              /\ u # t => store'.status[u] \in {store.status[u], "none"}
              /\ u # t /\ store.status[u] \notin Terminal
                   => store'.status[u] = store.status[u]
    BY <2>1, EnqueuedStatus
  <2> QED
    <3>1. NoRecordYet'
      BY <1>9, <2>1, <2>2 DEF Enqueue, Active, Terminal
    <3>2. ActiveHasRunner'
      BY <1>9, <2>1, <2>2 DEF Enqueue, Active, Terminal
    <3>3. EndedRecordStopsRunner'
      BY <1>9, <2>1, <2>2 DEF Enqueue, Active, Terminal
    <3>4. TokenReachable'
      BY <1>9, <2>1, <2>2 DEF Enqueue, Active, Terminal
    <3>5. LateCancels'
      BY <1>9 DEF Enqueue
    <3>6. TodoKnown'
      BY <1>9, <2>1, <2>2 DEF Enqueue, Active, Terminal
    <3>7. DoomedStopped'
      BY <1>9, <2>1, <2>2 DEF Enqueue, Active, Terminal
    <3>8. CommitUnregistered'
      BY <1>9, <2>1, <2>2 DEF Enqueue, Active, Terminal
    <3>9. SettledIsDone'
      BY <1>9, <2>1, <2>2 DEF Enqueue, Active, Terminal
    <3>10. NoLeak'
      BY <1>9, <2>1, <2>2 DEF Enqueue, Active, Terminal
    <3>11. UpdateCovers'
      BY <1>9, <2>1, <2>2 DEF Enqueue, Active, Terminal
    <3> QED  BY <3>1, <3>2, <3>3, <3>4, <3>5, <3>6, <3>7, <3>8, <3>9, <3>10, <3>11
<1>10. ASSUME NEW t \in Tasks, RefuseEnqueue(t) PROVE QueueInvariant'
  <2>1. disk' \in {disk, EnqueuedStore(t)}
    BY <1>10 DEF RefuseEnqueue
  <2>2. \A u \in Tasks \ {t} : disk'.status[u] \in {disk.status[u], store.status[u], "none"}
    BY <2>1, EnqueuedStatus
  <2> QED
    <3>1. NoRecordYet'
      BY <1>10, <2>2 DEF RefuseEnqueue, Exit, DropRegistrations, Active
    <3>2. ActiveHasRunner'
      BY <1>10, <2>2 DEF RefuseEnqueue, Exit, DropRegistrations, Active
    <3>3. EndedRecordStopsRunner'
      BY <1>10, <2>2 DEF RefuseEnqueue, Exit, DropRegistrations, Active
    <3>4. TokenReachable'
      BY <1>10, <2>2 DEF RefuseEnqueue, Exit, DropRegistrations, Active
    <3>5. LateCancels'
      BY <1>10, <2>2 DEF RefuseEnqueue, Exit, DropRegistrations, Active
    <3>6. TodoKnown'
      BY <1>10, <2>2 DEF RefuseEnqueue, Exit, DropRegistrations, Active
    <3>7. DoomedStopped'
      BY <1>10, <2>2 DEF RefuseEnqueue, Exit, DropRegistrations, Active
    <3>8. CommitUnregistered'
      BY <1>10, <2>2 DEF RefuseEnqueue, Exit, DropRegistrations, Active
    <3>9. SettledIsDone'
      BY <1>10, <2>2 DEF RefuseEnqueue, Exit, DropRegistrations, Active
    <3>10. NoLeak'
      BY <1>10, <2>2 DEF RefuseEnqueue, Exit, DropRegistrations, Active
    <3>11. UpdateCovers'
      BY <1>10, <2>2 DEF RefuseEnqueue, Exit, DropRegistrations, Active
    <3> QED  BY <3>1, <3>2, <3>3, <3>4, <3>5, <3>6, <3>7, <3>8, <3>9, <3>10, <3>11
<1>11. ASSUME NEW t \in Tasks, Runner(t) PROVE QueueInvariant'
  BY <1>11, RunnerSafe
<1>12. ASSUME NEW t \in Tasks, UpdateCancel(t) PROVE QueueInvariant'
  <2> QED
    <3>1. NoRecordYet'
      BY <1>12 DEF UpdateCancel, LookUp, UpdateFrame, Cancellers, NoCancel
    <3>2. ActiveHasRunner'
      BY <1>12 DEF UpdateCancel, LookUp, UpdateFrame, Cancellers, NoCancel
    <3>3. EndedRecordStopsRunner'
      BY <1>12 DEF UpdateCancel, LookUp, UpdateFrame, Cancellers, NoCancel
    <3>4. TokenReachable'
      BY <1>12 DEF UpdateCancel, LookUp, UpdateFrame, Cancellers, NoCancel
    <3>5. LateCancels'
      <4>1. /\ cancelling'[Updater].task = t
            /\ ~cancelling'[Updater].token => t \notin registered
            /\ \A d \in Cancellers \ {Updater} : cancelling'[d] = cancelling[d]
        BY <1>12 DEF UpdateCancel, LookUp, Cancellers
      <4>2. UNCHANGED <<pc, cancelled>> /\ pc[t] \notin Pending
        BY <1>12 DEF UpdateCancel, UpdateFrame
      <4>3. ASSUME NEW d \in Cancellers, NEW u \in Tasks, cancelling'[d].task = u
            PROVE  /\ pc'[u] \notin Pending
                   /\ ~cancelling'[d].token /\ pc'[u] \in Working => u \in cancelled'
        <5>1. CASE d = Updater
          <6>1. u = t
            BY <4>1, <4>3, <5>1
          <6> QED
            BY <4>1, <4>2, <5>1, <6>1 DEF Pending
        <5>2. CASE d # Updater
          BY <4>1, <4>2, <4>3, <5>2
        <5> QED
          BY <5>1, <5>2
      <4> QED
        BY <4>3
    <3>6. TodoKnown'
      BY <1>12 DEF UpdateCancel, LookUp, UpdateFrame, Cancellers, NoCancel
    <3>7. DoomedStopped'
      BY <1>12 DEF UpdateCancel, LookUp, UpdateFrame, Cancellers, NoCancel
    <3>8. CommitUnregistered'
      BY <1>12 DEF UpdateCancel, LookUp, UpdateFrame, Cancellers, NoCancel
    <3>9. SettledIsDone'
      BY <1>12 DEF UpdateCancel, LookUp, UpdateFrame, Cancellers, NoCancel
    <3>10. NoLeak'
      BY <1>12 DEF UpdateCancel, LookUp, UpdateFrame, Cancellers, NoCancel
    <3>11. UpdateCovers'
      BY <1>12 DEF UpdateCancel, LookUp, UpdateFrame, Cancellers, NoCancel
    <3> QED  BY <3>1, <3>2, <3>3, <3>4, <3>5, <3>6, <3>7, <3>8, <3>9, <3>10, <3>11
<1>13. ASSUME NEW c \in Users, NEW t \in Tasks, CancelBegin(c, t) PROVE QueueInvariant'
  <2> QED
    <3>1. NoRecordYet'
      BY <1>13 DEF CancelBegin
    <3>2. ActiveHasRunner'
      BY <1>13 DEF CancelBegin
    <3>3. EndedRecordStopsRunner'
      BY <1>13 DEF CancelBegin
    <3>4. TokenReachable'
      BY <1>13 DEF CancelBegin
    <3>5. LateCancels'
      <4>1. /\ cancelling'[c].task = t
            /\ ~cancelling'[c].token => t \notin registered
            /\ \A d \in Cancellers \ {c} : cancelling'[d] = cancelling[d]
        BY <1>13 DEF CancelBegin, LookUp, Cancellers
      <4>2. UNCHANGED <<pc, cancelled>> /\ pc[t] \notin Pending
        BY <1>13 DEF CancelBegin
      <4>3. ASSUME NEW d \in Cancellers, NEW u \in Tasks, cancelling'[d].task = u
            PROVE  /\ pc'[u] \notin Pending
                   /\ ~cancelling'[d].token /\ pc'[u] \in Working => u \in cancelled'
        <5>1. CASE d = c
          <6>1. u = t
            BY <4>1, <4>3, <5>1
          <6> QED
            BY <4>1, <4>2, <5>1, <6>1 DEF Pending
        <5>2. CASE d # c
          BY <4>1, <4>2, <4>3, <5>2
        <5> QED
          BY <5>1, <5>2
      <4> QED
        BY <4>3
    <3>6. TodoKnown'
      BY <1>13 DEF CancelBegin
    <3>7. DoomedStopped'
      BY <1>13 DEF CancelBegin
    <3>8. CommitUnregistered'
      BY <1>13 DEF CancelBegin
    <3>9. SettledIsDone'
      BY <1>13 DEF CancelBegin
    <3>10. NoLeak'
      BY <1>13 DEF CancelBegin
    <3>11. UpdateCovers'
      BY <1>13 DEF CancelBegin, LookUp, Cancellers, ActiveTasks
    <3> QED  BY <3>1, <3>2, <3>3, <3>4, <3>5, <3>6, <3>7, <3>8, <3>9, <3>10, <3>11
<1>14. ASSUME NEW c \in Cancellers, CancelCommit(c) PROVE QueueInvariant'
  <2> DEFINE t == cancelling[c].task
  <2>1. t \in Tasks /\ store' = CancelledStore(t) /\ disk' \in {disk, store'}
    BY <1>14 DEF CancelCommit, PersistApplied
  <2>2. \A u \in Tasks :
              /\ store'.status[u] \in {store.status[u], "Cancelled", "none"}
              /\ u = t => store'.status[u] \notin Active
              /\ u # t => store'.status[u] \in {store.status[u], "none"}
              /\ store.status[u] \notin Active \cup Terminal
                   => store'.status[u] = store.status[u]
              /\ u # t /\ store.status[u] \notin Terminal
                   => store'.status[u] = store.status[u]
              /\ u = t /\ store.status[u] \notin Active
                   => store'.status[u] \in {store.status[u], "none"}
    BY <2>1, CancelledStatus
  <2>3. /\ cancelled \subseteq cancelled'
        /\ store.status[t] \in Active /\ cancelling[c].token => t \in cancelled'
    BY <1>14 DEF CancelCommit, TokensAfterCancel
  <2>4. cancelling' = [cancelling EXCEPT ![c] = NoCancel]
        /\ UNCHANGED <<pc, registered, staged, upd, todo, doomed>>
    BY <1>14 DEF CancelCommit
  <2> HIDE DEF t
  <2>5. t = cancelling[c].task
    BY DEF t
  <2> QED
    <3>1. NoRecordYet'
      BY <2>1, <2>2, <2>3, <2>4, <2>5 DEF Active, Terminal, NoCancel, Cancellers
    <3>2. ActiveHasRunner'
      BY <2>1, <2>2, <2>3, <2>4, <2>5 DEF Active, Terminal, NoCancel, Cancellers
    <3>3. EndedRecordStopsRunner'
      BY <2>1, <2>2, <2>3, <2>4, <2>5 DEF Active, Terminal, NoCancel, Cancellers
    <3>4. TokenReachable'
      BY <2>1, <2>2, <2>3, <2>4, <2>5 DEF Active, Terminal, NoCancel, Cancellers
    <3>5. LateCancels'
      BY <2>1, <2>2, <2>3, <2>4, <2>5 DEF Active, Terminal, NoCancel, Cancellers
    <3>6. TodoKnown'
      BY <2>1, <2>2, <2>3, <2>4, <2>5 DEF Active, Terminal, NoCancel, Cancellers
    <3>7. DoomedStopped'
      BY <2>1, <2>2, <2>3, <2>4, <2>5 DEF Active, Terminal, NoCancel, Cancellers
    <3>8. CommitUnregistered'
      BY <2>1, <2>2, <2>3, <2>4, <2>5 DEF Active, Terminal, NoCancel, Cancellers
    <3>9. SettledIsDone'
      BY <2>1, <2>2, <2>3, <2>4, <2>5 DEF Active, Terminal, NoCancel, Cancellers
    <3>10. NoLeak'
      BY <2>1, <2>2, <2>3, <2>4, <2>5 DEF Active, Terminal, NoCancel, Cancellers
    <3>11. UpdateCovers'
      BY <2>1, <2>2, <2>3, <2>4, <2>5 DEF Active, Terminal, NoCancel, Cancellers
    <3> QED  BY <3>1, <3>2, <3>3, <3>4, <3>5, <3>6, <3>7, <3>8, <3>9, <3>10, <3>11
<1>15. ASSUME NEW c \in Cancellers, CancelUnknown(c) PROVE QueueInvariant'
  BY <1>15 DEF CancelUnknown, NoCancel, Active
<1>16. CASE UpdateBegin
  BY <1>16 DEF UpdateBegin, UpdateFrame
<1>17. CASE UpdateSnapshot
  BY <1>17 DEF UpdateSnapshot, UpdateFrame
<1>18. CASE UpdatePrepared
  BY <1>18 DEF UpdatePrepared, UpdateFrame, NoCancel
<1>19. CASE UpdateFails
  BY <1>19 DEF UpdateFails, UpdateFrame
<1>20. CASE Restart
  <2>1. \A t \in Tasks : /\ store'.status[t] \notin Active
                         /\ disk.status[t] = "none" => store'.status[t] = "none"
    BY <1>20, LoadedStore DEF Restart
  <2> QED
    BY <1>20, <2>1 DEF Restart, NoCancel, Active
<1> QED
  BY <1>1, <1>2, <1>3, <1>4, <1>5, <1>6, <1>7, <1>8, <1>9, <1>10, <1>11, <1>12,
     <1>13, <1>14, <1>15, <1>16, <1>17, <1>18, <1>19, <1>20
  DEF Next, Retry

-----------------------------------------------------------------------------
(* Theorems.                                                                *)

\* The invariant holds in every reachable state, for every workload.
THEOREM QueueSafe == Spec => []QueueInvariant
<1>1. Init => QueueInvariant
  BY QueueInit
<1>2. TypeOK /\ QueueInvariant /\ [Next]_vars => QueueInvariant'
  BY QueueNext
<1> QED
  BY <1>1, <1>2, TypeCorrect, PTL DEF Spec

\* A record shown as Queued or Running always has a live runner.
THEOREM ActiveRecordsHaveRunners == Spec => []ActiveHasRunner
<1>1. QueueInvariant => ActiveHasRunner
  BY DEF QueueInvariant
<1> QED
  BY <1>1, QueueSafe, PTL

\* cancel_transfer always reaches the runner: a runner that still works for an
\* ended record has its token set.
THEOREM CancelReachesRunner == Spec => []EndedRecordStopsRunner
<1>1. QueueInvariant => EndedRecordStopsRunner
  BY DEF QueueInvariant
<1> QED
  BY <1>1, QueueSafe, PTL

\* A result is visible only after the token and the staged file are gone, and
\* no ended transfer leaves either behind.
THEOREM CleanupPrecedesResult == Spec => [](SettledAfterCleanup /\ NoLeak)
<1>1. QueueInvariant => SettledAfterCleanup /\ NoLeak
  BY DEF QueueInvariant, SettledIsDone, NoLeak, SettledAfterCleanup
<1> QED
  BY <1>1, QueueSafe, PTL

\* When the updater is ready to replace the application, no transfer is active.
THEOREM UpdateIsQuiescent == Spec => []UpdateQuiescent
<1>1. QueueInvariant => UpdateQuiescent
  BY DEF QueueInvariant, UpdateCovers, UpdateQuiescent, ActiveTasks
<1> QED
  BY <1>1, QueueSafe, PTL

\* No step but a restart turns a cancelled record into anything but cancelled
\* or forgotten.
LEMMA CancelledStep ==
    ASSUME TypeOK, QueueInvariant, [Next]_vars
    PROVE  StaysCancelled
<1> USE WorkloadAssumption
<1> USE DEF StaysCancelled, persistVars
<1>1. ASSUME UNCHANGED store PROVE StaysCancelled
  BY <1>1
<1>2. ASSUME NEW t \in Tasks, Enqueue(t) PROVE StaysCancelled
  <2>1. store.status[t] = "none" /\ store' = EnqueuedStore(t)
    BY <1>2 DEF Enqueue, QueueInvariant, NoRecordYet, Pending
  <2> QED
    BY <2>1, EnqueuedStatus
<1>3. ASSUME NEW t \in Tasks, MarkTransferRunning(t) PROVE StaysCancelled
  <2>1. CASE UNCHANGED store
    BY <2>1
  <2>2. CASE store.status[t] # "Cancelled" /\ store' = MarkedStore(t)
    BY <2>2 DEF MarkedStore, TypeOK, Stores
  <2> QED
    BY <1>3, <2>1, <2>2 DEF MarkTransferRunning
<1>4. ASSUME NEW t \in Tasks, FinishCommit(t) PROVE StaysCancelled
  <2>1. CASE UNCHANGED store
    BY <2>1
  <2>2. CASE store' = TrimHistory(Stamp(store, t, FinalStatus(t)), SessionOf[t])
    <3>1. /\ FinalStatus(t) \in Statuses
          /\ store.status[t] = "Cancelled" => FinalStatus(t) = "Cancelled"
      BY DEF FinalStatus, TypeOK, Statuses, Terminal
    <3> QED
      BY <2>2, <3>1, FinishedStatus
  <2> QED
    BY <1>4, <2>1, <2>2 DEF FinishCommit
<1>5. ASSUME NEW t \in Tasks, Runner(t) PROVE StaysCancelled
  BY <1>1, <1>3, <1>4, <1>5
  DEF Runner, TakeLane, CancelledInLine, Gate, Validate, BindModem, TransferAborts,
      TransferEnds, FinishCleanup
<1>6. ASSUME NEW c \in Cancellers, CancelCommit(c) PROVE StaysCancelled
  <2>1. cancelling[c].task \in Tasks /\ store' = CancelledStore(cancelling[c].task)
    BY <1>6 DEF CancelCommit, TypeOK
  <2> QED
    BY <2>1, CancelledStatus DEF Active
<1>7. ASSUME NEW s \in Sessions, DeleteProfile(s) PROVE StaysCancelled
  <2>1. store' = WithoutProfile(s)
    BY <1>7 DEF DeleteProfile
  <2> QED
    BY <2>1, ForgetStore DEF WithoutProfile, WithProfiles, TypeOK
<1>8. ASSUME NEW s \in Sessions, CreateProfile(s) PROVE StaysCancelled
  BY <1>8 DEF CreateProfile, WithProfiles
<1>9. ASSUME Restart PROVE StaysCancelled
  BY <1>9 DEF Restart, TypeOK
<1> QED
  BY <1>1, <1>2, <1>5, <1>6, <1>7, <1>8, <1>9
  DEF Next, vars, InstallRuntime, LoseRuntime, DeleteUnknown, DeleteCleanup, Submit,
      Retry, RefuseEnqueue, UpdateCancel, CancelBegin, CancelUnknown, UpdateBegin,
      UpdateSnapshot, UpdatePrepared, UpdateFails, UpdateFrame

\* A cancelled transfer stays cancelled whatever its runner does.
THEOREM CancellationSticks == Spec => CancelSticks
<1>1. TypeOK /\ QueueInvariant /\ [Next]_vars => [StaysCancelled]_vars
  BY CancelledStep
<1> QED
  BY <1>1, TypeCorrect, QueueSafe, PTL DEF Spec, CancelSticks

-----------------------------------------------------------------------------
(* The runtime of a file transfer.                                          *)

\* A file transfer that has passed the validation is bound to a runtime, which
\* Validate chose if the submission found none, and stays bound to it until it
\* exits; only a transfer that returned has a result.
BoundInvariant ==
    \A t \in Tasks :
        /\ pc[t] \notin Finishing => outcome[t] # "Completed"
        /\ KindOf[t] = "ssh" =>
             /\ pc[t] # "bind"
             /\ pc[t] \in {"mark", "transfer"} => expected[t] # 0
             /\ outcome[t] = "Completed" => expected[t] # 0

\* No task has a result at the start.
LEMMA BoundInit == Init => BoundInvariant
  BY DEF Init, BoundInvariant, Finishing

\* A step of a runner keeps every task bound.
LEMMA BoundRunner ==
    ASSUME TypeOK, BoundInvariant, NEW t \in Tasks, Runner(t)
    PROVE  BoundInvariant'
<1> USE WorkloadAssumption
<1> USE DEF TypeOK, BoundInvariant, Finishing, FinishAs, Goto, Kinds
<1>1. CASE TakeLane(t)
  BY <1>1 DEF TakeLane
<1>2. CASE CancelledInLine(t)
  BY <1>2 DEF CancelledInLine
<1>3. CASE Gate(t)
  BY <1>3 DEF Gate
<1>4. CASE Validate(t)
  <2>1. CASE FinishAs(t, "Failed") /\ UNCHANGED expected
    BY <1>4, <2>1 DEF Validate
  <2>2. CASE Goto(t, "mark") /\ UNCHANGED outcome
    <3>1. /\ KindOf[t] = "ssh" => expected'[t] # 0
          /\ \A u \in Tasks \ {t} : expected'[u] = expected[u]
          /\ pc[t] = "validate"
      BY <1>4, <2>2 DEF Validate, SshRuntime
    <3> QED
      BY <2>2, <3>1
  <2> QED
    BY <1>4, <2>1, <2>2 DEF Validate
<1>5. CASE MarkTransferRunning(t)
  <2>1. /\ pc[t] = "mark" /\ UNCHANGED expected
        /\ \/ FinishAs(t, "Failed") \/ FinishAs(t, "Cancelled")
           \/ /\ Goto(t, IF KindOf[t] = "modem" THEN "bind" ELSE "transfer")
              /\ UNCHANGED outcome
    BY <1>5 DEF MarkTransferRunning, MarkRefused
  <2> QED
    BY <2>1
<1>6. CASE BindModem(t)
  BY <1>6 DEF BindModem
<1>7. CASE TransferAborts(t)
  BY <1>7 DEF TransferAborts
<1>8. CASE TransferEnds(t)
  <2>1. /\ pc[t] = "transfer" /\ UNCHANGED expected
        /\ \E result \in Terminal : FinishAs(t, result)
    BY <1>8 DEF TransferEnds, Terminal
  <2> QED
    BY <2>1
<1>9. CASE FinishCleanup(t)
  BY <1>9 DEF FinishCleanup
<1>10. CASE FinishCommit(t)
  BY <1>10 DEF FinishCommit, Exit
<1> QED
  BY <1>1, <1>2, <1>3, <1>4, <1>5, <1>6, <1>7, <1>8, <1>9, <1>10 DEF Runner

\* Every step keeps every task bound.
LEMMA BoundNext == TypeOK /\ BoundInvariant /\ [Next]_vars => BoundInvariant'
<1> SUFFICES ASSUME TypeOK, BoundInvariant, [Next]_vars PROVE BoundInvariant'
  OBVIOUS
<1>1. ASSUME UNCHANGED runnerVars PROVE BoundInvariant'
  BY <1>1 DEF runnerVars, BoundInvariant
<1>2. ASSUME NEW t \in Tasks, Submit(t) PROVE BoundInvariant'
  BY <1>2 DEF Submit, TypeOK, BoundInvariant, Finishing
<1>3. ASSUME NEW t \in Tasks, Enqueue(t) PROVE BoundInvariant'
  BY <1>3 DEF Enqueue, TypeOK, BoundInvariant, Finishing
<1>4. ASSUME NEW t \in Tasks, RefuseEnqueue(t) PROVE BoundInvariant'
  BY <1>4 DEF RefuseEnqueue, Exit, TypeOK, BoundInvariant, Finishing
<1>5. ASSUME Restart PROVE BoundInvariant'
  BY <1>5 DEF Restart, TypeOK, BoundInvariant, Finishing
<1>6. ASSUME NEW t \in Tasks, Runner(t) PROVE BoundInvariant'
  BY <1>6, BoundRunner
<1> QED
  BY <1>1, <1>2, <1>3, <1>4, <1>5, <1>6
  DEF Next, vars, InstallRuntime, LoseRuntime, DeleteProfile, DeleteUnknown, DeleteCleanup,
      CreateProfile, Retry, UpdateCancel, CancelBegin, CancelCommit, CancelUnknown, UpdateBegin,
      UpdateSnapshot, UpdatePrepared, UpdateFails, UpdateFrame

\* Only the final commit of a runner makes its record Completed, and it looks at
\* the registry in the same step.
LEMMA BoundStep ==
    ASSUME TypeOK, BoundInvariant, [Next]_vars
    PROVE  CompletesBound
<1> USE WorkloadAssumption
<1> USE DEF CompletesBound, persistVars
<1>1. ASSUME UNCHANGED store PROVE CompletesBound
  BY <1>1
<1>2. ASSUME NEW t \in Tasks, Enqueue(t) PROVE CompletesBound
  BY <1>2, EnqueuedStatus DEF Enqueue
<1>3. ASSUME NEW t \in Tasks, MarkTransferRunning(t) PROVE CompletesBound
  <2>1. CASE UNCHANGED store
    BY <2>1
  <2>2. CASE store' = MarkedStore(t)
    BY <2>2 DEF MarkedStore, TypeOK, Stores
  <2> QED
    BY <1>3, <2>1, <2>2 DEF MarkTransferRunning
<1>4. ASSUME NEW t \in Tasks, FinishCommit(t) PROVE CompletesBound
  <2>1. CASE UNCHANGED store
    BY <2>1
  <2>2. CASE store' = TrimHistory(Stamp(store, t, FinalStatus(t)), SessionOf[t])
    <3>1. /\ FinalStatus(t) \in Statuses
          /\ FinalStatus(t) = "Completed" => outcome[t] = "Completed" /\ RuntimePermits(t)
      BY DEF FinalStatus, TypeOK, Statuses, Terminal
    <3>2. \A u \in Tasks : /\ u # t => store'.status[u] \in {store.status[u], "none"}
                           /\ store'.status[t] \in {FinalStatus(t), "none"}
      BY <2>2, <3>1, FinishedStatus
    <3>3. KindOf[t] = "ssh" /\ FinalStatus(t) = "Completed"
            => expected[t] # 0 /\ RuntimeConnected(SessionOf[t], expected[t])
      BY <3>1 DEF BoundInvariant, RuntimePermits
    <3> QED
      BY <3>2, <3>3
  <2> QED
    BY <1>4, <2>1, <2>2 DEF FinishCommit
<1>5. ASSUME NEW t \in Tasks, Runner(t) PROVE CompletesBound
  BY <1>1, <1>3, <1>4, <1>5
  DEF Runner, TakeLane, CancelledInLine, Gate, Validate, BindModem, TransferAborts,
      TransferEnds, FinishCleanup
<1>6. ASSUME NEW c \in Cancellers, CancelCommit(c) PROVE CompletesBound
  <2>1. cancelling[c].task \in Tasks /\ store' = CancelledStore(cancelling[c].task)
    BY <1>6 DEF CancelCommit, TypeOK
  <2> QED
    BY <2>1, CancelledStatus
<1>7. ASSUME NEW s \in Sessions, DeleteProfile(s) PROVE CompletesBound
  <2>1. store' = WithoutProfile(s)
    BY <1>7 DEF DeleteProfile
  <2> QED
    BY <2>1, ForgetStore DEF WithoutProfile, WithProfiles, TypeOK
<1>8. ASSUME NEW s \in Sessions, CreateProfile(s) PROVE CompletesBound
  BY <1>8 DEF CreateProfile, WithProfiles
<1>9. ASSUME Restart PROVE CompletesBound
  BY <1>9 DEF Restart, TypeOK
<1> QED
  BY <1>1, <1>2, <1>5, <1>6, <1>7, <1>8, <1>9
  DEF Next, vars, InstallRuntime, LoseRuntime, DeleteUnknown, DeleteCleanup, Submit,
      Retry, RefuseEnqueue, UpdateCancel, CancelBegin, CancelUnknown, UpdateBegin,
      UpdateSnapshot, UpdatePrepared, UpdateFails, UpdateFrame

\* A file transfer over SSH is reported Completed only on the runtime it was bound
\* to, and only while that one is connected (transfer_runtime/state.rs, the final
\* commit under the registry's and the store's locks).
THEOREM CompletionsAreBound == Spec => CompletedOnBoundRuntime
<1>1. TypeOK /\ BoundInvariant /\ [Next]_vars => [CompletesBound]_vars
  BY BoundStep
<1> QED
  BY <1>1, TypeCorrect, BoundInit, BoundNext, PTL DEF Spec, CompletedOnBoundRuntime

=============================================================================
