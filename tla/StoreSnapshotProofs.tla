-------------------------- MODULE StoreSnapshotProofs --------------------------
(***************************************************************************)
(* Proofs about StoreSnapshot, for any number of processes and changes.    *)
(***************************************************************************)
EXTENDS StoreSnapshot, TLAPS

\* One state's typing is kept by every step: the SessionStore transactions and
\* saves of any mixture of operations and I/O failures.
LEMMA TypeInductive == TypeOK /\ [Next]_vars => TypeOK'
<1> SUFFICES ASSUME TypeOK, [Next]_vars PROVE TypeOK'
    OBVIOUS
<1> USE SharingAssumption DEF TypeOK, AllOperations, PCs, Verdicts, Versions,
        UnknownAfterCommit, Missing, Tell
<1>1. CASE UNCHANGED vars
    BY <1>1 DEF vars
<1>2. ASSUME NEW i \in Instances, LoadStore(i) PROVE TypeOK'
    BY <1>2 DEF LoadStore
<1>3. ASSUME NEW i \in Instances, Crash(i) PROVE TypeOK'
    BY <1>3 DEF Crash
<1>4. ASSUME NEW i \in Instances, BeginTransaction(i) PROVE TypeOK'
    BY <1>4 DEF BeginTransaction
<1>5. ASSUME NEW i \in Instances, BeginApplied(i) PROVE TypeOK'
    BY <1>5 DEF BeginApplied
<1>6. ASSUME NEW i \in Instances, NEW kind \in {"flush", "metadata"},
             BeginUnchanged(i, kind)
      PROVE TypeOK'
    BY <1>6 DEF BeginUnchanged
<1>7. ASSUME NEW i \in Instances, LockSnapshot(i) PROVE TypeOK'
    BY <1>7 DEF LockSnapshot
<1>8. ASSUME NEW i \in Instances, Refuse(i) PROVE TypeOK'
    BY <1>8 DEF Refuse, SaveFails, AfterError
<1>9. ASSUME NEW i \in Instances, WriteSkipped(i) PROVE TypeOK'
    BY <1>9 DEF WriteSkipped
<1>10. ASSUME NEW i \in Instances, Write(i) PROVE TypeOK'
    BY <1>10 DEF Write, Commit
<1>11. ASSUME NEW i \in Instances, WriteFails(i) PROVE TypeOK'
    BY <1>11 DEF WriteFails, SaveFails, AfterError
<1>12. ASSUME NEW i \in Instances, ReadbackFails(i) PROVE TypeOK'
    BY <1>12 DEF ReadbackFails, Commit, SaveFails, AfterError
<1>13. ASSUME NEW i \in Instances, RefreshFails(i) PROVE TypeOK'
    BY <1>13 DEF RefreshFails, SaveFails, AfterError
<1>14. ASSUME NEW i \in Instances, Refresh(i) PROVE TypeOK'
    BY <1>14 DEF Refresh, Return
<1>15. ASSUME NEW i \in Instances, VerifyDiffers(i) PROVE TypeOK'
    BY <1>15 DEF VerifyDiffers, Return, RolledBack
<1>16. ASSUME NEW i \in Instances, VerifyMatches(i) PROVE TypeOK'
    BY <1>16 DEF VerifyMatches
<1>17. ASSUME NEW i \in Instances, Adopt(i) PROVE TypeOK'
    BY <1>17 DEF Adopt, Return
<1>18. ASSUME NEW i \in Instances, VerifyFails(i) PROVE TypeOK'
    BY <1>18 DEF VerifyFails, Return, RolledBack
<1> QED
    BY <1>1, <1>2, <1>3, <1>4, <1>5, <1>6, <1>7, <1>8, <1>9, <1>10, <1>11, <1>12,
       <1>13, <1>14, <1>15, <1>16, <1>17, <1>18
    DEF Next, Step

LEMMA InitTyped == Init => TypeOK
    BY SharingAssumption
    DEF Init, TypeOK, AllOperations, PCs, Verdicts, Versions, UnknownAfterCommit, Missing

\* Every variable of the shared store keeps its type.
THEOREM StoreTypeCorrect == Spec => []TypeOK
<1>1. TypeOK /\ [Next]_vars => TypeOK'
    BY TypeInductive
<1> QED
    BY InitTyped, <1>1, PTL DEF Spec

-----------------------------------------------------------------------------
(* Any number of processes sharing a store whose committed writes are never  *)
(* reported as errors.                                                       *)

LEMMA SharedInit == Init => SharedInvariant
    BY InitTyped
    DEF Init, SharedInvariant, LockHeld, OperationsUnderWay, OwnChange, ChangesToldRight,
        CurrentKnowsDisk, Saving, Missing

\* Only ten of the actions can happen: every save carries a change the disk
\* does not have, so no write is skipped and no verification finds its store.
LEMMA PlainSteps ==
    ASSUME PlainSharing, SharedInvariant, Next
    PROVE  \E i \in Instances :
               \/ LoadStore(i) \/ Crash(i) \/ BeginTransaction(i) \/ BeginApplied(i)
               \/ LockSnapshot(i) \/ Refuse(i) \/ Write(i) \/ WriteFails(i)
               \/ Refresh(i) \/ VerifyDiffers(i)
<1>1. PICK i \in Instances : Step(i)
    BY DEF Next
<1>2. ~ BeginUnchanged(i, "flush") /\ ~ BeginUnchanged(i, "metadata")
    BY DEF PlainSharing, BeginUnchanged
<1>3. ~ ReadbackFails(i) /\ ~ RefreshFails(i) /\ ~ VerifyFails(i)
    BY DEF PlainSharing, ReadbackFails, RefreshFails, VerifyFails
<1>4. pc[i] \in {"check", "verify"} => next[i] # content
    BY DEF SharedInvariant, OperationsUnderWay, OwnChange, Saving
<1>5. ~ WriteSkipped(i) /\ ~ VerifyMatches(i)
    BY <1>4 DEF WriteSkipped, VerifyMatches, SameBytes
<1>6. ~ Adopt(i)
    BY DEF SharedInvariant, OperationsUnderWay, Adopt
<1> QED
    BY <1>1, <1>2, <1>3, <1>5, <1>6 DEF Step

LEMMA SharedLoadStore ==
    ASSUME SharedInvariant, TypeOK', NEW i \in Instances, LoadStore(i)
    PROVE  SharedInvariant'
<1> USE SharingAssumption DEF SharedInvariant, TypeOK, Saving, LoadStore
<1>1. LockHeld'
    BY DEF LockHeld, OperationsUnderWay, OwnChange, ChangesToldRight, CurrentKnowsDisk
<1>2. OperationsUnderWay'
    BY DEF LockHeld, OperationsUnderWay, OwnChange, ChangesToldRight, CurrentKnowsDisk
<1>3. OwnChange'
    BY DEF LockHeld, OperationsUnderWay, OwnChange, ChangesToldRight, CurrentKnowsDisk
<1>4. ChangesToldRight'
    BY DEF LockHeld, OperationsUnderWay, OwnChange, ChangesToldRight, CurrentKnowsDisk
<1>5. \A j \in Instances : expected'[j] <= revision'
    BY DEF Versions, UnknownAfterCommit, Missing
<1>6. CurrentKnowsDisk'
    BY DEF LockHeld, OperationsUnderWay, CurrentKnowsDisk, Versions, UnknownAfterCommit, Missing
<1> QED
    BY <1>1, <1>2, <1>3, <1>4, <1>5, <1>6

LEMMA SharedCrash ==
    ASSUME SharedInvariant, TypeOK', NEW i \in Instances, Crash(i)
    PROVE  SharedInvariant'
<1> USE SharingAssumption DEF SharedInvariant, TypeOK, Saving, Crash
<1>1. LockHeld'
    BY DEF LockHeld, OperationsUnderWay, OwnChange, ChangesToldRight, CurrentKnowsDisk
<1>2. OperationsUnderWay'
    BY DEF LockHeld, OperationsUnderWay, OwnChange, ChangesToldRight, CurrentKnowsDisk
<1>3. OwnChange'
    BY DEF LockHeld, OperationsUnderWay, OwnChange, ChangesToldRight, CurrentKnowsDisk
<1>4. ChangesToldRight'
    BY DEF LockHeld, OperationsUnderWay, OwnChange, ChangesToldRight, CurrentKnowsDisk
<1>5. \A j \in Instances : expected'[j] <= revision'
    BY DEF Versions, UnknownAfterCommit, Missing
<1>6. CurrentKnowsDisk'
    BY DEF LockHeld, OperationsUnderWay, CurrentKnowsDisk, Versions, UnknownAfterCommit, Missing
<1> QED
    BY <1>1, <1>2, <1>3, <1>4, <1>5, <1>6

LEMMA SharedBeginTransaction ==
    ASSUME SharedInvariant, TypeOK', NEW i \in Instances, BeginTransaction(i)
    PROVE  SharedInvariant'
<1> USE SharingAssumption DEF SharedInvariant, TypeOK, Saving, BeginTransaction, Tell
<1>1. LockHeld'
    BY DEF LockHeld, OperationsUnderWay, OwnChange, ChangesToldRight, CurrentKnowsDisk
<1>2. OperationsUnderWay'
    BY DEF LockHeld, OperationsUnderWay, OwnChange, ChangesToldRight, CurrentKnowsDisk
<1>3. OwnChange'
    BY DEF LockHeld, OperationsUnderWay, OwnChange, ChangesToldRight, CurrentKnowsDisk
<1>4. ChangesToldRight'
    BY DEF LockHeld, OperationsUnderWay, OwnChange, ChangesToldRight, CurrentKnowsDisk
<1>5. \A j \in Instances : expected'[j] <= revision'
    BY DEF Versions, UnknownAfterCommit, Missing
<1>6. CurrentKnowsDisk'
    BY DEF LockHeld, OperationsUnderWay, CurrentKnowsDisk, Versions, UnknownAfterCommit, Missing
<1> QED
    BY <1>1, <1>2, <1>3, <1>4, <1>5, <1>6

LEMMA SharedBeginApplied ==
    ASSUME SharedInvariant, TypeOK', NEW i \in Instances, BeginApplied(i)
    PROVE  SharedInvariant'
<1> USE SharingAssumption DEF SharedInvariant, TypeOK, Saving, BeginApplied, Tell
<1>1. LockHeld'
    BY DEF LockHeld, OperationsUnderWay, OwnChange, ChangesToldRight, CurrentKnowsDisk
<1>2. OperationsUnderWay'
    BY DEF LockHeld, OperationsUnderWay, OwnChange, ChangesToldRight, CurrentKnowsDisk
<1>3. OwnChange'
    BY DEF LockHeld, OperationsUnderWay, OwnChange, ChangesToldRight, CurrentKnowsDisk
<1>4. ChangesToldRight'
    BY DEF LockHeld, OperationsUnderWay, OwnChange, ChangesToldRight, CurrentKnowsDisk
<1>5. \A j \in Instances : expected'[j] <= revision'
    BY DEF Versions, UnknownAfterCommit, Missing
<1>6. CurrentKnowsDisk'
    BY DEF LockHeld, OperationsUnderWay, CurrentKnowsDisk, Versions, UnknownAfterCommit, Missing
<1> QED
    BY <1>1, <1>2, <1>3, <1>4, <1>5, <1>6

LEMMA SharedLockSnapshot ==
    ASSUME SharedInvariant, TypeOK', NEW i \in Instances, LockSnapshot(i)
    PROVE  SharedInvariant'
<1> USE SharingAssumption DEF SharedInvariant, TypeOK, Saving, LockSnapshot
<1>1. LockHeld'
    BY DEF LockHeld, OperationsUnderWay, OwnChange, ChangesToldRight, CurrentKnowsDisk
<1>2. OperationsUnderWay'
    BY DEF LockHeld, OperationsUnderWay, OwnChange, ChangesToldRight, CurrentKnowsDisk
<1>3. OwnChange'
    BY DEF LockHeld, OperationsUnderWay, OwnChange, ChangesToldRight, CurrentKnowsDisk
<1>4. ChangesToldRight'
    BY DEF LockHeld, OperationsUnderWay, OwnChange, ChangesToldRight, CurrentKnowsDisk
<1>5. \A j \in Instances : expected'[j] <= revision'
    BY DEF Versions, UnknownAfterCommit, Missing
<1>6. CurrentKnowsDisk'
    BY DEF LockHeld, OperationsUnderWay, CurrentKnowsDisk, Versions, UnknownAfterCommit, Missing
<1> QED
    BY <1>1, <1>2, <1>3, <1>4, <1>5, <1>6

LEMMA SharedRefuse ==
    ASSUME SharedInvariant, TypeOK', NEW i \in Instances, Refuse(i)
    PROVE  SharedInvariant'
<1> USE SharingAssumption DEF SharedInvariant, TypeOK, Saving, Refuse, SaveFails, AfterError
<1>1. LockHeld'
    BY DEF LockHeld, OperationsUnderWay, OwnChange, ChangesToldRight, CurrentKnowsDisk
<1>2. OperationsUnderWay'
    BY DEF LockHeld, OperationsUnderWay, OwnChange, ChangesToldRight, CurrentKnowsDisk
<1>3. OwnChange'
    BY DEF LockHeld, OperationsUnderWay, OwnChange, ChangesToldRight, CurrentKnowsDisk
<1>4. ChangesToldRight'
    BY DEF LockHeld, OperationsUnderWay, OwnChange, ChangesToldRight, CurrentKnowsDisk
<1>5. \A j \in Instances : expected'[j] <= revision'
    BY DEF Versions, UnknownAfterCommit, Missing
<1>6. CurrentKnowsDisk'
    BY DEF LockHeld, OperationsUnderWay, CurrentKnowsDisk, Versions, UnknownAfterCommit, Missing
<1> QED
    BY <1>1, <1>2, <1>3, <1>4, <1>5, <1>6

LEMMA SharedWrite ==
    ASSUME SharedInvariant, TypeOK', NEW i \in Instances, Write(i)
    PROVE  SharedInvariant'
<1> USE SharingAssumption DEF SharedInvariant, TypeOK, Saving, Write, Commit, MayWrite
<1>1. LockHeld'
    BY DEF LockHeld, OperationsUnderWay, OwnChange, ChangesToldRight, CurrentKnowsDisk
<1>2. OperationsUnderWay'
    BY DEF LockHeld, OperationsUnderWay, OwnChange, ChangesToldRight, CurrentKnowsDisk
<1>3. OwnChange'
    BY DEF LockHeld, OperationsUnderWay, OwnChange, ChangesToldRight, CurrentKnowsDisk
<1>4. ChangesToldRight'
    BY DEF LockHeld, OperationsUnderWay, OwnChange, ChangesToldRight, CurrentKnowsDisk
<1>5. \A j \in Instances : expected'[j] <= revision'
    BY DEF Versions, UnknownAfterCommit, Missing
<1>6. CurrentKnowsDisk'
    BY DEF LockHeld, OperationsUnderWay, CurrentKnowsDisk, Versions, UnknownAfterCommit, Missing
<1> QED
    BY <1>1, <1>2, <1>3, <1>4, <1>5, <1>6

LEMMA SharedWriteFails ==
    ASSUME SharedInvariant, TypeOK', NEW i \in Instances, WriteFails(i)
    PROVE  SharedInvariant'
<1> USE SharingAssumption DEF SharedInvariant, TypeOK, Saving, WriteFails, SaveFails, AfterError
<1>1. LockHeld'
    BY DEF LockHeld, OperationsUnderWay, OwnChange, ChangesToldRight, CurrentKnowsDisk
<1>2. OperationsUnderWay'
    BY DEF LockHeld, OperationsUnderWay, OwnChange, ChangesToldRight, CurrentKnowsDisk
<1>3. OwnChange'
    BY DEF LockHeld, OperationsUnderWay, OwnChange, ChangesToldRight, CurrentKnowsDisk
<1>4. ChangesToldRight'
    BY DEF LockHeld, OperationsUnderWay, OwnChange, ChangesToldRight, CurrentKnowsDisk
<1>5. \A j \in Instances : expected'[j] <= revision'
    BY DEF Versions, UnknownAfterCommit, Missing
<1>6. CurrentKnowsDisk'
    BY DEF LockHeld, OperationsUnderWay, CurrentKnowsDisk, Versions, UnknownAfterCommit, Missing
<1> QED
    BY <1>1, <1>2, <1>3, <1>4, <1>5, <1>6

LEMMA SharedRefresh ==
    ASSUME SharedInvariant, TypeOK', NEW i \in Instances, Refresh(i)
    PROVE  SharedInvariant'
<1> USE SharingAssumption DEF SharedInvariant, TypeOK, Saving, Refresh, Return, Tell
<1>1. LockHeld'
    BY DEF LockHeld, OperationsUnderWay, OwnChange, ChangesToldRight, CurrentKnowsDisk
<1>2. OperationsUnderWay'
    BY DEF LockHeld, OperationsUnderWay, OwnChange, ChangesToldRight, CurrentKnowsDisk
<1>3. OwnChange'
    BY DEF LockHeld, OperationsUnderWay, OwnChange, ChangesToldRight, CurrentKnowsDisk
<1>4. ChangesToldRight'
    BY DEF LockHeld, OperationsUnderWay, OwnChange, ChangesToldRight, CurrentKnowsDisk
<1>5. \A j \in Instances : expected'[j] <= revision'
    BY DEF Versions, UnknownAfterCommit, Missing
<1>6. CurrentKnowsDisk'
    BY DEF LockHeld, OperationsUnderWay, CurrentKnowsDisk, Versions, UnknownAfterCommit, Missing
<1> QED
    BY <1>1, <1>2, <1>3, <1>4, <1>5, <1>6

LEMMA SharedVerifyDiffers ==
    ASSUME SharedInvariant, TypeOK', NEW i \in Instances, VerifyDiffers(i)
    PROVE  SharedInvariant'
<1> USE SharingAssumption DEF SharedInvariant, TypeOK, Saving, VerifyDiffers, Return, RolledBack, Tell
<1>1. LockHeld'
    BY DEF LockHeld, OperationsUnderWay, OwnChange, ChangesToldRight, CurrentKnowsDisk
<1>2. OperationsUnderWay'
    BY DEF LockHeld, OperationsUnderWay, OwnChange, ChangesToldRight, CurrentKnowsDisk
<1>3. OwnChange'
    BY DEF LockHeld, OperationsUnderWay, OwnChange, ChangesToldRight, CurrentKnowsDisk
<1>4. ChangesToldRight'
    BY DEF LockHeld, OperationsUnderWay, OwnChange, ChangesToldRight, CurrentKnowsDisk
<1>5. \A j \in Instances : expected'[j] <= revision'
    BY DEF Versions, UnknownAfterCommit, Missing
<1>6. CurrentKnowsDisk'
    BY DEF LockHeld, OperationsUnderWay, CurrentKnowsDisk, Versions, UnknownAfterCommit, Missing
<1> QED
    BY <1>1, <1>2, <1>3, <1>4, <1>5, <1>6

LEMMA SharedInductive ==
    ASSUME PlainSharing
    PROVE  SharedInvariant /\ [Next]_vars => SharedInvariant'
<1> SUFFICES ASSUME SharedInvariant, [Next]_vars PROVE SharedInvariant'
    OBVIOUS
<1>1. TypeOK'
    BY TypeInductive DEF SharedInvariant
<1>2. CASE UNCHANGED vars
    BY <1>2 DEF vars, SharedInvariant, TypeOK, LockHeld, OperationsUnderWay, OwnChange,
               ChangesToldRight, CurrentKnowsDisk
<1>3. CASE Next
    BY <1>1, <1>3, PlainSteps, SharedLoadStore, SharedCrash, SharedBeginTransaction,
       SharedBeginApplied, SharedLockSnapshot, SharedRefuse, SharedWrite, SharedWriteFails,
       SharedRefresh, SharedVerifyDiffers
<1> QED
    BY <1>2, <1>3

LEMMA SharedAlways ==
    ASSUME PlainSharing
    PROVE  Spec => []SharedInvariant
<1>1. SharedInvariant /\ [Next]_vars => SharedInvariant'
    BY SharedInductive
<1> QED
    BY SharedInit, <1>1, PTL DEF Spec

\* The compare-and-swap of save_store: a process whose expected version is the
\* one on disk has seen everything on disk.
THEOREM ExpectedVersionIsCurrent ==
    ASSUME PlainSharing
    PROVE  Spec => []CurrentKnowsDisk
<1>1. SharedInvariant => CurrentKnowsDisk
    BY DEF SharedInvariant
<1> QED
    BY SharedAlways, <1>1, PTL

\* A step of one process is a step of the durable log, or leaves it alone.
LEMMA StepRefines ==
    ASSUME PlainSharing, SharedInvariant, [Next]_vars
    PROVE  [Durable!Next]_(Durable!vars)
<1> DEFINE acked == {c \in Changes : told[c] = "ok"}
           rejected == {c \in Changes : told[c] = "notCommitted"}
<1> SUFFICES \/ UNCHANGED <<content, acked, rejected>>
             \/ Durable!Write \/ Durable!Ack \/ Durable!Reject
    BY DEF Durable!Next, Durable!vars
<1>1. CASE UNCHANGED vars
    BY <1>1 DEF vars
<1>2. ASSUME NEW i \in Instances,
             \/ LoadStore(i) \/ Crash(i) \/ LockSnapshot(i) \/ Refuse(i) \/ WriteFails(i)
      PROVE  UNCHANGED <<content, acked, rejected>>
    BY <1>2 DEF LoadStore, Crash, LockSnapshot, Refuse, WriteFails
<1>3. ASSUME NEW i \in Instances, BeginTransaction(i) \/ BeginApplied(i)
      PROVE  UNCHANGED <<content, acked, rejected>>
    BY <1>3 DEF BeginTransaction, BeginApplied, Tell, SharedInvariant, TypeOK
<1>4. ASSUME NEW i \in Instances, Write(i)
      PROVE  Durable!Write
    <2>1. pc[i] = "check" /\ expected[i] = revision /\ content' = next[i]
        BY <1>4 DEF Write, Commit, MayWrite, SharedInvariant, LockHeld, OperationsUnderWay, Saving
    <2>2. content \subseteq next[i]
        BY <2>1 DEF SharedInvariant, CurrentKnowsDisk, OperationsUnderWay, Saving
    <2>3. next[i] \in SUBSET (Changes \ rejected)
        BY DEF SharedInvariant, TypeOK, ChangesToldRight
    <2>4. content' = content \cup next[i]
        BY <2>1, <2>2
    <2>5. UNCHANGED <<acked, rejected>>
        BY <1>4 DEF Write
    <2> QED
        BY <2>3, <2>4, <2>5 DEF Durable!Write
<1>5. ASSUME NEW i \in Instances, Refresh(i)
      PROVE  Durable!Ack
    <2>1. change[i] \in content /\ change[i] \in Changes /\ told[change[i]] = "open"
        BY <1>5 DEF Refresh, SharedInvariant, LockHeld, OperationsUnderWay, TypeOK, Saving
    <2>2. /\ content' = content
          /\ told' = [d \in Changes |-> IF d = change[i] THEN "ok" ELSE told[d]]
        BY <1>5 DEF Refresh, Return, Tell
    <2>3. acked' = acked \cup {change[i]} /\ rejected' = rejected
        BY <2>1, <2>2
    <2> QED
        BY <2>1, <2>2, <2>3 DEF Durable!Ack
<1>6. ASSUME NEW i \in Instances, VerifyDiffers(i)
      PROVE  UNCHANGED <<content, acked, rejected>> \/ Durable!Reject
    <2>1. /\ change[i] \in Changes /\ change[i] \notin content
          /\ told[change[i]] = "open"
        BY <1>6 DEF VerifyDiffers, SharedInvariant, OperationsUnderWay, OwnChange, TypeOK, Saving
    <2>2. /\ content' = content
          /\ told' = [d \in Changes |->
                       IF d = change[i]
                       THEN IF op[i] = "transaction" THEN "notCommitted" ELSE "unknown"
                       ELSE told[d]]
        BY <1>6 DEF VerifyDiffers, Return, Tell
    <2>3. CASE op[i] = "transaction"
        <3>1. acked' = acked /\ rejected' = rejected \cup {change[i]}
            BY <2>1, <2>2, <2>3
        <3> QED
            BY <2>1, <2>2, <3>1 DEF Durable!Reject
    <2>4. CASE op[i] # "transaction"
        BY <2>1, <2>2, <2>4
    <2> QED
        BY <2>3, <2>4
<1>7. CASE Next
    BY <1>2, <1>3, <1>4, <1>5, <1>6, <1>7, PlainSteps
<1> QED
    BY <1>1, <1>7

\* Processes that share one data directory behave like one durable log: a save
\* never drops what another process saved, what a caller was told is saved is
\* on disk from then on, and a transaction reported not committed never is.
THEOREM SharedStoreIsDurable ==
    ASSUME PlainSharing
    PROVE  Spec => ImplementsDurableLog
<1>1. Init => Durable!Init
    BY DEF Init, Durable!Init
<1>2. SharedInvariant /\ [Next]_vars => [Durable!Next]_(Durable!vars)
    BY StepRefines
<1> QED
    BY <1>1, <1>2, SharedAlways, PTL DEF Spec, ImplementsDurableLog, Durable!Spec

-----------------------------------------------------------------------------
(* One process, every operation and every I/O failure.                       *)

LEMMA SoloInit == Init => SoloInvariant
    BY InitTyped
    DEF Init, SoloInvariant, SoloOperation, ChangesToldRight, CurrentKnowsDisk, Missing

LEMMA SoloLoadStore ==
    ASSUME OneInstance, SoloInvariant, TypeOK', NEW i \in Instances, LoadStore(i)
    PROVE  SoloInvariant'
<1> USE SharingAssumption DEF SoloInvariant, TypeOK, LoadStore
<1>1. \A j \in Instances : j = i
    BY DEF OneInstance
<1>2. SoloOperation'
    BY <1>1 DEF SoloOperation, ChangesToldRight, CurrentKnowsDisk, AllOperations
<1>3. ChangesToldRight'
    BY <1>1 DEF SoloOperation, ChangesToldRight, CurrentKnowsDisk, AllOperations
<1>4. \A j \in Instances : expected'[j] <= revision'
    BY DEF Versions, UnknownAfterCommit, Missing
<1>5. CurrentKnowsDisk'
    BY <1>1 DEF SoloOperation, CurrentKnowsDisk, Versions, UnknownAfterCommit, Missing
<1> QED
    BY <1>2, <1>3, <1>4, <1>5

LEMMA SoloCrash ==
    ASSUME OneInstance, SoloInvariant, TypeOK', NEW i \in Instances, Crash(i)
    PROVE  SoloInvariant'
<1> USE SharingAssumption DEF SoloInvariant, TypeOK, Crash
<1>1. \A j \in Instances : j = i
    BY DEF OneInstance
<1>2. SoloOperation'
    BY <1>1 DEF SoloOperation, ChangesToldRight, CurrentKnowsDisk, AllOperations
<1>3. ChangesToldRight'
    BY <1>1 DEF SoloOperation, ChangesToldRight, CurrentKnowsDisk, AllOperations
<1>4. \A j \in Instances : expected'[j] <= revision'
    BY DEF Versions, UnknownAfterCommit, Missing
<1>5. CurrentKnowsDisk'
    BY <1>1 DEF SoloOperation, CurrentKnowsDisk, Versions, UnknownAfterCommit, Missing
<1> QED
    BY <1>2, <1>3, <1>4, <1>5

LEMMA SoloBeginTransaction ==
    ASSUME OneInstance, SoloInvariant, TypeOK', NEW i \in Instances, BeginTransaction(i)
    PROVE  SoloInvariant'
<1> USE SharingAssumption DEF SoloInvariant, TypeOK, BeginTransaction, Tell
<1>1. \A j \in Instances : j = i
    BY DEF OneInstance
<1>2. SoloOperation'
    BY <1>1 DEF SoloOperation, ChangesToldRight, CurrentKnowsDisk, AllOperations
<1>3. ChangesToldRight'
    BY <1>1 DEF SoloOperation, ChangesToldRight, CurrentKnowsDisk, AllOperations
<1>4. \A j \in Instances : expected'[j] <= revision'
    BY DEF Versions, UnknownAfterCommit, Missing
<1>5. CurrentKnowsDisk'
    BY <1>1 DEF SoloOperation, CurrentKnowsDisk, Versions, UnknownAfterCommit, Missing
<1> QED
    BY <1>2, <1>3, <1>4, <1>5

LEMMA SoloBeginApplied ==
    ASSUME OneInstance, SoloInvariant, TypeOK', NEW i \in Instances, BeginApplied(i)
    PROVE  SoloInvariant'
<1> USE SharingAssumption DEF SoloInvariant, TypeOK, BeginApplied, Tell
<1>1. \A j \in Instances : j = i
    BY DEF OneInstance
<1>2. SoloOperation'
    BY <1>1 DEF SoloOperation, ChangesToldRight, CurrentKnowsDisk, AllOperations
<1>3. ChangesToldRight'
    BY <1>1 DEF SoloOperation, ChangesToldRight, CurrentKnowsDisk, AllOperations
<1>4. \A j \in Instances : expected'[j] <= revision'
    BY DEF Versions, UnknownAfterCommit, Missing
<1>5. CurrentKnowsDisk'
    BY <1>1 DEF SoloOperation, CurrentKnowsDisk, Versions, UnknownAfterCommit, Missing
<1> QED
    BY <1>2, <1>3, <1>4, <1>5

LEMMA SoloBeginUnchanged ==
    ASSUME OneInstance, SoloInvariant, TypeOK', NEW i \in Instances, NEW kind \in {"flush", "metadata"}, BeginUnchanged(i, kind)
    PROVE  SoloInvariant'
<1> USE SharingAssumption DEF SoloInvariant, TypeOK, BeginUnchanged
<1>1. \A j \in Instances : j = i
    BY DEF OneInstance
<1>2. SoloOperation'
    BY <1>1 DEF SoloOperation, ChangesToldRight, CurrentKnowsDisk, AllOperations
<1>3. ChangesToldRight'
    BY <1>1 DEF SoloOperation, ChangesToldRight, CurrentKnowsDisk, AllOperations
<1>4. \A j \in Instances : expected'[j] <= revision'
    BY DEF Versions, UnknownAfterCommit, Missing
<1>5. CurrentKnowsDisk'
    BY <1>1 DEF SoloOperation, CurrentKnowsDisk, Versions, UnknownAfterCommit, Missing
<1> QED
    BY <1>2, <1>3, <1>4, <1>5

LEMMA SoloLockSnapshot ==
    ASSUME OneInstance, SoloInvariant, TypeOK', NEW i \in Instances, LockSnapshot(i)
    PROVE  SoloInvariant'
<1> USE SharingAssumption DEF SoloInvariant, TypeOK, LockSnapshot
<1>1. \A j \in Instances : j = i
    BY DEF OneInstance
<1>2. SoloOperation'
    BY <1>1 DEF SoloOperation, ChangesToldRight, CurrentKnowsDisk, AllOperations
<1>3. ChangesToldRight'
    BY <1>1 DEF SoloOperation, ChangesToldRight, CurrentKnowsDisk, AllOperations
<1>4. \A j \in Instances : expected'[j] <= revision'
    BY DEF Versions, UnknownAfterCommit, Missing
<1>5. CurrentKnowsDisk'
    BY <1>1 DEF SoloOperation, CurrentKnowsDisk, Versions, UnknownAfterCommit, Missing
<1> QED
    BY <1>2, <1>3, <1>4, <1>5

LEMMA SoloRefuse ==
    ASSUME OneInstance, SoloInvariant, TypeOK', NEW i \in Instances, Refuse(i)
    PROVE  SoloInvariant'
<1> USE SharingAssumption DEF SoloInvariant, TypeOK, Refuse, SaveFails, AfterError
<1>1. \A j \in Instances : j = i
    BY DEF OneInstance
<1>2. SoloOperation'
    BY <1>1 DEF SoloOperation, ChangesToldRight, CurrentKnowsDisk, AllOperations
<1>3. ChangesToldRight'
    BY <1>1 DEF SoloOperation, ChangesToldRight, CurrentKnowsDisk, AllOperations
<1>4. \A j \in Instances : expected'[j] <= revision'
    BY DEF Versions, UnknownAfterCommit, Missing
<1>5. CurrentKnowsDisk'
    BY <1>1 DEF SoloOperation, CurrentKnowsDisk, Versions, UnknownAfterCommit, Missing
<1> QED
    BY <1>2, <1>3, <1>4, <1>5

LEMMA SoloWriteSkipped ==
    ASSUME OneInstance, SoloInvariant, TypeOK', NEW i \in Instances, WriteSkipped(i)
    PROVE  SoloInvariant'
<1> USE SharingAssumption DEF SoloInvariant, TypeOK, WriteSkipped, SameBytes
<1>1. \A j \in Instances : j = i
    BY DEF OneInstance
<1>2. SoloOperation'
    BY <1>1 DEF SoloOperation, ChangesToldRight, CurrentKnowsDisk, AllOperations
<1>3. ChangesToldRight'
    BY <1>1 DEF SoloOperation, ChangesToldRight, CurrentKnowsDisk, AllOperations
<1>4. \A j \in Instances : expected'[j] <= revision'
    BY DEF Versions, UnknownAfterCommit, Missing
<1>5. CurrentKnowsDisk'
    BY <1>1 DEF SoloOperation, CurrentKnowsDisk, Versions, UnknownAfterCommit, Missing
<1> QED
    BY <1>2, <1>3, <1>4, <1>5

LEMMA SoloWrite ==
    ASSUME OneInstance, SoloInvariant, TypeOK', NEW i \in Instances, Write(i)
    PROVE  SoloInvariant'
<1> USE SharingAssumption DEF SoloInvariant, TypeOK, Write, Commit, MayWrite
<1>1. \A j \in Instances : j = i
    BY DEF OneInstance
<1>2. SoloOperation'
    BY <1>1 DEF SoloOperation, ChangesToldRight, CurrentKnowsDisk, AllOperations
<1>3. ChangesToldRight'
    BY <1>1 DEF SoloOperation, ChangesToldRight, CurrentKnowsDisk, AllOperations
<1>4. \A j \in Instances : expected'[j] <= revision'
    BY DEF Versions, UnknownAfterCommit, Missing
<1>5. CurrentKnowsDisk'
    BY <1>1 DEF SoloOperation, CurrentKnowsDisk, Versions, UnknownAfterCommit, Missing
<1> QED
    BY <1>2, <1>3, <1>4, <1>5

LEMMA SoloWriteFails ==
    ASSUME OneInstance, SoloInvariant, TypeOK', NEW i \in Instances, WriteFails(i)
    PROVE  SoloInvariant'
<1> USE SharingAssumption DEF SoloInvariant, TypeOK, WriteFails, SaveFails, AfterError
<1>1. \A j \in Instances : j = i
    BY DEF OneInstance
<1>2. SoloOperation'
    BY <1>1 DEF SoloOperation, ChangesToldRight, CurrentKnowsDisk, AllOperations
<1>3. ChangesToldRight'
    BY <1>1 DEF SoloOperation, ChangesToldRight, CurrentKnowsDisk, AllOperations
<1>4. \A j \in Instances : expected'[j] <= revision'
    BY DEF Versions, UnknownAfterCommit, Missing
<1>5. CurrentKnowsDisk'
    BY <1>1 DEF SoloOperation, CurrentKnowsDisk, Versions, UnknownAfterCommit, Missing
<1> QED
    BY <1>2, <1>3, <1>4, <1>5

LEMMA SoloReadbackFails ==
    ASSUME OneInstance, SoloInvariant, TypeOK', NEW i \in Instances, ReadbackFails(i)
    PROVE  SoloInvariant'
<1> USE SharingAssumption DEF SoloInvariant, TypeOK, ReadbackFails, Commit, MayWrite, SaveFails, AfterError
<1>1. \A j \in Instances : j = i
    BY DEF OneInstance
<1>2. SoloOperation'
    BY <1>1 DEF SoloOperation, ChangesToldRight, CurrentKnowsDisk, AllOperations
<1>3. ChangesToldRight'
    BY <1>1 DEF SoloOperation, ChangesToldRight, CurrentKnowsDisk, AllOperations
<1>4. \A j \in Instances : expected'[j] <= revision'
    BY DEF Versions, UnknownAfterCommit, Missing
<1>5. CurrentKnowsDisk'
    BY <1>1 DEF SoloOperation, CurrentKnowsDisk, Versions, UnknownAfterCommit, Missing
<1> QED
    BY <1>2, <1>3, <1>4, <1>5

LEMMA SoloRefreshFails ==
    ASSUME OneInstance, SoloInvariant, TypeOK', NEW i \in Instances, RefreshFails(i)
    PROVE  SoloInvariant'
<1> USE SharingAssumption DEF SoloInvariant, TypeOK, RefreshFails, SaveFails, AfterError
<1>1. \A j \in Instances : j = i
    BY DEF OneInstance
<1>2. SoloOperation'
    BY <1>1 DEF SoloOperation, ChangesToldRight, CurrentKnowsDisk, AllOperations
<1>3. ChangesToldRight'
    BY <1>1 DEF SoloOperation, ChangesToldRight, CurrentKnowsDisk, AllOperations
<1>4. \A j \in Instances : expected'[j] <= revision'
    BY DEF Versions, UnknownAfterCommit, Missing
<1>5. CurrentKnowsDisk'
    BY <1>1 DEF SoloOperation, CurrentKnowsDisk, Versions, UnknownAfterCommit, Missing
<1> QED
    BY <1>2, <1>3, <1>4, <1>5

LEMMA SoloRefresh ==
    ASSUME OneInstance, SoloInvariant, TypeOK', NEW i \in Instances, Refresh(i)
    PROVE  SoloInvariant'
<1> USE SharingAssumption DEF SoloInvariant, TypeOK, Refresh, Return, Tell
<1>1. \A j \in Instances : j = i
    BY DEF OneInstance
<1>2. SoloOperation'
    BY <1>1 DEF SoloOperation, ChangesToldRight, CurrentKnowsDisk, AllOperations
<1>3. ChangesToldRight'
    BY <1>1 DEF SoloOperation, ChangesToldRight, CurrentKnowsDisk, AllOperations
<1>4. \A j \in Instances : expected'[j] <= revision'
    BY DEF Versions, UnknownAfterCommit, Missing
<1>5. CurrentKnowsDisk'
    BY <1>1 DEF SoloOperation, CurrentKnowsDisk, Versions, UnknownAfterCommit, Missing
<1> QED
    BY <1>2, <1>3, <1>4, <1>5

LEMMA SoloVerifyDiffers ==
    ASSUME OneInstance, SoloInvariant, TypeOK', NEW i \in Instances, VerifyDiffers(i)
    PROVE  SoloInvariant'
<1> USE SharingAssumption DEF SoloInvariant, TypeOK, VerifyDiffers, Return, RolledBack, Tell
<1>1. \A j \in Instances : j = i
    BY DEF OneInstance
<1>2. SoloOperation'
    BY <1>1 DEF SoloOperation, ChangesToldRight, CurrentKnowsDisk, AllOperations
<1>3. ChangesToldRight'
    BY <1>1 DEF SoloOperation, ChangesToldRight, CurrentKnowsDisk, AllOperations
<1>4. \A j \in Instances : expected'[j] <= revision'
    BY DEF Versions, UnknownAfterCommit, Missing
<1>5. CurrentKnowsDisk'
    BY <1>1 DEF SoloOperation, CurrentKnowsDisk, Versions, UnknownAfterCommit, Missing
<1> QED
    BY <1>2, <1>3, <1>4, <1>5

LEMMA SoloVerifyMatches ==
    ASSUME OneInstance, SoloInvariant, TypeOK', NEW i \in Instances, VerifyMatches(i)
    PROVE  SoloInvariant'
<1> USE SharingAssumption DEF SoloInvariant, TypeOK, VerifyMatches
<1>1. \A j \in Instances : j = i
    BY DEF OneInstance
<1>2. SoloOperation'
    BY <1>1 DEF SoloOperation, ChangesToldRight, CurrentKnowsDisk, AllOperations
<1>3. ChangesToldRight'
    BY <1>1 DEF SoloOperation, ChangesToldRight, CurrentKnowsDisk, AllOperations
<1>4. \A j \in Instances : expected'[j] <= revision'
    BY DEF Versions, UnknownAfterCommit, Missing
<1>5. CurrentKnowsDisk'
    BY <1>1 DEF SoloOperation, CurrentKnowsDisk, Versions, UnknownAfterCommit, Missing
<1> QED
    BY <1>2, <1>3, <1>4, <1>5

LEMMA SoloAdopt ==
    ASSUME OneInstance, SoloInvariant, TypeOK', NEW i \in Instances, Adopt(i)
    PROVE  SoloInvariant'
<1> USE SharingAssumption DEF SoloInvariant, TypeOK, Adopt, Return, Tell
<1>1. \A j \in Instances : j = i
    BY DEF OneInstance
<1>2. SoloOperation'
    BY <1>1 DEF SoloOperation, ChangesToldRight, CurrentKnowsDisk, AllOperations
<1>3. ChangesToldRight'
    BY <1>1 DEF SoloOperation, ChangesToldRight, CurrentKnowsDisk, AllOperations
<1>4. \A j \in Instances : expected'[j] <= revision'
    BY DEF Versions, UnknownAfterCommit, Missing
<1>5. CurrentKnowsDisk'
    BY <1>1 DEF SoloOperation, CurrentKnowsDisk, Versions, UnknownAfterCommit, Missing
<1> QED
    BY <1>2, <1>3, <1>4, <1>5

LEMMA SoloVerifyFails ==
    ASSUME OneInstance, SoloInvariant, TypeOK', NEW i \in Instances, VerifyFails(i)
    PROVE  SoloInvariant'
<1> USE SharingAssumption DEF SoloInvariant, TypeOK, VerifyFails, Return, RolledBack, Tell
<1>1. \A j \in Instances : j = i
    BY DEF OneInstance
<1>2. SoloOperation'
    BY <1>1 DEF SoloOperation, ChangesToldRight, CurrentKnowsDisk, AllOperations
<1>3. ChangesToldRight'
    BY <1>1 DEF SoloOperation, ChangesToldRight, CurrentKnowsDisk, AllOperations
<1>4. \A j \in Instances : expected'[j] <= revision'
    BY DEF Versions, UnknownAfterCommit, Missing
<1>5. CurrentKnowsDisk'
    BY <1>1 DEF SoloOperation, CurrentKnowsDisk, Versions, UnknownAfterCommit, Missing
<1> QED
    BY <1>2, <1>3, <1>4, <1>5

LEMMA SoloInductive ==
    ASSUME OneInstance
    PROVE  SoloInvariant /\ [Next]_vars => SoloInvariant'
<1> SUFFICES ASSUME SoloInvariant, [Next]_vars PROVE SoloInvariant'
    OBVIOUS
<1>1. TypeOK'
    BY TypeInductive DEF SoloInvariant
<1>2. CASE UNCHANGED vars
    BY <1>2 DEF vars, SoloInvariant, TypeOK, SoloOperation, ChangesToldRight, CurrentKnowsDisk
<1>3. CASE Next
    BY <1>1, <1>3, SoloLoadStore, SoloCrash, SoloBeginTransaction, SoloBeginApplied, SoloBeginUnchanged, SoloLockSnapshot, SoloRefuse, SoloWriteSkipped, SoloWrite, SoloWriteFails, SoloReadbackFails, SoloRefreshFails, SoloRefresh, SoloVerifyDiffers, SoloVerifyMatches, SoloAdopt, SoloVerifyFails
    DEF Next, Step
<1> QED
    BY <1>2, <1>3

LEMMA SoloAlways ==
    ASSUME OneInstance
    PROVE  Spec => []SoloInvariant
<1>1. SoloInvariant /\ [Next]_vars => SoloInvariant'
    BY SoloInductive
<1> QED
    BY SoloInit, <1>1, PTL DEF Spec

\* A process alone with its store may write only when it has seen everything on
\* disk, whatever save, read-back, refresh or verification failed before and
\* however often it was restarted.
THEOREM SoloVersionIsCurrent ==
    ASSUME OneInstance
    PROVE  Spec => []CurrentKnowsDisk
<1>1. SoloInvariant => CurrentKnowsDisk
    BY DEF SoloInvariant
<1> QED
    BY SoloAlways, <1>1, PTL

LEMMA SoloStepRefines ==
    ASSUME OneInstance, SoloInvariant, [Next]_vars
    PROVE  [Durable!Next]_(Durable!vars)
<1> DEFINE acked == {c \in Changes : told[c] = "ok"}
           rejected == {c \in Changes : told[c] = "notCommitted"}
<1> SUFFICES \/ UNCHANGED <<content, acked, rejected>>
             \/ Durable!Write \/ Durable!Ack \/ Durable!Reject
    BY DEF Durable!Next, Durable!vars
<1>1. CASE UNCHANGED vars
    BY <1>1 DEF vars
<1>2. ASSUME NEW i \in Instances,
             \/ LoadStore(i) \/ Crash(i) \/ LockSnapshot(i) \/ Refuse(i) \/ WriteFails(i)
             \/ WriteSkipped(i) \/ RefreshFails(i) \/ VerifyMatches(i)
             \/ BeginUnchanged(i, "flush") \/ BeginUnchanged(i, "metadata")
      PROVE  UNCHANGED <<content, acked, rejected>>
    BY <1>2 DEF LoadStore, Crash, LockSnapshot, Refuse, WriteFails, WriteSkipped, RefreshFails,
                VerifyMatches, BeginUnchanged
<1>3. ASSUME NEW i \in Instances, BeginTransaction(i) \/ BeginApplied(i)
      PROVE  UNCHANGED <<content, acked, rejected>>
    BY <1>3 DEF BeginTransaction, BeginApplied, Tell, SoloInvariant, TypeOK
<1>4. ASSUME NEW i \in Instances, Commit(i), told' = told
      PROVE  UNCHANGED <<content, acked, rejected>> \/ Durable!Write
    <2>1. pc[i] = "check" /\ expected[i] = revision
        BY <1>4 DEF Commit, MayWrite, SoloInvariant, SoloOperation
    <2>2. content \subseteq next[i]
        BY <2>1 DEF SoloInvariant, CurrentKnowsDisk, SoloOperation
    <2>3. next[i] \in SUBSET (Changes \ rejected)
        BY DEF SoloInvariant, TypeOK, ChangesToldRight
    <2>4. content' = content \/ content' = content \cup next[i]
        BY <1>4, <2>2 DEF Commit
    <2>5. UNCHANGED <<acked, rejected>>
        BY <1>4
    <2> QED
        BY <2>3, <2>4, <2>5 DEF Durable!Write
<1>5. ASSUME NEW i \in Instances, Write(i) \/ ReadbackFails(i)
      PROVE  UNCHANGED <<content, acked, rejected>> \/ Durable!Write
    BY <1>4, <1>5 DEF Write, ReadbackFails
<1>6. ASSUME NEW i \in Instances, Refresh(i) \/ Adopt(i)
      PROVE  UNCHANGED <<content, acked, rejected>> \/ Durable!Ack
    <2>1. /\ content' = content
          /\ told' = [d \in Changes |-> IF d = change[i] THEN "ok" ELSE told[d]]
        BY <1>6 DEF Refresh, Adopt, Return, Tell
    <2>2. CASE op[i] \in {"transaction", "applied"}
        <3>1. change[i] \in content /\ change[i] \in Changes /\ told[change[i]] = "open"
            BY <1>6, <2>2 DEF Refresh, Adopt, SoloInvariant, SoloOperation, TypeOK
        <3>2. acked' = acked \cup {change[i]} /\ rejected' = rejected
            BY <2>1, <3>1
        <3> QED
            BY <2>1, <3>1, <3>2 DEF Durable!Ack
    <2>3. CASE op[i] \in {"flush", "metadata"}
        <3>1. change[i] \notin Changes
            BY <1>6, <2>3, SharingAssumption DEF Refresh, Adopt, SoloInvariant, SoloOperation
        <3> QED
            BY <2>1, <3>1 DEF SoloInvariant, TypeOK
    <2> QED
        BY <2>2, <2>3 DEF SoloInvariant, TypeOK, AllOperations
<1>7. ASSUME NEW i \in Instances, VerifyDiffers(i)
      PROVE  UNCHANGED <<content, acked, rejected>> \/ Durable!Reject
    <2>1. /\ content' = content
          /\ told' = [d \in Changes |->
                       IF d = change[i]
                       THEN IF op[i] = "transaction" THEN "notCommitted" ELSE "unknown"
                       ELSE told[d]]
        BY <1>7 DEF VerifyDiffers, Return, Tell
    <2>2. CASE op[i] = "transaction"
        <3>1. /\ change[i] \in Changes /\ change[i] \notin content
              /\ told[change[i]] = "open"
            BY <1>7, <2>2 DEF VerifyDiffers, SoloInvariant, SoloOperation, TypeOK
        <3>2. acked' = acked /\ rejected' = rejected \cup {change[i]}
            BY <2>1, <2>2, <3>1
        <3> QED
            BY <2>1, <3>1, <3>2 DEF Durable!Reject
    <2>3. CASE op[i] # "transaction"
        <3>1. change[i] \in Changes => told[change[i]] = "open"
            BY <1>7, <2>3, SharingAssumption
            DEF VerifyDiffers, SoloInvariant, SoloOperation, TypeOK, AllOperations
        <3> QED
            BY <2>1, <2>3, <3>1
    <2> QED
        BY <2>2, <2>3
<1>8. ASSUME NEW i \in Instances, VerifyFails(i)
      PROVE  UNCHANGED <<content, acked, rejected>>
    <2>1. /\ content' = content
          /\ told' = [d \in Changes |-> IF d = change[i] THEN "unknown" ELSE told[d]]
        BY <1>8 DEF VerifyFails, Return, Tell
    <2>2. change[i] \in Changes => told[change[i]] = "open"
        BY <1>8, SharingAssumption
        DEF VerifyFails, SoloInvariant, SoloOperation, TypeOK, AllOperations
    <2> QED
        BY <2>1, <2>2
<1>9. CASE Next
    BY <1>2, <1>3, <1>5, <1>6, <1>7, <1>8, <1>9 DEF Next, Step
<1> QED
    BY <1>1, <1>9

\* A process alone with its data directory is durable through every failure of
\* a save, a read-back, a refresh or a verification, and through crashes.
THEOREM SoloStoreIsDurable ==
    ASSUME OneInstance
    PROVE  Spec => ImplementsDurableLog
<1>1. Init => Durable!Init
    BY DEF Init, Durable!Init
<1>2. SoloInvariant /\ [Next]_vars => [Durable!Next]_(Durable!vars)
    BY SoloStepRefines
<1> QED
    BY <1>1, <1>2, SoloAlways, PTL DEF Spec, ImplementsDurableLog, Durable!Spec
=============================================================================
