----------------------------- MODULE StoreSnapshot -----------------------------
(***************************************************************************)
(* How PortMate processes share one persisted SessionStore.                *)
(*                                                                         *)
(* Each process keeps the whole store in memory and replaces the whole     *)
(* snapshot in SQLite when it saves.  A save holds an OS file lock and     *)
(* compares the version on disk with the one this process expects          *)
(* (STORE_SNAPSHOT_VERSIONS); a mismatch refuses the write.  A save that   *)
(* returns an error is followed by verify_persisted_store_commit, which    *)
(* reads the snapshot back - without the file lock - to find out whether   *)
(* the write took effect after all.                                        *)
(*                                                                         *)
(* A store's contents are represented by the set of changes made to reach  *)
(* them; a version by a number, because storeRevision is a fresh UUID in   *)
(* every writing transaction and is part of the version's digest.  Within  *)
(* one process the SessionStore mutex is held from the change to the end   *)
(* of the verification, so a process has one operation under way.          *)
(***************************************************************************)
EXTENDS Integers, FiniteSets

CONSTANTS
    Instances,    \* processes that use the same data directory
    Changes,      \* changes to the store, each made once
    Operations,   \* which kinds of operation the processes perform
    Faults,       \* which I/O failures happen
    MaxRevision,  \* bound: writing transactions
    Nobody        \* no holder of the file lock, no change

\* "transaction": commit_store_mutation and its tracked form, undone in memory
\* when the save fails.  "applied": persist_applied_store, memory is kept.
\* "flush": persist_applied_store of an unchanged store.  "metadata": a
\* journal update that leaves the store's contents alone.
AllOperations == {"transaction", "applied", "flush", "metadata"}

\* "write": the transaction fails before COMMIT.  "readback": an error after
\* COMMIT.  "refresh": the new version cannot be read.  "verify": the
\* verification cannot read the store.
AllFaults == {"write", "readback", "refresh", "verify"}

ASSUME SharingAssumption ==
    /\ Operations \subseteq AllOperations
    /\ Faults \subseteq AllFaults
    /\ MaxRevision \in Nat
    /\ Nobody \notin Instances
    /\ Nobody \notin Changes

VARIABLES
    revision,  \* the version of the snapshot on disk
    content,   \* the changes it contains
    lock,      \* the holder of the snapshot file lock
    pc,        \* per instance: where its operation is
    op,        \* per instance: the kind of operation
    change,    \* per instance: the change it is about
    memory,    \* per instance: the store in memory
    next,      \* per instance: the store being saved
    expected,  \* per instance: the expected version
    seen,      \* per instance: the version read under the lock
    told       \* per change: what the caller of its operation was told

disk == <<revision, content>>
vars == <<revision, content, lock, pc, op, change, memory, next, expected, seen, told>>

\* Values of StoreSnapshotVersion other than a digest.
Missing == 0
UnknownAfterCommit == -1

Versions == {UnknownAfterCommit} \cup Nat

PCs == {"down", "idle", "save", "check", "refresh", "verify", "adopt"}

\* What a caller knows of a change: nothing yet, not finished, saved, not
\* committed, or (applied but unsaved, unverifiable) nothing for sure.
Verdicts == {"fresh", "open", "ok", "notCommitted", "unknown"}

TypeOK ==
    /\ revision \in Nat
    /\ content \in SUBSET Changes
    /\ lock \in Instances \cup {Nobody}
    /\ pc \in [Instances -> PCs]
    /\ op \in [Instances -> AllOperations]
    /\ change \in [Instances -> Changes \cup {Nobody}]
    /\ memory \in [Instances -> SUBSET Changes]
    /\ next \in [Instances -> SUBSET Changes]
    /\ expected \in [Instances -> Versions]
    /\ seen \in [Instances -> Nat]
    /\ told \in [Changes -> Verdicts]

Init ==
    /\ revision = Missing
    /\ content = {}
    /\ lock = Nobody
    /\ pc = [i \in Instances |-> "down"]
    /\ op = [i \in Instances |-> "flush"]
    /\ change = [i \in Instances |-> Nobody]
    /\ memory = [i \in Instances |-> {}]
    /\ next = [i \in Instances |-> {}]
    /\ expected = [i \in Instances |-> Missing]
    /\ seen = [i \in Instances |-> Missing]
    /\ told = [c \in Changes |-> "fresh"]

Tell(c, verdict) == told' = [d \in Changes |-> IF d = c THEN verdict ELSE told[d]]

-------------------------------------------------------------------------------
(* Starting and stopping a process. *)

\* load_store: read the snapshot, or write the default store when there is
\* none, and remember its version; all under the file lock.
LoadStore(i) ==
    /\ pc[i] = "down"
    /\ lock = Nobody
    /\ revision' = IF revision = Missing THEN 1 ELSE revision
    /\ pc' = [pc EXCEPT ![i] = "idle"]
    /\ memory' = [memory EXCEPT ![i] = content]
    /\ next' = [next EXCEPT ![i] = content]
    /\ expected' = [expected EXCEPT ![i] = revision']
    /\ UNCHANGED <<content, lock, op, change, seen, told>>

\* The process ends at any point; the operating system drops its file lock.
Crash(i) ==
    /\ pc[i] # "down"
    /\ pc' = [pc EXCEPT ![i] = "down"]
    /\ lock' = IF lock = i THEN Nobody ELSE lock
    /\ change' = [change EXCEPT ![i] = Nobody]
    /\ memory' = [memory EXCEPT ![i] = {}]
    /\ next' = [next EXCEPT ![i] = {}]
    /\ UNCHANGED <<revision, content, op, expected, seen, told>>

-------------------------------------------------------------------------------
(* Operations begin with the SessionStore mutex taken. *)

\* commit_store_mutation clones the store and mutates the clone;
\* commit_tracked_store_mutation keeps a clone to go back to.
BeginTransaction(i) ==
    \E c \in Changes :
        /\ "transaction" \in Operations
        /\ pc[i] = "idle"
        /\ told[c] = "fresh"
        /\ pc' = [pc EXCEPT ![i] = "save"]
        /\ op' = [op EXCEPT ![i] = "transaction"]
        /\ change' = [change EXCEPT ![i] = c]
        /\ next' = [next EXCEPT ![i] = memory[i] \cup {c}]
        /\ Tell(c, "open")
        /\ UNCHANGED <<revision, content, lock, memory, expected, seen>>

\* The store in memory has already changed (an event recorded, a runtime
\* status set) when persist_applied_store is called.
BeginApplied(i) ==
    \E c \in Changes :
        /\ "applied" \in Operations
        /\ pc[i] = "idle"
        /\ told[c] = "fresh"
        /\ pc' = [pc EXCEPT ![i] = "save"]
        /\ op' = [op EXCEPT ![i] = "applied"]
        /\ change' = [change EXCEPT ![i] = c]
        /\ memory' = [memory EXCEPT ![i] = @ \cup {c}]
        /\ next' = [next EXCEPT ![i] = memory[i] \cup {c}]
        /\ Tell(c, "open")
        /\ UNCHANGED <<revision, content, lock, expected, seen>>

\* A save of an unchanged store, or a journal update.
BeginUnchanged(i, kind) ==
    /\ kind \in Operations
    /\ pc[i] = "idle"
    /\ pc' = [pc EXCEPT ![i] = "save"]
    /\ op' = [op EXCEPT ![i] = kind]
    /\ change' = [change EXCEPT ![i] = Nobody]
    /\ next' = [next EXCEPT ![i] = memory[i]]
    /\ UNCHANGED <<revision, content, lock, memory, expected, seen, told>>

-------------------------------------------------------------------------------
(* save_store and mutate_store_metadata_checked, under the file lock. *)

LockSnapshot(i) ==
    /\ pc[i] = "save"
    /\ lock = Nobody
    /\ lock' = i
    /\ pc' = [pc EXCEPT ![i] = "check"]
    /\ seen' = [seen EXCEPT ![i] = revision]
    /\ UNCHANGED <<revision, content, op, change, memory, next, expected, told>>

MayWrite(i) == expected[i] = seen[i]

\* A failed journal update is only reported; a failed save is verified.
AfterError(i) == IF op[i] = "metadata" THEN "idle" ELSE "verify"

SaveFails(i, version) ==
    /\ lock' = Nobody
    /\ pc' = [pc EXCEPT ![i] = AfterError(i)]
    /\ expected' = [expected EXCEPT ![i] = version]

\* expected # current, UnknownAfterCommit included.
Refuse(i) ==
    /\ pc[i] = "check"
    /\ ~ MayWrite(i)
    /\ SaveFails(i, expected[i])
    /\ UNCHANGED <<revision, content, op, change, memory, next, seen, told>>

\* Bytes identical to the snapshot on disk are not written again.
SameBytes(i) == op[i] # "metadata" /\ next[i] = content

WriteSkipped(i) ==
    /\ pc[i] = "check"
    /\ MayWrite(i)
    /\ SameBytes(i)
    /\ pc' = [pc EXCEPT ![i] = "refresh"]
    /\ UNCHANGED <<revision, content, lock, op, change, memory, next, expected, seen, told>>

\* The writing transaction and its COMMIT: a new revision, and for a save the
\* whole of the store.
Commit(i) ==
    /\ pc[i] = "check"
    /\ MayWrite(i)
    /\ ~ SameBytes(i)
    /\ revision < MaxRevision
    /\ revision' = revision + 1
    /\ content' = IF op[i] = "metadata" THEN content ELSE next[i]

Write(i) ==
    /\ Commit(i)
    /\ pc' = [pc EXCEPT ![i] = "refresh"]
    /\ UNCHANGED <<lock, op, change, memory, next, expected, seen, told>>

WriteFails(i) ==
    /\ "write" \in Faults
    /\ pc[i] = "check"
    /\ MayWrite(i)
    /\ SaveFails(i, expected[i])
    /\ UNCHANGED <<revision, content, op, change, memory, next, seen, told>>

\* An error after COMMIT.  The version on disk has changed: it is not known
\* any more, or stays the old one when it cannot be read either.
ReadbackFails(i) ==
    /\ "readback" \in Faults
    /\ Commit(i)
    /\ \E version \in {UnknownAfterCommit, expected[i]} : SaveFails(i, version)
    /\ UNCHANGED <<op, change, memory, next, seen, told>>

RefreshFails(i) ==
    /\ "refresh" \in Faults
    /\ pc[i] = "refresh"
    /\ SaveFails(i, UnknownAfterCommit)
    /\ UNCHANGED <<revision, content, op, change, memory, next, seen, told>>

-------------------------------------------------------------------------------
(* The end of an operation. *)

\* The caller is told the verdict; the store in memory becomes m.
Return(i, m, verdict) ==
    /\ pc' = [pc EXCEPT ![i] = "idle"]
    /\ memory' = [memory EXCEPT ![i] = m]
    /\ next' = [next EXCEPT ![i] = m]
    /\ change' = [change EXCEPT ![i] = Nobody]
    /\ Tell(change[i], verdict)

\* What a failed save leaves in memory: next_store is dropped, or the clone
\* put back; a change that was already applied stays.
RolledBack(i) == memory[i]

\* The new version is known; the save (or journal update) succeeded.
Refresh(i) ==
    /\ pc[i] = "refresh"
    /\ lock' = Nobody
    /\ expected' = [expected EXCEPT ![i] = revision]
    /\ Return(i, next[i], "ok")
    /\ UNCHANGED <<revision, content, op, seen>>

\* verify_persisted_store_commit reads another store than the intended one:
\* a transaction was not committed.
VerifyDiffers(i) ==
    /\ pc[i] = "verify"
    /\ content # next[i]
    /\ Return(i, RolledBack(i), IF op[i] = "transaction" THEN "notCommitted" ELSE "unknown")
    /\ UNCHANGED <<revision, content, lock, op, expected, seen>>

\* It reads the intended store, and has still to read the version.
VerifyMatches(i) ==
    /\ pc[i] = "verify"
    /\ content = next[i]
    /\ pc' = [pc EXCEPT ![i] = "adopt"]
    /\ UNCHANGED <<revision, content, lock, op, change, memory, next, expected, seen, told>>

\* The version on disk by now becomes the expected one; the commit stands.
Adopt(i) ==
    /\ pc[i] = "adopt"
    /\ expected' = [expected EXCEPT ![i] = revision]
    /\ Return(i, next[i], "ok")
    /\ UNCHANGED <<revision, content, lock, op, seen>>

\* Mutant: a verification that cannot read the store counts as not committed.
VerifyFailsAsNotCommitted(i) ==
    /\ "verify" \in Faults
    /\ pc[i] \in {"verify", "adopt"}
    /\ Return(i, RolledBack(i), IF op[i] = "transaction" THEN "notCommitted" ELSE "unknown")
    /\ UNCHANGED <<revision, content, lock, op, expected, seen>>

\* One of the two reads fails: StoreCommitState::Unknown.
VerifyFails(i) ==
    /\ "verify" \in Faults
    /\ pc[i] \in {"verify", "adopt"}
    /\ Return(i, RolledBack(i), "unknown")
    /\ UNCHANGED <<revision, content, lock, op, expected, seen>>

-------------------------------------------------------------------------------
Step(i) ==
    \/ LoadStore(i) \/ Crash(i)
    \/ BeginTransaction(i) \/ BeginApplied(i)
    \/ BeginUnchanged(i, "flush") \/ BeginUnchanged(i, "metadata")
    \/ LockSnapshot(i) \/ Refuse(i) \/ WriteSkipped(i) \/ Write(i)
    \/ WriteFails(i) \/ ReadbackFails(i) \/ RefreshFails(i) \/ Refresh(i)
    \/ VerifyDiffers(i) \/ VerifyMatches(i) \/ Adopt(i) \/ VerifyFails(i)

Next == \E i \in Instances : Step(i)

Spec == Init /\ [][Next]_vars

-------------------------------------------------------------------------------
(* Properties. *)

\* A process whose expected version is the one on disk has every change on
\* disk in memory: the compare-and-swap of save_store may let it write.
CurrentKnowsDisk ==
    \A i \in Instances :
        pc[i] \notin {"down", "refresh"} /\ expected[i] = revision
            => content \subseteq memory[i]

\* A stale write is refused: no write to the snapshot drops a change that
\* another save had put there ("已拒绝陈旧写入").
NoLostChange == [][content \subseteq content']_content

\* Callers of a transaction that was reported not committed delete the secrets
\* they generated for it: the store on disk must not refer to them.
NotCommittedIsAbsent ==
    \A c \in content : told[c] # "notCommitted"

\* The shared store is a durable log: writes only add, what a caller was told
\* is saved stays saved, and what it was told is not committed stays out.
Durable == INSTANCE DurableLog WITH
    log <- content,
    acked <- {c \in Changes : told[c] = "ok"},
    rejected <- {c \in Changes : told[c] = "notCommitted"}

ImplementsDurableLog == Durable!Spec

-------------------------------------------------------------------------------
(* The inductive invariant of processes that share a store whose committed   *)
(* writes are never reported as errors and whose saves all carry a change.   *)

PlainSharing ==
    /\ Operations \subseteq {"transaction", "applied"}
    /\ Faults \subseteq {"write"}

Saving == {"save", "check", "refresh", "verify"}

LockHeld ==
    \A i \in Instances :
        /\ pc[i] \in {"check", "refresh"} => lock = i
        /\ pc[i] = "check" => seen[i] = revision
        /\ pc[i] = "refresh" => content = next[i]

OperationsUnderWay ==
    \A i \in Instances :
        /\ pc[i] # "adopt"
        /\ pc[i] \in Saving =>
            /\ op[i] \in {"transaction", "applied"}
            /\ change[i] \in next[i]
            /\ told[change[i]] = "open"
            /\ memory[i] \subseteq next[i]
            /\ op[i] = "transaction" => change[i] \notin memory[i]
        /\ pc[i] \notin Saving => next[i] = memory[i]

\* An unsaved change is known to the process that makes it and to no other.
OwnChange ==
    \A i \in Instances :
        pc[i] \in Saving =>
            /\ pc[i] # "refresh" => change[i] \notin content
            /\ \A j \in Instances \ {i} : change[i] \notin next[j]

\* A fresh change is nowhere, a refused one has been forgotten everywhere, and
\* a saved one is on disk.
ChangesToldRight ==
    \A c \in Changes :
        /\ told[c] \in {"fresh", "notCommitted"} =>
            c \notin content /\ \A i \in Instances : c \notin next[i]
        /\ told[c] = "ok" => c \in content

SharedInvariant ==
    /\ TypeOK
    /\ LockHeld
    /\ OperationsUnderWay
    /\ OwnChange
    /\ ChangesToldRight
    /\ \A i \in Instances : expected[i] <= revision
    /\ CurrentKnowsDisk

-------------------------------------------------------------------------------
(* The inductive invariant of a process that has the store to itself, with   *)
(* every kind of operation and every I/O failure.                            *)

OneInstance == \A i, j \in Instances : i = j

\* A failed save either wrote the store it meant to write or did not write
\* its change; a transaction under way is not in memory yet.
SoloOperation ==
    \A i \in Instances :
        /\ memory[i] \subseteq next[i]
        /\ pc[i] \in {"down", "idle"} => next[i] = memory[i]
        /\ pc[i] = "check" => seen[i] = revision
        /\ pc[i] = "refresh" => content \subseteq next[i]
        /\ pc[i] = "refresh" /\ op[i] # "metadata" => content = next[i]
        /\ pc[i] = "adopt" => content = next[i]
        /\ pc[i] \in {"verify", "adopt"} => op[i] # "metadata"
        /\ pc[i] \notin {"down", "idle"} =>
            /\ op[i] \in {"transaction", "applied"} =>
                /\ change[i] \in next[i]
                /\ told[change[i]] = "open"
                /\ op[i] = "transaction" => change[i] \notin memory[i]
                /\ pc[i] \in {"save", "check"} => change[i] \notin content
                /\ pc[i] = "verify" => change[i] \notin content \/ content = next[i]
            /\ op[i] \in {"flush", "metadata"} => change[i] = Nobody /\ next[i] = memory[i]

SoloInvariant ==
    /\ TypeOK
    /\ SoloOperation
    /\ ChangesToldRight
    /\ \A i \in Instances : expected[i] <= revision
    /\ CurrentKnowsDisk
=============================================================================
