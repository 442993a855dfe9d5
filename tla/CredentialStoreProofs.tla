----------------------- MODULE CredentialStoreProofs -----------------------
(***************************************************************************)
(* Proofs about CredentialStore, for any number of processes, profiles and *)
(* secrets and for any order of failures.                                  *)
(***************************************************************************)
EXTENDS CredentialStore, TLAPS

----------------------------------------------------------------------------
(* The inductive invariant.                                                *)

\* What a process believes of the store and of the vault.
Views ==
    /\ \A p \in Procs : current[p] => mem[p] = disk
    /\ \A p \in Procs : handle[p] = "current" => view[p] = vault /\ made
    /\ ~ made => vault = {}

\* The plan of a migration that has not been committed, and that of one that has.
Planned ==
    /\ Affected # {} /\ \A f \in Affected : before[f] \in Moved
    /\ \A s \in Moved : \E f \in Affected : before[f] = s

Uncommitted ==
    /\ Planned
    /\ AllBefore(disk) /\ Moved \subseteq keyring \cup lost
    /\ \A t \in NewRefs : ~ InUse(disk, t)

Committed == Planned /\ AllAfter(disk) /\ NewRefs \subseteq vault

JournalFits ==
    /\ jstate \in PreCommit => Uncommitted
    /\ jstate \in PostCommit => Committed
    /\ jstate = "needsResolution" => lost # {}

Replacing == {"generate", "commit", "verifyCommit", "cleanup", "rollback"}

\* What a migration leaves behind is in use.
ClearedUp ==
    /\ jstate = "targetCleanupPending" => NewRefs \cap vault = {}
    /\ jstate \in PostCommit /\ cleanup => \A s \in Moved : InUse(disk, s) \/ s \notin keyring

\* What the holder of the credential lock relies on at each of its steps.
StepFits ==
    /\ holder = NoProc <=> step = "idle"
    /\ touched => holder # NoProc /\ ~ current[holder]
    /\ task = "replace" <=> step \in Replacing
    /\ step \in Replacing =>
         /\ jstate = "none" /\ slot \in Slots
         /\ new # NoRef /\ step = "commit" => new \in keyring \cup vault
         /\ generated => new \in Targets /\ (step \in {"generate", "commit", "rollback"} => ~ InUse(disk, new))
         /\ step = "generate" => generated
    /\ step = "verifyCommit" => ~ touched /\ disk = Replaced(holder)
    /\ step \in {"cleanup", "deleteSources"} => mem[holder] = disk
    /\ step = "prepare" => jstate = "none" /\ Uncommitted
    /\ step \in {"write", "reject", "verify"} => jstate = "targetWritePending"
    /\ step = "persist" => jstate = "targetsVerified"
    /\ step \in {"verify", "persist"} => NewRefs \subseteq vault
    /\ step \in {"checkpoint", "pending"} => jstate \in PostCommit
    /\ step = "deleteSources" => jstate = "sourceCleanupPending"
    /\ step = "undoMark" => jstate \in PreCommit
    /\ step = "undoDelete" => jstate = "targetCleanupPending"
    /\ step \in {"prepare", "write", "verify", "persist", "undoMark", "undoDelete"} => handle[holder] = "current"
    /\ step = "clear" => jstate \in {"targetCleanupPending"} \cup PostCommit /\ ClearedUp
    /\ step = "freeze" => jstate # "none" /\ lost # {}
CInv == TypeOK /\ Views /\ JournalFits /\ StepFits /\ NoDangling

----------------------------------------------------------------------------
(* Types.                                                                  *)

\* The types of what a save of the vault changes.
VaultTypes ==
    /\ vault' \subseteq Targets /\ view' \in [Procs -> SUBSET Targets]
    /\ handle' \in [Procs -> {"locked", "current", "stale", "unknown"}]

(* PortableStronghold::save keeps the types of the vault.                   *)
LEMMA SaveTypes ==
    ASSUME DiskTypes, ProcTypes, NEW p \in Procs, NEW v \in SUBSET Targets, NEW b, Save(p, v, b)
    PROVE  VaultTypes
<1>1. vault' \subseteq Targets /\ view' \in [Procs -> SUBSET Targets]
  BY DEF Save, ProcTypes
<1>2. \A q \in Procs : (IF q = p THEN IF b THEN "current" ELSE "unknown"
                       ELSE IF handle[q] = "current" THEN "stale" ELSE handle[q])
                      \in {"locked", "current", "stale", "unknown"}
  BY DEF ProcTypes
<1>3. handle' \in [Procs -> {"locked", "current", "stale", "unknown"}]
  BY <1>2 DEF Save
<1> QED
  BY <1>1, <1>3 DEF VaultTypes

(* So does leaving the vault alone ...                                      *)
LEMMA SameVault == ASSUME DiskTypes, ProcTypes, UNCHANGED vaultVars PROVE VaultTypes
  BY DEF VaultTypes, vaultVars, DiskTypes, ProcTypes

(* ... and the deletion of one secret.                                      *)
LEMMA DiscardTypes ==
    ASSUME DiskTypes, ProcTypes, NEW p \in Procs, NEW r, Discard(p, r)
    PROVE  VaultTypes /\ keyring' \subseteq Sources
<1>1. CASE keyring' = keyring \ {r} /\ UNCHANGED vaultVars
  BY <1>1, SameVault DEF DiskTypes
<1>2. CASE UNCHANGED <<keyring, vaultVars>>
  BY <1>2, SameVault DEF DiskTypes
<1>3. ASSUME NEW b, Save(p, view[p] \ {r}, b), UNCHANGED keyring PROVE VaultTypes /\ keyring' \subseteq Sources
  <2>1. view[p] \ {r} \in SUBSET Targets
    BY DEF ProcTypes
  <2> QED
    BY <1>3, <2>1, SaveTypes DEF DiskTypes
<1> QED
  BY <1>1, <1>2, <1>3, Zenon DEF Discard

(* Every step keeps the types.                                              *)
LEMMA TypeStep == ASSUME TypeOK, StepFits, [Next]_vars PROVE TypeOK'
<1> USE CredentialAssumption DEF TypeOK
<1>1. ASSUME NEW p \in Procs, CreateVault(p) PROVE TypeOK'
  <2>1. CmdTypes'
    BY <1>1 DEF CreateVault, At, Goto, Begin, Release, Published, Save, vaultVars, payload,
       cmdVars, diskVars, procVars, Edit, CmdTypes, ProcTypes, Steps, Slots, Refs
  <2>2. ProcTypes'
    BY <1>1 DEF CreateVault, At, Goto, Begin, Release, Published, Save, vaultVars, payload,
       cmdVars, diskVars, procVars, Edit, ProcTypes, DiskTypes, CmdTypes, Slots, Refs
  <2>3. DiskTypes'
    BY <1>1 DEF CreateVault, At, Goto, Begin, Release, Published, Save, vaultVars, payload,
       cmdVars, diskVars, procVars, Edit, ProcTypes, CmdTypes, DiskTypes, Slots, Refs, NoBefore,
       NoMoves, JournalStates
  <2>4. (edits \in 0 .. MaxEdits)'
    BY <1>1 DEF CreateVault, At, Goto, Begin, Release, Published, Save, vaultVars, payload,
       cmdVars, diskVars, procVars, Edit
  <2> QED
    BY <2>1, <2>2, <2>3, <2>4
<1>2. ASSUME NEW p \in Procs, UnlockVault(p) PROVE TypeOK'
  <2>1. CmdTypes'
    BY <1>2 DEF UnlockVault, At, Goto, Begin, Release, Published, Save, vaultVars, payload,
       cmdVars, diskVars, procVars, Edit, CmdTypes, ProcTypes, Steps, Slots, Refs
  <2>2. ProcTypes'
    BY <1>2 DEF UnlockVault, At, Goto, Begin, Release, Published, Save, vaultVars, payload,
       cmdVars, diskVars, procVars, Edit, ProcTypes, DiskTypes, CmdTypes, Slots, Refs
  <2>3. DiskTypes'
    BY <1>2 DEF UnlockVault, At, Goto, Begin, Release, Published, Save, vaultVars, payload,
       cmdVars, diskVars, procVars, Edit, ProcTypes, CmdTypes, DiskTypes, Slots, Refs, NoBefore,
       NoMoves, JournalStates
  <2>4. (edits \in 0 .. MaxEdits)'
    BY <1>2 DEF UnlockVault, At, Goto, Begin, Release, Published, Save, vaultVars, payload,
       cmdVars, diskVars, procVars, Edit
  <2> QED
    BY <2>1, <2>2, <2>3, <2>4
<1>3. ASSUME NEW p \in Procs, LockVault(p) PROVE TypeOK'
  <2>1. CmdTypes'
    BY <1>3 DEF LockVault, At, Goto, Begin, Release, Published, Save, vaultVars, payload, cmdVars,
       diskVars, procVars, Edit, CmdTypes, ProcTypes, Steps, Slots, Refs
  <2>2. ProcTypes'
    BY <1>3 DEF LockVault, At, Goto, Begin, Release, Published, Save, vaultVars, payload, cmdVars,
       diskVars, procVars, Edit, ProcTypes, DiskTypes, CmdTypes, Slots, Refs
  <2>3. DiskTypes'
    BY <1>3 DEF LockVault, At, Goto, Begin, Release, Published, Save, vaultVars, payload, cmdVars,
       diskVars, procVars, Edit, ProcTypes, CmdTypes, DiskTypes, Slots, Refs, NoBefore, NoMoves,
       JournalStates
  <2>4. (edits \in 0 .. MaxEdits)'
    BY <1>3 DEF LockVault, At, Goto, Begin, Release, Published, Save, vaultVars, payload, cmdVars,
       diskVars, procVars, Edit
  <2> QED
    BY <2>1, <2>2, <2>3, <2>4
<1>4. ASSUME NEW p \in Procs, RotateVaultPassword(p) PROVE TypeOK'
  <2>1. CmdTypes'
    BY <1>4 DEF RotateVaultPassword, At, Goto, Begin, Release, Published, Save, vaultVars, payload,
       cmdVars, diskVars, procVars, Edit, CmdTypes, ProcTypes, Steps, Slots, Refs
  <2>2. ProcTypes'
    BY <1>4 DEF RotateVaultPassword, At, Goto, Begin, Release, Published, Save, vaultVars, payload,
       cmdVars, diskVars, procVars, Edit, ProcTypes, DiskTypes, CmdTypes, Slots, Refs
  <2>3. DiskTypes'
    BY <1>4 DEF RotateVaultPassword, At, Goto, Begin, Release, Published, Save, vaultVars, payload,
       cmdVars, diskVars, procVars, Edit, ProcTypes, CmdTypes, DiskTypes, Slots, Refs, NoBefore,
       NoMoves, JournalStates
  <2>4. (edits \in 0 .. MaxEdits)'
    BY <1>4 DEF RotateVaultPassword, At, Goto, Begin, Release, Published, Save, vaultVars, payload,
       cmdVars, diskVars, procVars, Edit
  <2> QED
    BY <2>1, <2>2, <2>3, <2>4
<1>5. ASSUME NEW p \in Procs, SaveSecret(p) PROVE TypeOK'
  <2>1. CmdTypes'
    BY <1>5 DEF SaveSecret, At, Goto, Begin, Release, Published, Save, vaultVars, payload, cmdVars,
       diskVars, procVars, Edit, Unseen, CmdTypes, ProcTypes, Steps, Slots, Refs
  <2>2. ProcTypes'
    BY <1>5 DEF SaveSecret, At, Goto, Begin, Release, Published, Save, vaultVars, payload, cmdVars,
       diskVars, procVars, Edit, Unseen, ProcTypes, DiskTypes, CmdTypes, Slots, Refs
  <2>3. DiskTypes'
    BY <1>5 DEF SaveSecret, At, Goto, Begin, Release, Published, Save, vaultVars, payload, cmdVars,
       diskVars, procVars, Edit, Unseen, ProcTypes, CmdTypes, DiskTypes, Slots, Refs, NoBefore,
       NoMoves, JournalStates
  <2>4. (edits \in 0 .. MaxEdits)'
    BY <1>5 DEF SaveSecret, At, Goto, Begin, Release, Published, Save, vaultVars, payload, cmdVars,
       diskVars, procVars, Edit, Unseen
  <2> QED
    BY <2>1, <2>2, <2>3, <2>4
<1>6. ASSUME NEW p \in Procs, NEW r \in Refs, DeleteSecret(p, r) PROVE TypeOK'
  <2>1. CmdTypes'
    BY <1>6 DEF DeleteSecret, At, Goto, Begin, Release, Published, Save, vaultVars, payload,
       cmdVars, diskVars, procVars, Edit, Present, CmdTypes, ProcTypes, Steps, Slots, Refs
  <2>2. ProcTypes'
    <3>1. CASE UNCHANGED vaultVars
      BY <1>6, <3>1, SameVault DEF DeleteSecret, VaultTypes, ProcTypes
    <3>2. ASSUME NEW b, Save(p, view[p] \ {r}, b) PROVE ProcTypes'
      <4>1. view[p] \ {r} \in SUBSET Targets
        BY DEF ProcTypes
      <4>2. VaultTypes
        BY <3>2, <4>1, SaveTypes
      <4> QED
        BY <1>6, <4>2 DEF DeleteSecret, VaultTypes, ProcTypes
    <3> QED
      BY <1>6, <3>1, <3>2, Zenon DEF DeleteSecret
  <2>3. DiskTypes'
    BY <1>6 DEF DeleteSecret, At, Goto, Begin, Release, Published, Save, vaultVars, payload,
       cmdVars, diskVars, procVars, Edit, Present, ProcTypes, CmdTypes, DiskTypes, Slots, Refs,
       NoBefore, NoMoves, JournalStates
  <2>4. (edits \in 0 .. MaxEdits)'
    BY <1>6 DEF DeleteSecret, At, Goto, Begin, Release, Published, Save, vaultVars, payload,
       cmdVars, diskVars, procVars, Edit, Present
  <2> QED
    BY <2>1, <2>2, <2>3, <2>4
<1>7. ASSUME NEW p \in Procs, NEW f \in Dialers, BeginConnect(p, f) PROVE TypeOK'
  <2>1. CmdTypes'
    BY <1>7 DEF BeginConnect, At, Goto, Begin, Release, Published, Save, vaultVars, payload,
       cmdVars, diskVars, procVars, Edit, UnrelatedSave, CmdTypes, ProcTypes, Steps, Slots, Refs
  <2>2. ProcTypes'
    BY <1>7 DEF BeginConnect, At, Goto, Begin, Release, Published, Save, vaultVars, payload,
       cmdVars, diskVars, procVars, Edit, UnrelatedSave, ProcTypes, DiskTypes, CmdTypes, Slots,
       Refs
  <2>3. DiskTypes'
    BY <1>7 DEF BeginConnect, At, Goto, Begin, Release, Published, Save, vaultVars, payload,
       cmdVars, diskVars, procVars, Edit, UnrelatedSave, ProcTypes, CmdTypes, DiskTypes, Slots,
       Refs, NoBefore, NoMoves, JournalStates
  <2>4. (edits \in 0 .. MaxEdits)'
    BY <1>7 DEF BeginConnect, At, Goto, Begin, Release, Published, Save, vaultVars, payload,
       cmdVars, diskVars, procVars, Edit, UnrelatedSave
  <2> QED
    BY <2>1, <2>2, <2>3, <2>4
<1>8. ASSUME NEW p \in Procs, NEW f \in Dialers, EndConnect(p, f) PROVE TypeOK'
  <2>1. CmdTypes'
    BY <1>8 DEF EndConnect, At, Goto, Begin, Release, Published, Save, vaultVars, payload, cmdVars,
       diskVars, procVars, Edit, UnrelatedSave, CmdTypes, ProcTypes, Steps, Slots, Refs
  <2>2. ProcTypes'
    BY <1>8 DEF EndConnect, At, Goto, Begin, Release, Published, Save, vaultVars, payload, cmdVars,
       diskVars, procVars, Edit, UnrelatedSave, ProcTypes, DiskTypes, CmdTypes, Slots, Refs
  <2>3. DiskTypes'
    BY <1>8 DEF EndConnect, At, Goto, Begin, Release, Published, Save, vaultVars, payload, cmdVars,
       diskVars, procVars, Edit, UnrelatedSave, ProcTypes, CmdTypes, DiskTypes, Slots, Refs,
       NoBefore, NoMoves, JournalStates
  <2>4. (edits \in 0 .. MaxEdits)'
    BY <1>8 DEF EndConnect, At, Goto, Begin, Release, Published, Save, vaultVars, payload, cmdVars,
       diskVars, procVars, Edit, UnrelatedSave
  <2> QED
    BY <2>1, <2>2, <2>3, <2>4
<1>9. ASSUME NEW p \in Procs, NEW x \in Slots, BeginReplace(p, x) PROVE TypeOK'
  <2>1. CmdTypes'
    <3>1. mem[p][x] \in Refs \cup {NoRef}
      BY DEF ProcTypes
    <3>2. slot' \in Slots \cup {NoRef} /\ old' \in Refs \cup {NoRef}
      BY <1>9, <3>1 DEF BeginReplace
    <3>3. new' \in Refs \cup {NoRef} /\ generated' \in BOOLEAN
      BY <1>9 DEF BeginReplace, Refs
    <3>4. PICK t \in Steps : Begin(p, "replace", t)
      BY <1>9 DEF BeginReplace, Steps
    <3> QED
      BY <3>2, <3>3, <3>4 DEF Begin, CmdTypes
  <2>2. ProcTypes'
    BY <1>9 DEF BeginReplace, At, Goto, Begin, Release, Published, Save, vaultVars, payload,
       cmdVars, diskVars, procVars, Edit, Readable, Unseen, Edit, ProcTypes, DiskTypes, CmdTypes,
       Slots, Refs
  <2>3. DiskTypes'
    BY <1>9 DEF BeginReplace, At, Goto, Begin, Release, Published, Save, vaultVars, payload,
       cmdVars, diskVars, procVars, Edit, Readable, Unseen, Edit, ProcTypes, CmdTypes, DiskTypes,
       Slots, Refs, NoBefore, NoMoves, JournalStates
  <2>4. (edits \in 0 .. MaxEdits)'
    BY <1>9 DEF BeginReplace, At, Goto, Begin, Release, Published, Save, vaultVars, payload,
       cmdVars, diskVars, procVars, Edit, Readable, Unseen, Edit
  <2> QED
    BY <2>1, <2>2, <2>3, <2>4
<1>10. ASSUME NEW p \in Procs, BeginMigrate(p) PROVE TypeOK'
  <2>1. CmdTypes'
    BY <1>10 DEF BeginMigrate, At, Goto, Begin, Release, Published, Save, vaultVars, payload,
       cmdVars, diskVars, procVars, Edit, Unseen, CmdTypes, ProcTypes, Steps, Slots, Refs
  <2>2. ProcTypes'
    BY <1>10 DEF BeginMigrate, At, Goto, Begin, Release, Published, Save, vaultVars, payload,
       cmdVars, diskVars, procVars, Edit, Unseen, ProcTypes, DiskTypes, CmdTypes, Slots, Refs
  <2>3. DiskTypes'
    <3>1. UNCHANGED <<disk, keyring, vault, made, jstate, lost>>
      BY <1>10 DEF BeginMigrate
    <3>2. before' \in [Profiles -> Sources \cup {NoRef}] /\ cleanup' \in BOOLEAN
      BY <1>10 DEF BeginMigrate
    <3>3. PICK refs : \E fresh \in Injection(refs, {t \in Targets : Unseen(t)}) :
             moved' = [s \in Sources |-> IF s \in refs THEN fresh[s] ELSE NoRef]
      BY <1>10, Zenon DEF BeginMigrate
    <3>4. PICK fresh \in Injection(refs, {t \in Targets : Unseen(t)}) :
             moved' = [s \in Sources |-> IF s \in refs THEN fresh[s] ELSE NoRef]
      BY <3>3, Zenon
    <3>5. \A s \in refs : fresh[s] \in Targets
      BY <3>4 DEF Injection
    <3>6. moved' \in [Sources -> Targets \cup {NoRef}]
      BY <3>4, <3>5
    <3> QED
      BY <3>1, <3>2, <3>6 DEF DiskTypes
  <2>4. (edits \in 0 .. MaxEdits)'
    BY <1>10 DEF BeginMigrate, At, Goto, Begin, Release, Published, Save, vaultVars, payload,
       cmdVars, diskVars, procVars, Edit, Unseen
  <2> QED
    BY <2>1, <2>2, <2>3, <2>4
<1>11. ASSUME NEW p \in Procs, BeginRecover(p) PROVE TypeOK'
  <2>1. CmdTypes'
    BY <1>11 DEF BeginRecover, At, Goto, Begin, Release, Published, Save, vaultVars, payload,
       cmdVars, diskVars, procVars, Edit, Unsafe, CmdTypes, ProcTypes, Steps, Slots, Refs
  <2>2. ProcTypes'
    BY <1>11 DEF BeginRecover, At, Goto, Begin, Release, Published, Save, vaultVars, payload,
       cmdVars, diskVars, procVars, Edit, Unsafe, ProcTypes, DiskTypes, CmdTypes, Slots, Refs
  <2>3. DiskTypes'
    BY <1>11 DEF BeginRecover, At, Goto, Begin, Release, Published, Save, vaultVars, payload,
       cmdVars, diskVars, procVars, Edit, Unsafe, ProcTypes, CmdTypes, DiskTypes, Slots, Refs,
       NoBefore, NoMoves, JournalStates
  <2>4. (edits \in 0 .. MaxEdits)'
    BY <1>11 DEF BeginRecover, At, Goto, Begin, Release, Published, Save, vaultVars, payload,
       cmdVars, diskVars, procVars, Edit, Unsafe
  <2> QED
    BY <2>1, <2>2, <2>3, <2>4
<1>12. ASSUME NEW p \in Procs, Generate(p) PROVE TypeOK'
  <2>1. CmdTypes'
    BY <1>12 DEF Generate, At, Goto, Begin, Release, Published, Save, vaultVars, payload, cmdVars,
       diskVars, procVars, Edit, CmdTypes, ProcTypes, Steps, Slots, Refs
  <2>2. ProcTypes'
    <3>1. CASE UNCHANGED vaultVars
      BY <1>12, <3>1, SameVault DEF Generate, VaultTypes, ProcTypes, payload
    <3>2. ASSUME NEW b, Save(p, view[p] \cup {new}, b) PROVE ProcTypes'
      <4>1. view[p] \cup {new} \in SUBSET Targets
        BY <1>12 DEF ProcTypes, DiskTypes, CmdTypes, NewRefs, Moved, Generate, At, StepFits, Replacing
      <4>2. VaultTypes
        BY <3>2, <4>1, SaveTypes
      <4> QED
        BY <1>12, <4>2 DEF Generate, VaultTypes, ProcTypes, payload
    <3> QED
      BY <1>12, <3>1, <3>2, Zenon DEF Generate
  <2>3. DiskTypes'
    <3>1. CASE UNCHANGED vaultVars
      BY <1>12, <3>1, SameVault DEF Generate, VaultTypes, DiskTypes, payload
    <3>2. ASSUME NEW b, Save(p, view[p] \cup {new}, b) PROVE DiskTypes'
      <4>1. view[p] \cup {new} \in SUBSET Targets
        BY <1>12 DEF ProcTypes, DiskTypes, CmdTypes, NewRefs, Moved, Generate, At, StepFits, Replacing
      <4>2. VaultTypes
        BY <3>2, <4>1, SaveTypes
      <4> QED
        BY <1>12, <4>2 DEF Generate, VaultTypes, DiskTypes, payload
    <3> QED
      BY <1>12, <3>1, <3>2, Zenon DEF Generate
  <2>4. (edits \in 0 .. MaxEdits)'
    BY <1>12 DEF Generate, At, Goto, Begin, Release, Published, Save, vaultVars, payload, cmdVars,
       diskVars, procVars, Edit
  <2> QED
    BY <2>1, <2>2, <2>3, <2>4
<1>13. ASSUME NEW p \in Procs, CommitReplace(p) PROVE TypeOK'
  <2>1. CmdTypes'
    BY <1>13 DEF CommitReplace, At, Goto, Begin, Release, Published, Save, vaultVars, payload,
       cmdVars, diskVars, procVars, Edit, Replaced, CmdTypes, ProcTypes, Steps, Slots, Refs
  <2>2. ProcTypes'
    <3>1. UNCHANGED <<handle, view, conn>> /\ mem' \in {mem, [mem EXCEPT ![p] = Replaced(p)]}
      BY <1>13, Zenon DEF CommitReplace
    <3>2. Replaced(p) \in [Slots -> Refs \cup {NoRef}]
      BY DEF Replaced, ProcTypes, CmdTypes
    <3>3. mem' \in [Procs -> [Slots -> Refs \cup {NoRef}]]
      BY <3>1, <3>2 DEF ProcTypes
    <3>4. current' \in [Procs -> BOOLEAN]
      BY <1>13 DEF CommitReplace, Published, ProcTypes
    <3> QED
      BY <3>1, <3>3, <3>4 DEF ProcTypes
  <2>3. DiskTypes'
    BY <1>13 DEF CommitReplace, At, Goto, Begin, Release, Published, Save, vaultVars, payload,
       cmdVars, diskVars, procVars, Edit, Replaced, ProcTypes, CmdTypes, DiskTypes, Slots, Refs,
       NoBefore, NoMoves, JournalStates
  <2>4. (edits \in 0 .. MaxEdits)'
    BY <1>13 DEF CommitReplace, At, Goto, Begin, Release, Published, Save, vaultVars, payload,
       cmdVars, diskVars, procVars, Edit, Replaced
  <2> QED
    BY <2>1, <2>2, <2>3, <2>4
<1>14. ASSUME NEW p \in Procs, VerifyReplace(p) PROVE TypeOK'
  <2>1. CmdTypes'
    BY <1>14 DEF VerifyReplace, At, Goto, Begin, Release, Published, Save, vaultVars, payload,
       cmdVars, diskVars, procVars, Edit, Replaced, CmdTypes, ProcTypes, Steps, Slots, Refs
  <2>2. ProcTypes'
    <3>1. UNCHANGED <<handle, view, conn>> /\ mem' \in {mem, [mem EXCEPT ![p] = Replaced(p)]}
      BY <1>14, Zenon DEF VerifyReplace
    <3>2. Replaced(p) \in [Slots -> Refs \cup {NoRef}]
      BY DEF Replaced, ProcTypes, CmdTypes
    <3>3. mem' \in [Procs -> [Slots -> Refs \cup {NoRef}]]
      BY <3>1, <3>2 DEF ProcTypes
    <3>4. current' \in [Procs -> BOOLEAN]
      BY <1>14 DEF VerifyReplace, Published, ProcTypes
    <3> QED
      BY <3>1, <3>3, <3>4 DEF ProcTypes
  <2>3. DiskTypes'
    BY <1>14 DEF VerifyReplace, At, Goto, Begin, Release, Published, Save, vaultVars, payload,
       cmdVars, diskVars, procVars, Edit, Replaced, ProcTypes, CmdTypes, DiskTypes, Slots, Refs,
       NoBefore, NoMoves, JournalStates
  <2>4. (edits \in 0 .. MaxEdits)'
    BY <1>14 DEF VerifyReplace, At, Goto, Begin, Release, Published, Save, vaultVars, payload,
       cmdVars, diskVars, procVars, Edit, Replaced
  <2> QED
    BY <2>1, <2>2, <2>3, <2>4
<1>15. ASSUME NEW p \in Procs, CleanupReplaced(p) PROVE TypeOK'
  <2>1. CmdTypes'
    BY <1>15 DEF CleanupReplaced, At, Goto, Begin, Release, Published, Save, vaultVars, payload,
       cmdVars, diskVars, procVars, Edit, Discard, CmdTypes, ProcTypes, Steps, Slots, Refs
  <2>2. ProcTypes'
    <3>1. CASE Discard(p, old)
      BY <1>15, <3>1, DiscardTypes DEF CleanupReplaced, VaultTypes, ProcTypes
    <3>2. CASE UNCHANGED <<keyring, vaultVars>>
      BY <1>15, <3>2, SameVault DEF CleanupReplaced, VaultTypes, ProcTypes
    <3> QED
      BY <1>15, <3>1, <3>2, Zenon DEF CleanupReplaced
  <2>3. DiskTypes'
    BY <1>15 DEF CleanupReplaced, At, Goto, Begin, Release, Published, Save, vaultVars, payload,
       cmdVars, diskVars, procVars, Edit, Discard, ProcTypes, CmdTypes, DiskTypes, Slots, Refs,
       NoBefore, NoMoves, JournalStates
  <2>4. (edits \in 0 .. MaxEdits)'
    BY <1>15 DEF CleanupReplaced, At, Goto, Begin, Release, Published, Save, vaultVars, payload,
       cmdVars, diskVars, procVars, Edit, Discard
  <2> QED
    BY <2>1, <2>2, <2>3, <2>4
<1>16. ASSUME NEW p \in Procs, RollbackReplace(p) PROVE TypeOK'
  <2>1. CmdTypes'
    BY <1>16 DEF RollbackReplace, At, Goto, Begin, Release, Published, Save, vaultVars, payload,
       cmdVars, diskVars, procVars, Edit, Discard, CmdTypes, ProcTypes, Steps, Slots, Refs
  <2>2. ProcTypes'
    <3>1. CASE Discard(p, new)
      BY <1>16, <3>1, DiscardTypes DEF RollbackReplace, VaultTypes, ProcTypes
    <3>2. CASE UNCHANGED <<keyring, vaultVars>>
      BY <1>16, <3>2, SameVault DEF RollbackReplace, VaultTypes, ProcTypes
    <3> QED
      BY <1>16, <3>1, <3>2, Zenon DEF RollbackReplace
  <2>3. DiskTypes'
    BY <1>16 DEF RollbackReplace, At, Goto, Begin, Release, Published, Save, vaultVars, payload,
       cmdVars, diskVars, procVars, Edit, Discard, ProcTypes, CmdTypes, DiskTypes, Slots, Refs,
       NoBefore, NoMoves, JournalStates
  <2>4. (edits \in 0 .. MaxEdits)'
    BY <1>16 DEF RollbackReplace, At, Goto, Begin, Release, Published, Save, vaultVars, payload,
       cmdVars, diskVars, procVars, Edit, Discard
  <2> QED
    BY <2>1, <2>2, <2>3, <2>4
<1>17. ASSUME NEW p \in Procs, Prepare(p) PROVE TypeOK'
  <2>1. CmdTypes'
    BY <1>17 DEF Prepare, At, Goto, Begin, Release, Published, Save, vaultVars, payload, cmdVars,
       diskVars, procVars, Edit, Recorded, RecordedLate, NotRecorded, ForgetPayload, CmdTypes,
       ProcTypes, Steps, Slots, Refs
  <2>2. ProcTypes'
    BY <1>17 DEF Prepare, At, Goto, Begin, Release, Published, Save, vaultVars, payload, cmdVars,
       diskVars, procVars, Edit, Recorded, RecordedLate, NotRecorded, ForgetPayload, ProcTypes,
       DiskTypes, CmdTypes, Slots, Refs
  <2>3. DiskTypes'
    <3>1. UNCHANGED <<disk, keyring, vault, made, lost>>
      BY <1>17 DEF Prepare
    <3>2. jstate' \in {jstate, "targetWritePending"}
      BY <1>17 DEF Prepare, Recorded, RecordedLate, NotRecorded
    <3>3. UNCHANGED payload \/ ForgetPayload
      BY <1>17, Zenon DEF Prepare
    <3>4. /\ before' \in [Profiles -> Sources \cup {NoRef}] /\ cleanup' \in BOOLEAN
          /\ moved' \in [Sources -> Targets \cup {NoRef}]
      BY <3>3 DEF payload, ForgetPayload, NoBefore, NoMoves, DiskTypes
    <3> QED
      BY <3>1, <3>2, <3>4 DEF DiskTypes, JournalStates
  <2>4. (edits \in 0 .. MaxEdits)'
    BY <1>17 DEF Prepare, At, Goto, Begin, Release, Published, Save, vaultVars, payload, cmdVars,
       diskVars, procVars, Edit, Recorded, RecordedLate, NotRecorded, ForgetPayload
  <2> QED
    BY <2>1, <2>2, <2>3, <2>4
<1>18. ASSUME NEW p \in Procs, WriteTargets(p) PROVE TypeOK'
  <2>1. CmdTypes'
    BY <1>18 DEF WriteTargets, At, Goto, Begin, Release, Published, Save, vaultVars, payload,
       cmdVars, diskVars, procVars, Edit, CmdTypes, ProcTypes, Steps, Slots, Refs
  <2>2. ProcTypes'
    <3>1. CASE UNCHANGED vaultVars
      BY <1>18, <3>1, SameVault DEF WriteTargets, VaultTypes, ProcTypes, payload
    <3>2. ASSUME NEW b, Save(p, view[p] \cup NewRefs, b) PROVE ProcTypes'
      <4>1. view[p] \cup NewRefs \in SUBSET Targets
        BY <1>18 DEF ProcTypes, DiskTypes, CmdTypes, NewRefs, Moved, WriteTargets, At, StepFits, Replacing
      <4>2. VaultTypes
        BY <3>2, <4>1, SaveTypes
      <4> QED
        BY <1>18, <4>2 DEF WriteTargets, VaultTypes, ProcTypes, payload
    <3> QED
      BY <1>18, <3>1, <3>2, Zenon DEF WriteTargets
  <2>3. DiskTypes'
    <3>1. CASE UNCHANGED vaultVars
      BY <1>18, <3>1, SameVault DEF WriteTargets, VaultTypes, DiskTypes, payload
    <3>2. ASSUME NEW b, Save(p, view[p] \cup NewRefs, b) PROVE DiskTypes'
      <4>1. view[p] \cup NewRefs \in SUBSET Targets
        BY <1>18 DEF ProcTypes, DiskTypes, CmdTypes, NewRefs, Moved, WriteTargets, At, StepFits, Replacing
      <4>2. VaultTypes
        BY <3>2, <4>1, SaveTypes
      <4> QED
        BY <1>18, <4>2 DEF WriteTargets, VaultTypes, DiskTypes, payload
    <3> QED
      BY <1>18, <3>1, <3>2, Zenon DEF WriteTargets
  <2>4. (edits \in 0 .. MaxEdits)'
    BY <1>18 DEF WriteTargets, At, Goto, Begin, Release, Published, Save, vaultVars, payload,
       cmdVars, diskVars, procVars, Edit
  <2> QED
    BY <2>1, <2>2, <2>3, <2>4
<1>19. ASSUME NEW p \in Procs, RejectTargets(p) PROVE TypeOK'
  <2>1. CmdTypes'
    BY <1>19 DEF RejectTargets, At, Goto, Begin, Release, Published, Save, vaultVars, payload,
       cmdVars, diskVars, procVars, Edit, Transition, TransitionFails, TransitionAllowed, Recorded,
       RecordedLate, NotRecorded, CmdTypes, ProcTypes, Steps, Slots, Refs
  <2>2. ProcTypes'
    BY <1>19 DEF RejectTargets, At, Goto, Begin, Release, Published, Save, vaultVars, payload,
       cmdVars, diskVars, procVars, Edit, Transition, TransitionFails, TransitionAllowed, Recorded,
       RecordedLate, NotRecorded, ProcTypes, DiskTypes, CmdTypes, Slots, Refs
  <2>3. DiskTypes'
    BY <1>19 DEF RejectTargets, At, Goto, Begin, Release, Published, Save, vaultVars, payload,
       cmdVars, diskVars, procVars, Edit, Transition, TransitionFails, TransitionAllowed, Recorded,
       RecordedLate, NotRecorded, ProcTypes, CmdTypes, DiskTypes, Slots, Refs, NoBefore, NoMoves,
       JournalStates
  <2>4. (edits \in 0 .. MaxEdits)'
    BY <1>19 DEF RejectTargets, At, Goto, Begin, Release, Published, Save, vaultVars, payload,
       cmdVars, diskVars, procVars, Edit, Transition, TransitionFails, TransitionAllowed, Recorded,
       RecordedLate, NotRecorded
  <2> QED
    BY <2>1, <2>2, <2>3, <2>4
<1>20. ASSUME NEW p \in Procs, VerifyTargets(p) PROVE TypeOK'
  <2>1. CmdTypes'
    BY <1>20 DEF VerifyTargets, At, Goto, Begin, Release, Published, Save, vaultVars, payload,
       cmdVars, diskVars, procVars, Edit, Transition, TransitionFails, TransitionAllowed, Recorded,
       RecordedLate, NotRecorded, CmdTypes, ProcTypes, Steps, Slots, Refs
  <2>2. ProcTypes'
    BY <1>20 DEF VerifyTargets, At, Goto, Begin, Release, Published, Save, vaultVars, payload,
       cmdVars, diskVars, procVars, Edit, Transition, TransitionFails, TransitionAllowed, Recorded,
       RecordedLate, NotRecorded, ProcTypes, DiskTypes, CmdTypes, Slots, Refs
  <2>3. DiskTypes'
    BY <1>20 DEF VerifyTargets, At, Goto, Begin, Release, Published, Save, vaultVars, payload,
       cmdVars, diskVars, procVars, Edit, Transition, TransitionFails, TransitionAllowed, Recorded,
       RecordedLate, NotRecorded, ProcTypes, CmdTypes, DiskTypes, Slots, Refs, NoBefore, NoMoves,
       JournalStates
  <2>4. (edits \in 0 .. MaxEdits)'
    BY <1>20 DEF VerifyTargets, At, Goto, Begin, Release, Published, Save, vaultVars, payload,
       cmdVars, diskVars, procVars, Edit, Transition, TransitionFails, TransitionAllowed, Recorded,
       RecordedLate, NotRecorded
  <2> QED
    BY <2>1, <2>2, <2>3, <2>4
<1>21. ASSUME NEW p \in Procs, Persist(p) PROVE TypeOK'
  <2>1. CmdTypes'
    BY <1>21 DEF Persist, At, Goto, Begin, Release, Published, Save, vaultVars, payload, cmdVars,
       diskVars, procVars, Edit, After, CmdTypes, ProcTypes, Steps, Slots, Refs
  <2>2. ProcTypes'
    <3>1. UNCHANGED <<handle, view, conn>> /\ mem' \in {mem, [mem EXCEPT ![p] = After(mem[p])]}
      BY <1>21, Zenon DEF Persist
    <3>2. After(mem[p]) \in [Slots -> Refs \cup {NoRef}]
      BY DEF After, ProcTypes, DiskTypes, Slots, Refs
    <3>3. mem' \in [Procs -> [Slots -> Refs \cup {NoRef}]]
      BY <3>1, <3>2 DEF ProcTypes
    <3>4. current' \in [Procs -> BOOLEAN]
      BY <1>21 DEF Persist, Published, ProcTypes
    <3> QED
      BY <3>1, <3>3, <3>4 DEF ProcTypes
  <2>3. DiskTypes'
    BY <1>21 DEF Persist, At, Goto, Begin, Release, Published, Save, vaultVars, payload, cmdVars,
       diskVars, procVars, Edit, After, ProcTypes, CmdTypes, DiskTypes, Slots, Refs, NoBefore,
       NoMoves, JournalStates
  <2>4. (edits \in 0 .. MaxEdits)'
    BY <1>21 DEF Persist, At, Goto, Begin, Release, Published, Save, vaultVars, payload, cmdVars,
       diskVars, procVars, Edit, After
  <2> QED
    BY <2>1, <2>2, <2>3, <2>4
<1>22. ASSUME NEW p \in Procs, Checkpoint(p) PROVE TypeOK'
  <2>1. CmdTypes'
    BY <1>22 DEF Checkpoint, At, Goto, Begin, Release, Published, Save, vaultVars, payload,
       cmdVars, diskVars, procVars, Edit, Transition, TransitionFails, TransitionAllowed, Recorded,
       RecordedLate, NotRecorded, CmdTypes, ProcTypes, Steps, Slots, Refs
  <2>2. ProcTypes'
    BY <1>22 DEF Checkpoint, At, Goto, Begin, Release, Published, Save, vaultVars, payload,
       cmdVars, diskVars, procVars, Edit, Transition, TransitionFails, TransitionAllowed, Recorded,
       RecordedLate, NotRecorded, ProcTypes, DiskTypes, CmdTypes, Slots, Refs
  <2>3. DiskTypes'
    BY <1>22 DEF Checkpoint, At, Goto, Begin, Release, Published, Save, vaultVars, payload,
       cmdVars, diskVars, procVars, Edit, Transition, TransitionFails, TransitionAllowed, Recorded,
       RecordedLate, NotRecorded, ProcTypes, CmdTypes, DiskTypes, Slots, Refs, NoBefore, NoMoves,
       JournalStates
  <2>4. (edits \in 0 .. MaxEdits)'
    BY <1>22 DEF Checkpoint, At, Goto, Begin, Release, Published, Save, vaultVars, payload,
       cmdVars, diskVars, procVars, Edit, Transition, TransitionFails, TransitionAllowed, Recorded,
       RecordedLate, NotRecorded
  <2> QED
    BY <2>1, <2>2, <2>3, <2>4
<1>23. ASSUME NEW p \in Procs, DeleteSources(p) PROVE TypeOK'
  <2>1. CmdTypes'
    BY <1>23 DEF DeleteSources, At, Goto, Begin, Release, Published, Save, vaultVars, payload,
       cmdVars, diskVars, procVars, Edit, Deletable, Deferred, Unreferenced, CmdTypes, ProcTypes,
       Steps, Slots, Refs
  <2>2. ProcTypes'
    BY <1>23 DEF DeleteSources, At, Goto, Begin, Release, Published, Save, vaultVars, payload,
       cmdVars, diskVars, procVars, Edit, Deletable, Deferred, Unreferenced, ProcTypes, DiskTypes,
       CmdTypes, Slots, Refs
  <2>3. DiskTypes'
    BY <1>23 DEF DeleteSources, At, Goto, Begin, Release, Published, Save, vaultVars, payload,
       cmdVars, diskVars, procVars, Edit, Deletable, Deferred, Unreferenced, ProcTypes, CmdTypes,
       DiskTypes, Slots, Refs, NoBefore, NoMoves, JournalStates
  <2>4. (edits \in 0 .. MaxEdits)'
    BY <1>23 DEF DeleteSources, At, Goto, Begin, Release, Published, Save, vaultVars, payload,
       cmdVars, diskVars, procVars, Edit, Deletable, Deferred, Unreferenced
  <2> QED
    BY <2>1, <2>2, <2>3, <2>4
<1>24. ASSUME NEW p \in Procs, KeepPending(p) PROVE TypeOK'
  <2>1. CmdTypes'
    BY <1>24 DEF KeepPending, At, Goto, Begin, Release, Published, Save, vaultVars, payload,
       cmdVars, diskVars, procVars, Edit, Transition, TransitionFails, TransitionAllowed, Recorded,
       RecordedLate, NotRecorded, CmdTypes, ProcTypes, Steps, Slots, Refs
  <2>2. ProcTypes'
    BY <1>24 DEF KeepPending, At, Goto, Begin, Release, Published, Save, vaultVars, payload,
       cmdVars, diskVars, procVars, Edit, Transition, TransitionFails, TransitionAllowed, Recorded,
       RecordedLate, NotRecorded, ProcTypes, DiskTypes, CmdTypes, Slots, Refs
  <2>3. DiskTypes'
    BY <1>24 DEF KeepPending, At, Goto, Begin, Release, Published, Save, vaultVars, payload,
       cmdVars, diskVars, procVars, Edit, Transition, TransitionFails, TransitionAllowed, Recorded,
       RecordedLate, NotRecorded, ProcTypes, CmdTypes, DiskTypes, Slots, Refs, NoBefore, NoMoves,
       JournalStates
  <2>4. (edits \in 0 .. MaxEdits)'
    BY <1>24 DEF KeepPending, At, Goto, Begin, Release, Published, Save, vaultVars, payload,
       cmdVars, diskVars, procVars, Edit, Transition, TransitionFails, TransitionAllowed, Recorded,
       RecordedLate, NotRecorded
  <2> QED
    BY <2>1, <2>2, <2>3, <2>4
<1>25. ASSUME NEW p \in Procs, UndoMark(p) PROVE TypeOK'
  <2>1. CmdTypes'
    BY <1>25 DEF UndoMark, At, Goto, Begin, Release, Published, Save, vaultVars, payload, cmdVars,
       diskVars, procVars, Edit, Transition, TransitionFails, TransitionAllowed, Recorded,
       RecordedLate, NotRecorded, CmdTypes, ProcTypes, Steps, Slots, Refs
  <2>2. ProcTypes'
    BY <1>25 DEF UndoMark, At, Goto, Begin, Release, Published, Save, vaultVars, payload, cmdVars,
       diskVars, procVars, Edit, Transition, TransitionFails, TransitionAllowed, Recorded,
       RecordedLate, NotRecorded, ProcTypes, DiskTypes, CmdTypes, Slots, Refs
  <2>3. DiskTypes'
    BY <1>25 DEF UndoMark, At, Goto, Begin, Release, Published, Save, vaultVars, payload, cmdVars,
       diskVars, procVars, Edit, Transition, TransitionFails, TransitionAllowed, Recorded,
       RecordedLate, NotRecorded, ProcTypes, CmdTypes, DiskTypes, Slots, Refs, NoBefore, NoMoves,
       JournalStates
  <2>4. (edits \in 0 .. MaxEdits)'
    BY <1>25 DEF UndoMark, At, Goto, Begin, Release, Published, Save, vaultVars, payload, cmdVars,
       diskVars, procVars, Edit, Transition, TransitionFails, TransitionAllowed, Recorded,
       RecordedLate, NotRecorded
  <2> QED
    BY <2>1, <2>2, <2>3, <2>4
<1>26. ASSUME NEW p \in Procs, UndoDelete(p) PROVE TypeOK'
  <2>1. CmdTypes'
    BY <1>26 DEF UndoDelete, At, Goto, Begin, Release, Published, Save, vaultVars, payload,
       cmdVars, diskVars, procVars, Edit, CmdTypes, ProcTypes, Steps, Slots, Refs
  <2>2. ProcTypes'
    BY <1>26 DEF UndoDelete, At, Goto, Begin, Release, Published, Save, vaultVars, payload,
       cmdVars, diskVars, procVars, Edit, ProcTypes, DiskTypes, CmdTypes, Slots, Refs
  <2>3. DiskTypes'
    BY <1>26 DEF UndoDelete, At, Goto, Begin, Release, Published, Save, vaultVars, payload,
       cmdVars, diskVars, procVars, Edit, ProcTypes, CmdTypes, DiskTypes, Slots, Refs, NoBefore,
       NoMoves, JournalStates
  <2>4. (edits \in 0 .. MaxEdits)'
    BY <1>26 DEF UndoDelete, At, Goto, Begin, Release, Published, Save, vaultVars, payload,
       cmdVars, diskVars, procVars, Edit
  <2> QED
    BY <2>1, <2>2, <2>3, <2>4
<1>27. ASSUME NEW p \in Procs, Clear(p) PROVE TypeOK'
  <2>1. CmdTypes'
    BY <1>27 DEF Clear, At, Goto, Begin, Release, Published, Save, vaultVars, payload, cmdVars,
       diskVars, procVars, Edit, Recorded, RecordedLate, NotRecorded, ForgetPayload, CmdTypes,
       ProcTypes, Steps, Slots, Refs
  <2>2. ProcTypes'
    BY <1>27 DEF Clear, At, Goto, Begin, Release, Published, Save, vaultVars, payload, cmdVars,
       diskVars, procVars, Edit, Recorded, RecordedLate, NotRecorded, ForgetPayload, ProcTypes,
       DiskTypes, CmdTypes, Slots, Refs
  <2>3. DiskTypes'
    BY <1>27 DEF Clear, At, Goto, Begin, Release, Published, Save, vaultVars, payload, cmdVars,
       diskVars, procVars, Edit, Recorded, RecordedLate, NotRecorded, ForgetPayload, ProcTypes,
       CmdTypes, DiskTypes, Slots, Refs, NoBefore, NoMoves, JournalStates
  <2>4. (edits \in 0 .. MaxEdits)'
    BY <1>27 DEF Clear, At, Goto, Begin, Release, Published, Save, vaultVars, payload, cmdVars,
       diskVars, procVars, Edit, Recorded, RecordedLate, NotRecorded, ForgetPayload
  <2> QED
    BY <2>1, <2>2, <2>3, <2>4
<1>28. ASSUME NEW p \in Procs, Freeze(p) PROVE TypeOK'
  <2>1. CmdTypes'
    BY <1>28 DEF Freeze, At, Goto, Begin, Release, Published, Save, vaultVars, payload, cmdVars,
       diskVars, procVars, Edit, Transition, TransitionFails, TransitionAllowed, Recorded,
       RecordedLate, NotRecorded, CmdTypes, ProcTypes, Steps, Slots, Refs
  <2>2. ProcTypes'
    BY <1>28 DEF Freeze, At, Goto, Begin, Release, Published, Save, vaultVars, payload, cmdVars,
       diskVars, procVars, Edit, Transition, TransitionFails, TransitionAllowed, Recorded,
       RecordedLate, NotRecorded, ProcTypes, DiskTypes, CmdTypes, Slots, Refs
  <2>3. DiskTypes'
    BY <1>28 DEF Freeze, At, Goto, Begin, Release, Published, Save, vaultVars, payload, cmdVars,
       diskVars, procVars, Edit, Transition, TransitionFails, TransitionAllowed, Recorded,
       RecordedLate, NotRecorded, ProcTypes, CmdTypes, DiskTypes, Slots, Refs, NoBefore, NoMoves,
       JournalStates
  <2>4. (edits \in 0 .. MaxEdits)'
    BY <1>28 DEF Freeze, At, Goto, Begin, Release, Published, Save, vaultVars, payload, cmdVars,
       diskVars, procVars, Edit, Transition, TransitionFails, TransitionAllowed, Recorded,
       RecordedLate, NotRecorded
  <2> QED
    BY <2>1, <2>2, <2>3, <2>4
<1>29. ASSUME NEW p \in Procs, Restart(p) PROVE TypeOK'
  <2>1. CmdTypes'
    <3>1. Release \/ UNCHANGED cmdVars
      BY <1>29, Zenon DEF Restart
    <3> QED
      BY <3>1 DEF Release, cmdVars, CmdTypes, Steps
  <2>2. ProcTypes'
    BY <1>29 DEF Restart, At, Goto, Begin, Release, Published, Save, vaultVars, payload, cmdVars,
       diskVars, procVars, Edit, ForgetPayload, ProcTypes, DiskTypes, CmdTypes, Slots, Refs
  <2>3. DiskTypes'
    <3>1. UNCHANGED <<disk, keyring, vault, made, jstate, lost>>
      BY <1>29 DEF Restart
    <3>2. UNCHANGED payload \/ ForgetPayload
      BY <1>29, Zenon DEF Restart, ForgetPayload
    <3>3. /\ before' \in [Profiles -> Sources \cup {NoRef}] /\ cleanup' \in BOOLEAN
          /\ moved' \in [Sources -> Targets \cup {NoRef}]
      BY <3>2 DEF payload, ForgetPayload, NoBefore, NoMoves, DiskTypes
    <3> QED
      BY <3>1, <3>3 DEF DiskTypes
  <2>4. (edits \in 0 .. MaxEdits)'
    BY <1>29 DEF Restart, At, Goto, Begin, Release, Published, Save, vaultVars, payload, cmdVars,
       diskVars, procVars, Edit, ForgetPayload
  <2> QED
    BY <2>1, <2>2, <2>3, <2>4
<1>30. ASSUME NEW x \in Sources, LoseEntry(x) PROVE TypeOK'
  <2>1. CmdTypes'
    BY <1>30 DEF LoseEntry, At, Goto, Begin, Release, Published, Save, vaultVars, payload, cmdVars,
       diskVars, procVars, Edit, CmdTypes, ProcTypes, Steps, Slots, Refs
  <2>2. ProcTypes'
    BY <1>30 DEF LoseEntry, At, Goto, Begin, Release, Published, Save, vaultVars, payload, cmdVars,
       diskVars, procVars, Edit, ProcTypes, DiskTypes, CmdTypes, Slots, Refs
  <2>3. DiskTypes'
    BY <1>30 DEF LoseEntry, At, Goto, Begin, Release, Published, Save, vaultVars, payload, cmdVars,
       diskVars, procVars, Edit, ProcTypes, CmdTypes, DiskTypes, Slots, Refs, NoBefore, NoMoves,
       JournalStates
  <2>4. (edits \in 0 .. MaxEdits)'
    BY <1>30 DEF LoseEntry, At, Goto, Begin, Release, Published, Save, vaultVars, payload, cmdVars,
       diskVars, procVars, Edit
  <2> QED
    BY <2>1, <2>2, <2>3, <2>4
<1>31. CASE UNCHANGED vars
  <2>1. CmdTypes'
    BY <1>31 DEF vars, At, Goto, Begin, Release, Published, Save, vaultVars, payload, cmdVars,
       diskVars, procVars, Edit, CmdTypes, ProcTypes, Steps, Slots, Refs
  <2>2. ProcTypes'
    BY <1>31 DEF vars, At, Goto, Begin, Release, Published, Save, vaultVars, payload, cmdVars,
       diskVars, procVars, Edit, ProcTypes, DiskTypes, CmdTypes, Slots, Refs
  <2>3. DiskTypes'
    BY <1>31 DEF vars, At, Goto, Begin, Release, Published, Save, vaultVars, payload, cmdVars,
       diskVars, procVars, Edit, ProcTypes, CmdTypes, DiskTypes, Slots, Refs, NoBefore, NoMoves,
       JournalStates
  <2>4. (edits \in 0 .. MaxEdits)'
    BY <1>31 DEF vars, At, Goto, Begin, Release, Published, Save, vaultVars, payload, cmdVars,
       diskVars, procVars, Edit
  <2> QED
    BY <2>1, <2>2, <2>3, <2>4
<1> QED
  BY ONLY [Next]_vars, <1>1, <1>2, <1>3, <1>4, <1>5, <1>6, <1>7, <1>8, <1>9, <1>10, <1>11, <1>12,
     <1>13, <1>14, <1>15, <1>16, <1>17, <1>18, <1>19, <1>20, <1>21, <1>22, <1>23, <1>24, <1>25,
     <1>26, <1>27, <1>28, <1>29, <1>30, <1>31, Zenon DEF Next, CommandStep

----------------------------------------------------------------------------
(* The journal.                                                            *)

(* The plan of a migration is its payload.                                  *)
LEMMA SamePlan ==
    ASSUME UNCHANGED payload
    PROVE  NewRefs' = NewRefs /\ Moved' = Moved /\ Affected' = Affected /\ Planned' = Planned
  BY DEF payload, NewRefs, Moved, Affected, Planned

(* A plan stays uncommitted while no reference moves and its sources stay.  *)
LEMMA UncommittedKept ==
    ASSUME Uncommitted, UNCHANGED <<disk, payload>>, keyring \cup lost \subseteq keyring' \cup lost'
    PROVE  Uncommitted'
<1>1. NewRefs' = NewRefs /\ Moved' = Moved /\ Affected' = Affected /\ Planned' = Planned
  BY SamePlan
<1> QED
  BY <1>1 DEF Uncommitted, payload, AllBefore, InUse

(* A plan stays committed while no reference moves and its targets stay.    *)
LEMMA CommittedKept ==
    ASSUME Committed, UNCHANGED <<disk, payload>>, NewRefs \cap vault \subseteq vault'
    PROVE  Committed'
<1>1. NewRefs' = NewRefs /\ Moved' = Moved /\ Affected' = Affected /\ Planned' = Planned
  BY SamePlan
<1> QED
  BY <1>1 DEF Committed, payload, AllAfter

(* A step that leaves the journal alone keeps it resolvable ...             *)
LEMMA JournalRests ==
    ASSUME JournalFits, UNCHANGED <<disk, payload, jstate>>, lost \subseteq lost',
           jstate \in PreCommit => keyring \cup lost \subseteq keyring' \cup lost',
           jstate \in PostCommit => NewRefs \cap vault \subseteq vault'
    PROVE  JournalFits'
  BY UncommittedKept, CommittedKept DEF JournalFits

(* ... as does one that leaves none ...                                     *)
LEMMA NoJournal == ASSUME jstate' = "none" PROVE JournalFits'
  BY DEF JournalFits, PreCommit, PostCommit

----------------------------------------------------------------------------
(* Commands, views and secrets.                                            *)

(* When a command ends nothing is owed to it.                               *)
LEMMA NoCommand == ASSUME holder' = NoProc, step' = "idle", task' # "replace", ~ touched' PROVE StepFits'
  BY DEF StepFits, Replacing

(* No reference dangles after a step that removes no secret in use.         *)
LEMMA NothingLost ==
    ASSUME NoDangling, UNCHANGED disk, lost \subseteq lost',
           \A x \in Slots : disk[x] \in keyring \cup vault => disk[x] \in keyring' \cup vault' \cup lost'
    PROVE  NoDangling'
  BY DEF NoDangling, Present

(* A save leaves only its own process with the current vault.               *)
LEMMA SaveViews ==
    ASSUME Views, ProcTypes, NEW p \in Procs, NEW v, NEW b, Save(p, v, b),
           UNCHANGED <<disk, made, mem, current>>
    PROVE  Views'
<1>1. \A q \in Procs : current'[q] => mem'[q] = disk'
  BY DEF Views
<1>2. made' /\ vault' = v
  BY DEF Views, Save
<1>3. ASSUME NEW q \in Procs, handle'[q] = "current" PROVE view'[q] = vault'
  <2>1. handle'[q] = IF q = p THEN IF b THEN "current" ELSE "unknown"
                     ELSE IF handle[q] = "current" THEN "stale" ELSE handle[q]
    BY DEF Save
  <2>2. q = p
    BY <1>3, <2>1
  <2> QED
    BY <2>2 DEF Save, ProcTypes
<1> QED
  BY <1>1, <1>2, <1>3 DEF Views

(* What is saved is made from the vault as it is on disk.                   *)
LEMMA SaveKnows == ASSUME Views, NEW p \in Procs, NEW v, NEW b, Save(p, v, b) PROVE view[p] = vault /\ vault' = v
  BY DEF Views, Save

(* Views do not change unless store or vault do.                            *)
LEMMA RestsViews ==
    ASSUME Views, UNCHANGED <<disk, made, mem, current, vaultVars>>
    PROVE  Views'
  BY DEF Views, vaultVars

(* A step of somebody else keeps what the holder relies on.                 *)
LEMMA StepRests ==
    ASSUME StepFits, UNCHANGED <<holder, task, step, slot, new, generated, disk, jstate, payload>>,
           holder # NoProc => mem'[holder] = mem[holder] /\ handle'[holder] = handle[holder],
           touched' => holder # NoProc /\ ~ current'[holder],
           step = "verifyCommit" => touched' = touched,
           lost \subseteq lost', keyring \cup lost \subseteq keyring' \cup lost', UNCHANGED vault,
           jstate = "none" => UNCHANGED keyring, keyring' \subseteq keyring
    PROVE  StepFits'
<1>1. NewRefs' = NewRefs /\ (Uncommitted => Uncommitted')
  BY SamePlan, UncommittedKept
<1>2. InUse(disk, new)' = InUse(disk, new)
  BY DEF InUse
<1>3. holder # NoProc => Replaced(holder)' = Replaced(holder)
  BY DEF Replaced
<1>4. ClearedUp => ClearedUp'
  BY SamePlan DEF ClearedUp, InUse, payload
<1> QED
  BY <1>1, <1>2, <1>3, <1>4 DEF StepFits, Replacing

(* ... and one that the table of transitions allows.                        *)
LEMMA JournalMoves ==
    ASSUME JournalFits, UNCHANGED <<disk, payload, keyring, vault, lost>>, NEW p, NEW to,
           Transition(p, to) \/ TransitionFails(p, to), to = "needsResolution" => lost # {}
    PROVE  JournalFits'
<1>1. jstate' = jstate \/ (TransitionAllowed(jstate, to) /\ jstate' = to)
  BY Zenon DEF Transition, TransitionFails, Recorded, RecordedLate, NotRecorded
<1>2. (Uncommitted => Uncommitted') /\ (Committed => Committed')
  BY UncommittedKept, CommittedKept
<1> QED
  BY <1>1, <1>2 DEF JournalFits, TransitionAllowed, PreCommit, PostCommit

(* A secret nobody refers to can be deleted.                                *)
LEMMA DiscardLosesNothing ==
    ASSUME CInv, NEW p \in Procs, NEW r, Discard(p, r), ~ InUse(disk, r), UNCHANGED <<disk, lost>>
    PROVE  NoDangling'
<1>1. keyring \cup vault \subseteq keyring' \cup vault' \cup {r}
  <2>1. CASE keyring' = keyring \ {r} /\ UNCHANGED vaultVars
    BY <2>1 DEF vaultVars
  <2>2. CASE UNCHANGED <<keyring, vaultVars>>
    BY <2>2 DEF vaultVars
  <2>3. ASSUME NEW b, Save(p, view[p] \ {r}, b), UNCHANGED keyring
        PROVE  keyring \cup vault \subseteq keyring' \cup vault' \cup {r}
    BY <2>3, SaveKnows DEF CInv
  <2> QED
    BY <2>1, <2>2, <2>3, Zenon DEF Discard
<1>2. \A x \in Slots : disk[x] # r
  BY DEF InUse
<1> QED
  BY <1>1, <1>2 DEF CInv, NoDangling, Present

(* profile_secret_migration_disposition reads the side of the commit off    *)
(* the store: there is never a conflict between profiles and journal.       *)
LEMMA Dispositions ==
    ASSUME TypeOK, JournalFits, jstate # "none"
    PROVE  /\ Disposition(disk) = "notCommitted" <=> jstate \in PreCommit
           /\ Disposition(disk) = "committed" <=> jstate \in PostCommit
<1>1. CASE jstate \in PreCommit
  <2>1. PICK f \in Affected : before[f] \in Moved /\ disk[f] = before[f]
    BY <1>1 DEF JournalFits, Uncommitted, Planned, AllBefore
  <2>2. ~ AllAfter(disk)
    BY <2>1, CredentialAssumption DEF AllAfter, Moved, TypeOK, DiskTypes, Affected
  <2> QED
    BY <1>1, <2>2 DEF JournalFits, Uncommitted, Disposition, PreCommit, PostCommit
<1>2. CASE jstate \in PostCommit
  <2>1. PICK f \in Affected : before[f] \in Moved /\ disk[f] = moved[before[f]]
    BY <1>2 DEF JournalFits, Committed, Planned, AllAfter
  <2>2. ~ AllBefore(disk)
    BY <2>1, CredentialAssumption DEF AllBefore, Moved, TypeOK, DiskTypes, Affected
  <2> QED
    BY <1>2, <2>2 DEF JournalFits, Committed, Disposition, PreCommit, PostCommit
<1>3. CASE jstate \notin PreCommit /\ jstate \notin PostCommit
  BY <1>3 DEF Disposition
<1> QED
  BY <1>1, <1>2, <1>3

(* So a recovery freezes a migration only after a loss outside PortMate.    *)
LEMMA UnsafeMeansLoss ==
    ASSUME CInv, NEW p \in Procs, current[p], jstate # "none", Unsafe(p)
    PROVE  lost # {}
<1>1. mem[p] = disk
  BY DEF CInv, Views
<1>2. CASE jstate \in PreCommit
  <2>1. Disposition(disk) = "notCommitted"
    BY <1>2, Dispositions DEF CInv
  <2>2. Uncommitted
    BY <1>2 DEF CInv, JournalFits
  <2> QED
    BY <1>1, <2>1, <2>2 DEF Unsafe, Uncommitted
<1>3. CASE jstate \in PostCommit
  <2>1. Disposition(disk) = "committed"
    BY <1>3, Dispositions DEF CInv
  <2>2. NewRefs \subseteq vault /\ (handle[p] = "current" => view[p] = vault)
    BY <1>3 DEF CInv, JournalFits, Committed, Views
  <2> QED
    BY <1>1, <2>1, <2>2 DEF Unsafe
<1>4. CASE jstate = "needsResolution"
  BY <1>4 DEF CInv, JournalFits
<1> QED
  BY <1>2, <1>3, <1>4 DEF CInv, TypeOK, DiskTypes, JournalStates, PreCommit, PostCommit

----------------------------------------------------------------------------
(* The theorems.                                                           *)

(* Every step keeps the invariant.                                          *)
LEMMA CInvStep == ASSUME CInv, Windows = {}, [Next]_vars PROVE CInv'
<1> USE CredentialAssumption DEF CInv
<1>0. TypeOK'
  BY TypeStep
<1>1. ASSUME NEW p \in Procs, CreateVault(p) PROVE CInv'
  <2>1. Views'
    BY <1>1 DEF CreateVault, At, Goto, Begin, Release, Published, Save, vaultVars, payload,
       cmdVars, diskVars, procVars, Edit, Views, TypeOK, ProcTypes
  <2>2. JournalFits'
    <3>1. UNCHANGED <<disk, keyring, vault, lost, jstate, payload>>
      BY <1>1 DEF CreateVault, Views
    <3> QED
      BY <3>1, JournalRests
  <2>3. StepFits'
    BY <1>1, NoCommand DEF CreateVault, cmdVars, StepFits, Replacing
  <2>4. NoDangling'
    <3>1. UNCHANGED <<disk, keyring, vault, lost>>
      BY <1>1 DEF CreateVault, Views
    <3> QED
      BY <3>1, NothingLost
  <2> QED
    BY <1>0, <2>1, <2>2, <2>3, <2>4 DEF CInv
<1>2. ASSUME NEW p \in Procs, UnlockVault(p) PROVE CInv'
  <2>1. Views'
    BY <1>2 DEF UnlockVault, At, Goto, Begin, Release, Published, Save, vaultVars, payload,
       cmdVars, diskVars, procVars, Edit, Views, TypeOK, ProcTypes
  <2>2. JournalFits'
    BY <1>2, JournalRests DEF UnlockVault, At, Goto, Begin, Release, Published, Save, vaultVars,
       payload, cmdVars, diskVars, procVars, Edit
  <2>3. StepFits'
    BY <1>2, NoCommand DEF UnlockVault, cmdVars, StepFits, Replacing
  <2>4. NoDangling'
    BY <1>2, NothingLost DEF UnlockVault, At, Goto, Begin, Release, Published, Save, vaultVars,
       payload, cmdVars, diskVars, procVars, Edit
  <2> QED
    BY <1>0, <2>1, <2>2, <2>3, <2>4 DEF CInv
<1>3. ASSUME NEW p \in Procs, LockVault(p) PROVE CInv'
  <2>1. Views'
    BY <1>3 DEF LockVault, At, Goto, Begin, Release, Published, Save, vaultVars, payload, cmdVars,
       diskVars, procVars, Edit, Views, TypeOK, ProcTypes
  <2>2. JournalFits'
    BY <1>3, JournalRests DEF LockVault, At, Goto, Begin, Release, Published, Save, vaultVars,
       payload, cmdVars, diskVars, procVars, Edit
  <2>3. StepFits'
    BY <1>3, NoCommand DEF LockVault, cmdVars, StepFits, Replacing
  <2>4. NoDangling'
    BY <1>3, NothingLost DEF LockVault, At, Goto, Begin, Release, Published, Save, vaultVars,
       payload, cmdVars, diskVars, procVars, Edit
  <2> QED
    BY <1>0, <2>1, <2>2, <2>3, <2>4 DEF CInv
<1>4. ASSUME NEW p \in Procs, RotateVaultPassword(p) PROVE CInv'
  <2>1. Views'
    BY <1>4 DEF RotateVaultPassword, At, Goto, Begin, Release, Published, Save, vaultVars, payload,
       cmdVars, diskVars, procVars, Edit, Views, TypeOK, ProcTypes
  <2>2. JournalFits'
    BY <1>4, NoJournal DEF RotateVaultPassword, diskVars
  <2>3. StepFits'
    BY <1>4, NoCommand DEF RotateVaultPassword, cmdVars, StepFits, Replacing
  <2>4. NoDangling'
    <3>1. ASSUME NEW b, Save(p, view[p], b) PROVE vault \subseteq vault'
      BY <3>1, SaveKnows
    <3>2. vault \subseteq vault' /\ UNCHANGED <<disk, keyring, lost>>
      BY <1>4, <3>1 DEF RotateVaultPassword, vaultVars
    <3> QED
      BY <3>2, NothingLost
  <2> QED
    BY <1>0, <2>1, <2>2, <2>3, <2>4 DEF CInv
<1>5. ASSUME NEW p \in Procs, SaveSecret(p) PROVE CInv'
  <2>1. Views'
    <3>1. PICK v, b : Save(p, v, b)
      BY <1>5, Zenon DEF SaveSecret
    <3> QED
      BY <1>5, <3>1, SaveViews, Zenon DEF SaveSecret, TypeOK
  <2>2. JournalFits'
    BY <1>5, NoJournal DEF SaveSecret, diskVars
  <2>3. StepFits'
    BY <1>5, NoCommand DEF SaveSecret, cmdVars, StepFits, Replacing
  <2>4. NoDangling'
    <3>1. PICK t, b : Save(p, view[p] \cup {t}, b)
      BY <1>5, Zenon DEF SaveSecret
    <3>2. vault \subseteq vault' /\ UNCHANGED <<disk, keyring, lost>>
      BY <1>5, <3>1, SaveKnows DEF SaveSecret
    <3> QED
      BY <3>2, NothingLost
  <2> QED
    BY <1>0, <2>1, <2>2, <2>3, <2>4 DEF CInv
<1>6. ASSUME NEW p \in Procs, NEW r \in Refs, DeleteSecret(p, r) PROVE CInv'
  <2>1. Views'
    <3>1. ASSUME NEW b, Save(p, view[p] \ {r}, b) PROVE Views'
      BY <1>6, <3>1, SaveViews, Zenon DEF DeleteSecret, TypeOK
    <3>2. CASE UNCHANGED vaultVars
      BY <1>6, <3>2, RestsViews, Zenon DEF DeleteSecret
    <3> QED
      BY <1>6, <3>1, <3>2, Zenon DEF DeleteSecret
  <2>2. JournalFits'
    BY <1>6, NoJournal DEF DeleteSecret, diskVars
  <2>3. StepFits'
    BY <1>6, NoCommand DEF DeleteSecret, cmdVars, StepFits, Replacing
  <2>4. NoDangling'
    <3>1. Discard(p, r) /\ UNCHANGED <<disk, lost>>
      BY <1>6, Zenon DEF DeleteSecret, Discard
    <3>2. ~ InUse(disk, r)
      BY <1>6 DEF DeleteSecret, Views
    <3> QED
      BY <3>1, <3>2, DiscardLosesNothing
  <2> QED
    BY <1>0, <2>1, <2>2, <2>3, <2>4 DEF CInv
<1>7. ASSUME NEW p \in Procs, NEW f \in Dialers, BeginConnect(p, f) PROVE CInv'
  <2>1. Views'
    BY <1>7 DEF BeginConnect, At, Goto, Begin, Release, Published, Save, vaultVars, payload,
       cmdVars, diskVars, procVars, Edit, UnrelatedSave, Views, TypeOK, ProcTypes
  <2>2. JournalFits'
    BY <1>7, JournalRests DEF BeginConnect, At, Goto, Begin, Release, Published, Save, vaultVars,
       payload, cmdVars, diskVars, procVars, Edit, UnrelatedSave
  <2>3. StepFits'
    <3>1. UNCHANGED <<holder, task, step, slot, new, generated, disk, jstate, payload, mem, handle, lost, keyring, vault>>
      BY <1>7 DEF BeginConnect, diskVars, payload
    <3>2. holder # p /\ step # "verifyCommit" /\ touched' = (holder # NoProc)
      BY <1>7 DEF BeginConnect, UnrelatedSave
    <3>3. holder # NoProc => ~ current'[holder]
      BY <1>7, <3>2 DEF BeginConnect, UnrelatedSave, Published, TypeOK, CmdTypes
    <3> QED
      BY <3>1, <3>2, <3>3, StepRests
  <2>4. NoDangling'
    BY <1>7, NothingLost DEF BeginConnect, At, Goto, Begin, Release, Published, Save, vaultVars,
       payload, cmdVars, diskVars, procVars, Edit, UnrelatedSave
  <2> QED
    BY <1>0, <2>1, <2>2, <2>3, <2>4 DEF CInv
<1>8. ASSUME NEW p \in Procs, NEW f \in Dialers, EndConnect(p, f) PROVE CInv'
  <2>1. Views'
    BY <1>8 DEF EndConnect, At, Goto, Begin, Release, Published, Save, vaultVars, payload, cmdVars,
       diskVars, procVars, Edit, UnrelatedSave, Views, TypeOK, ProcTypes
  <2>2. JournalFits'
    BY <1>8, JournalRests DEF EndConnect, At, Goto, Begin, Release, Published, Save, vaultVars,
       payload, cmdVars, diskVars, procVars, Edit, UnrelatedSave
  <2>3. StepFits'
    <3>1. UNCHANGED <<holder, task, step, slot, new, generated, disk, jstate, payload, mem, handle, lost, keyring, vault>>
      BY <1>8 DEF EndConnect, diskVars, payload
    <3>2. holder # p /\ step # "verifyCommit" /\ touched' = (holder # NoProc)
      BY <1>8 DEF EndConnect, UnrelatedSave
    <3>3. holder # NoProc => ~ current'[holder]
      BY <1>8, <3>2 DEF EndConnect, UnrelatedSave, Published, TypeOK, CmdTypes
    <3> QED
      BY <3>1, <3>2, <3>3, StepRests
  <2>4. NoDangling'
    BY <1>8, NothingLost DEF EndConnect, At, Goto, Begin, Release, Published, Save, vaultVars,
       payload, cmdVars, diskVars, procVars, Edit, UnrelatedSave
  <2> QED
    BY <1>0, <2>1, <2>2, <2>3, <2>4 DEF CInv
<1>9. ASSUME NEW p \in Procs, NEW x \in Slots, BeginReplace(p, x) PROVE CInv'
  <2>1. Views'
    BY <1>9 DEF BeginReplace, At, Goto, Begin, Release, Published, Save, vaultVars, payload,
       cmdVars, diskVars, procVars, Edit, Readable, Unseen, Edit, Views, TypeOK, ProcTypes
  <2>2. JournalFits'
    BY <1>9, NoJournal DEF BeginReplace, diskVars
  <2>3. StepFits'
    <3>1. /\ jstate' = "none" /\ slot' = x /\ task' = "replace" /\ holder' = p /\ ~ touched'
          /\ UNCHANGED <<disk, keyring, vault, current>>
      BY <1>9 DEF BeginReplace, Begin, diskVars, procVars
    <3>2. ASSUME NEW t \in Targets, Unseen(t), new' = t, generated' = TRUE, step' = "generate" PROVE StepFits'
      BY <3>1, <3>2 DEF StepFits, Replacing, Unseen, InUse
    <3>3. ASSUME NEW r \in Refs, Readable(p, r), new' = r, generated' = FALSE, step' = "commit" PROVE StepFits'
      <4>1. r \in keyring \cup vault
        BY <3>3 DEF Readable, Views
      <4> QED
        BY <3>1, <3>3, <4>1 DEF StepFits, Replacing
    <3>4. CASE new' = NoRef /\ generated' = FALSE /\ step' = "commit"
      BY <3>1, <3>4 DEF StepFits, Replacing
    <3> QED
      BY <1>9, <3>2, <3>3, <3>4, Zenon DEF BeginReplace, Begin
  <2>4. NoDangling'
    BY <1>9, NothingLost DEF BeginReplace, At, Goto, Begin, Release, Published, Save, vaultVars,
       payload, cmdVars, diskVars, procVars, Edit, Readable, Unseen, Edit
  <2> QED
    BY <1>0, <2>1, <2>2, <2>3, <2>4 DEF CInv
<1>10. ASSUME NEW p \in Procs, BeginMigrate(p) PROVE CInv'
  <2>1. Views'
    BY <1>10 DEF BeginMigrate, At, Goto, Begin, Release, Published, Save, vaultVars, payload,
       cmdVars, diskVars, procVars, Edit, Unseen, Views, TypeOK, ProcTypes
  <2>2. JournalFits'
    BY <1>10, NoJournal DEF BeginMigrate, diskVars
  <2>3. StepFits'
    <3>1. /\ jstate' = "none" /\ task' = "migrate" /\ holder' = p /\ ~ touched' /\ step' = "prepare"
          /\ UNCHANGED <<disk, keyring, lost>> /\ mem[p] = disk /\ handle'[p] = "current"
      BY <1>10 DEF BeginMigrate, Begin, Views, procVars
    <3> DEFINE plan(sel) == [f \in Profiles |-> IF f \in sel /\ mem[p][f] \in Sources THEN mem[p][f] ELSE NoRef]
               targets(plan1) == {plan1[f] : f \in Profiles} \ {NoRef}
               Chosen(refs1) == \E fresh \in Injection(refs1, {t \in Targets : Unseen(t)}) :
                                 moved' = [s \in Sources |-> IF s \in refs1 THEN fresh[s] ELSE NoRef]
               refs == targets(before')
    <3>2. PICK sel \in SUBSET Profiles :
            /\ targets(plan(sel)) # {} /\ targets(plan(sel)) \subseteq keyring
            /\ before' = plan(sel) /\ Chosen(targets(plan(sel)))
      BY <1>10, Zenon DEF BeginMigrate
    <3>14. targets(plan(sel)) = refs
      BY <3>2
    <3> HIDE DEF refs, targets, Chosen
    <3>3. refs # {} /\ refs \subseteq keyring /\ Chosen(refs)
      BY <3>2, <3>14
    <3> USE DEF refs, targets, Chosen
    <3>4. \A f \in Profiles : before'[f] = disk[f] \/ before'[f] = NoRef
      BY <3>1, <3>2
    <3>5. PICK fresh \in Injection(refs, {t \in Targets : Unseen(t)}) :
            moved' = [s \in Sources |-> IF s \in refs THEN fresh[s] ELSE NoRef]
      BY <3>3, Zenon
    <3>6. \A s \in refs : fresh[s] \in Targets /\ Unseen(fresh[s])
      BY <3>5 DEF Injection
    <3>7. \A s \in Sources : IF s \in refs THEN moved'[s] \in Targets /\ ~ InUse(disk, moved'[s])
                                              ELSE moved'[s] = NoRef
      BY <3>5, <3>6 DEF Unseen
    <3>8. refs \subseteq Sources /\ NoRef \notin Targets
      BY <3>3 DEF TypeOK, DiskTypes
    <3>9. Moved' = refs
      BY <3>7, <3>8 DEF Moved
    <3>10. Planned'
      BY <3>3, <3>9 DEF Planned, Affected
    <3>11. AllBefore(disk)'
      BY <3>1, <3>4 DEF AllBefore, Affected
    <3>12. \A t \in NewRefs' : ~ InUse(disk', t)
      BY <3>1, <3>7, <3>8, <3>9 DEF NewRefs, Moved
    <3>13. Uncommitted'
      BY <3>1, <3>3, <3>9, <3>10, <3>11, <3>12 DEF Uncommitted, InUse
    <3> QED
      BY <3>1, <3>13 DEF StepFits, Replacing
  <2>4. NoDangling'
    BY <1>10, NothingLost DEF BeginMigrate, At, Goto, Begin, Release, Published, Save, vaultVars,
       payload, cmdVars, diskVars, procVars, Edit, Unseen
  <2> QED
    BY <1>0, <2>1, <2>2, <2>3, <2>4 DEF CInv
<1>11. ASSUME NEW p \in Procs, BeginRecover(p) PROVE CInv'
  <2>1. Views'
    BY <1>11 DEF BeginRecover, At, Goto, Begin, Release, Published, Save, vaultVars, payload,
       cmdVars, diskVars, procVars, Edit, Unsafe, Views, TypeOK, ProcTypes
  <2>2. JournalFits'
    BY <1>11, JournalRests DEF BeginRecover, At, Goto, Begin, Release, Published, Save, vaultVars,
       payload, cmdVars, diskVars, procVars, Edit, Unsafe
  <2>3. StepFits'
    <3>1. mem[p] = disk /\ jstate # "none" /\ UNCHANGED <<jstate, cleanup, lost, new, current, handle>>
      BY <1>11 DEF BeginRecover, Views, diskVars, procVars, payload
    <3>2. CASE Unsafe(p) /\ Begin(p, "recover", "freeze")
      <4>1. lost # {}
        BY <1>11, <3>1, <3>2, UnsafeMeansLoss DEF BeginRecover
      <4> QED
        BY <3>1, <3>2, <4>1 DEF Begin, StepFits, Replacing
    <3>3. CASE Disposition(mem[p]) = "notCommitted" /\ handle[p] = "current" /\ Begin(p, "recover", "undoMark")
      BY <3>1, <3>3, Dispositions DEF Begin, StepFits, Replacing
    <3>4. CASE Disposition(mem[p]) = "committed" /\ Begin(p, "recover", IF cleanup THEN "checkpoint" ELSE "clear")
      <4>1. jstate \in PostCommit
        BY <3>1, <3>4, Dispositions
      <4>2. ~ cleanup => ClearedUp'
        BY <3>1, <4>1 DEF ClearedUp, PostCommit, TypeOK, DiskTypes
      <4> QED
        BY <3>1, <3>4, <4>1, <4>2 DEF Begin, StepFits, Replacing
    <3> QED
      BY <1>11, <3>2, <3>3, <3>4, Zenon DEF BeginRecover
  <2>4. NoDangling'
    BY <1>11, NothingLost DEF BeginRecover, At, Goto, Begin, Release, Published, Save, vaultVars,
       payload, cmdVars, diskVars, procVars, Edit, Unsafe
  <2> QED
    BY <1>0, <2>1, <2>2, <2>3, <2>4 DEF CInv
<1>12. ASSUME NEW p \in Procs, Generate(p) PROVE CInv'
  <2>1. Views'
    <3>1. ASSUME NEW b, Save(p, view[p] \cup {new}, b) PROVE Views'
      BY <1>12, <3>1, SaveViews, Zenon DEF Generate, TypeOK
    <3>2. CASE UNCHANGED vaultVars
      BY <1>12, <3>2, RestsViews, Zenon DEF Generate
    <3> QED
      BY <1>12, <3>1, <3>2, Zenon DEF Generate
  <2>2. JournalFits'
    BY <1>12, NoJournal DEF Generate, diskVars, At, StepFits, Replacing
  <2>3. StepFits'
    <3>0. CASE Release
      BY <3>0, NoCommand DEF Release
    <3>1. ASSUME NEW b, Save(p, view[p] \cup {new}, b), Goto("commit") PROVE StepFits'
      <4>1. new \in vault' /\ step' = "commit" /\ UNCHANGED <<holder, task, slot, new, generated, touched>>
        BY <3>1, SaveKnows DEF Goto
      <4>2. UNCHANGED <<disk, jstate, current>> /\ step = "generate"
        BY <1>12 DEF Generate, At
      <4> QED
        BY <4>1, <4>2 DEF StepFits, Replacing, InUse
    <3> QED
      BY <1>12, <3>0, <3>1, Zenon DEF Generate
  <2>4. NoDangling'
    <3>1. ASSUME NEW b, Save(p, view[p] \cup {new}, b) PROVE vault \subseteq vault'
      BY <3>1, SaveKnows
    <3>2. vault \subseteq vault' /\ UNCHANGED <<disk, keyring, lost>>
      BY <1>12, <3>1 DEF Generate, vaultVars
    <3> QED
      BY <3>2, NothingLost
  <2> QED
    BY <1>0, <2>1, <2>2, <2>3, <2>4 DEF CInv
<1>13. ASSUME NEW p \in Procs, CommitReplace(p) PROVE CInv'
  <2>1. Views'
    BY <1>13 DEF CommitReplace, At, Goto, Begin, Release, Published, Save, vaultVars, payload,
       cmdVars, diskVars, procVars, Edit, Replaced, Views, TypeOK, ProcTypes
  <2>2. JournalFits'
    BY <1>13, NoJournal DEF CommitReplace, diskVars, At, StepFits, Replacing
  <2>3. StepFits'
    <3>1. UNCHANGED <<holder, task, slot, new, generated, touched, jstate>> /\ step = "commit" /\ holder = p
      BY <1>13 DEF CommitReplace, At, Goto
    <3>2. CASE current[p] /\ disk' = Replaced(p)
      <4>1. ~ touched
        BY <3>1, <3>2 DEF StepFits
      <4>2. CASE Goto("cleanup") /\ mem' = [mem EXCEPT ![p] = Replaced(p)]
        <5>1. mem'[p] = disk'
          BY <3>2, <4>2 DEF TypeOK, ProcTypes
        <5> QED
          BY <3>1, <4>1, <4>2, <5>1 DEF Goto, StepFits, Replacing
      <4>3. CASE Goto("verifyCommit") /\ UNCHANGED mem
        <5>1. disk' = Replaced(p)'
          BY <3>1, <3>2, <4>3 DEF Replaced
        <5> QED
          BY <3>1, <4>1, <4>3, <5>1 DEF Goto, StepFits, Replacing
      <4>4. CASE Goto("rollback") /\ UNCHANGED <<disk, mem, current>>
        BY <3>1, <4>1, <4>4 DEF Goto, StepFits, Replacing, InUse
      <4> QED
        BY <1>13, <4>2, <4>3, <4>4, Zenon DEF CommitReplace
    <3>3. CASE Goto("rollback") /\ UNCHANGED <<disk, mem, current>>
      BY <3>1, <3>3 DEF Goto, StepFits, Replacing, InUse
    <3> QED
      BY <1>13, <3>2, <3>3, Zenon DEF CommitReplace
  <2>4. NoDangling'
    <3>1. UNCHANGED <<keyring, vault, lost>>
      BY <1>13 DEF CommitReplace
    <3>2. CASE current[p] /\ disk' = Replaced(p)
      <4>1. disk' = [disk EXCEPT ![slot] = new] /\ step = "commit" /\ (new # NoRef => new \in keyring \cup vault)
        BY <1>13, <3>2 DEF CommitReplace, At, Replaced, Views, StepFits, Replacing
      <4>2. ASSUME NEW x \in Slots, disk'[x] # NoRef PROVE disk'[x] \in keyring \cup vault \cup lost
        <5>1. disk'[x] = IF x = slot THEN new ELSE disk[x]
          BY <4>1 DEF TypeOK, DiskTypes
        <5> QED
          BY <4>1, <4>2, <5>1 DEF NoDangling, Present
      <4> QED
        BY <3>1, <4>2 DEF NoDangling, Present
    <3>3. CASE UNCHANGED disk
      BY <3>1, <3>3, NothingLost
    <3> QED
      BY <1>13, <3>2, <3>3, Zenon DEF CommitReplace
  <2> QED
    BY <1>0, <2>1, <2>2, <2>3, <2>4 DEF CInv
<1>14. ASSUME NEW p \in Procs, VerifyReplace(p) PROVE CInv'
  <2>1. Views'
    <3>1. UNCHANGED <<disk, made, vaultVars>>
      BY <1>14 DEF VerifyReplace, diskVars, vaultVars
    <3>2. CASE UNCHANGED <<mem, current>>
      BY <3>1, <3>2, RestsViews
    <3>3. CASE mem' = [mem EXCEPT ![p] = Replaced(p)] /\ current' = [current EXCEPT ![p] = TRUE]
      <4>1. disk = Replaced(p)
        BY <1>14 DEF VerifyReplace, At, StepFits
      <4> QED
        BY <3>1, <3>3, <4>1 DEF Views, TypeOK, ProcTypes, vaultVars
    <3> QED
      BY <1>14, <3>2, <3>3, Zenon DEF VerifyReplace
  <2>2. JournalFits'
    BY <1>14, NoJournal DEF VerifyReplace, diskVars, At, StepFits, Replacing
  <2>3. StepFits'
    <3>0. CASE Release
      BY <3>0, NoCommand DEF Release
    <3>1. step = "verifyCommit" /\ holder = p /\ ~ touched /\ disk = Replaced(p)
      BY <1>14 DEF VerifyReplace, At, StepFits
    <3>2. CASE mem' = [mem EXCEPT ![p] = Replaced(p)] /\ Goto("cleanup")
      <4>1. mem'[p] = disk' /\ UNCHANGED jstate
        BY <1>14, <3>1, <3>2 DEF VerifyReplace, diskVars, TypeOK, ProcTypes
      <4> QED
        BY <3>1, <3>2, <4>1 DEF Goto, StepFits, Replacing
    <3> QED
      BY <1>14, <3>0, <3>1, <3>2, Zenon DEF VerifyReplace
  <2>4. NoDangling'
    BY <1>14, NothingLost DEF VerifyReplace, At, Goto, Begin, Release, Published, Save, vaultVars,
       payload, cmdVars, diskVars, procVars, Edit, Replaced
  <2> QED
    BY <1>0, <2>1, <2>2, <2>3, <2>4 DEF CInv
<1>15. ASSUME NEW p \in Procs, CleanupReplaced(p) PROVE CInv'
  <2>1. Views'
    <3>0. UNCHANGED <<disk, made, mem, current>>
      BY <1>15 DEF CleanupReplaced
    <3>1. CASE UNCHANGED vaultVars
      BY <3>0, <3>1, RestsViews
    <3>2. ASSUME NEW b, Save(p, view[p] \ {old}, b) PROVE Views'
      BY <3>0, <3>2, SaveViews, Zenon DEF TypeOK
    <3> QED
      BY <1>15, <3>1, <3>2, Zenon DEF CleanupReplaced, Discard, vaultVars
  <2>2. JournalFits'
    BY <1>15, NoJournal DEF CleanupReplaced, diskVars, At, StepFits, Replacing
  <2>3. StepFits'
    BY <1>15, NoCommand DEF CleanupReplaced, At, Goto, Begin, Release, Published, Save, vaultVars,
       payload, cmdVars, diskVars, procVars, Edit, Discard, StepFits, Replacing
  <2>4. NoDangling'
    <3>1. UNCHANGED <<disk, lost>> /\ (mem[p] = disk)
      BY <1>15 DEF CleanupReplaced, At, StepFits, Replacing
    <3>2. CASE UNCHANGED <<keyring, vaultVars>>
      BY <3>1, <3>2, NothingLost DEF vaultVars
    <3>3. CASE Discard(p, old) /\ ~ InUse(disk, old)
      BY <3>1, <3>3, DiscardLosesNothing
    <3> QED
      BY <1>15, <3>1, <3>2, <3>3, Zenon DEF CleanupReplaced
  <2> QED
    BY <1>0, <2>1, <2>2, <2>3, <2>4 DEF CInv
<1>16. ASSUME NEW p \in Procs, RollbackReplace(p) PROVE CInv'
  <2>1. Views'
    <3>0. UNCHANGED <<disk, made, mem, current>>
      BY <1>16 DEF RollbackReplace
    <3>1. CASE UNCHANGED vaultVars
      BY <3>0, <3>1, RestsViews
    <3>2. ASSUME NEW b, Save(p, view[p] \ {new}, b) PROVE Views'
      BY <3>0, <3>2, SaveViews, Zenon DEF TypeOK
    <3> QED
      BY <1>16, <3>1, <3>2, Zenon DEF RollbackReplace, Discard, vaultVars
  <2>2. JournalFits'
    BY <1>16, NoJournal DEF RollbackReplace, diskVars, At, StepFits, Replacing
  <2>3. StepFits'
    BY <1>16, NoCommand DEF RollbackReplace, At, Goto, Begin, Release, Published, Save, vaultVars,
       payload, cmdVars, diskVars, procVars, Edit, Discard, StepFits, Replacing
  <2>4. NoDangling'
    <3>1. UNCHANGED <<disk, lost>> /\ (generated => ~ InUse(disk, new))
      BY <1>16 DEF RollbackReplace, At, StepFits, Replacing
    <3>2. CASE UNCHANGED <<keyring, vaultVars>>
      BY <3>1, <3>2, NothingLost DEF vaultVars
    <3>3. CASE Discard(p, new) /\ ~ InUse(disk, new)
      BY <3>1, <3>3, DiscardLosesNothing
    <3> QED
      BY <1>16, <3>1, <3>2, <3>3, Zenon DEF RollbackReplace
  <2> QED
    BY <1>0, <2>1, <2>2, <2>3, <2>4 DEF CInv
<1>17. ASSUME NEW p \in Procs, Prepare(p) PROVE CInv'
  <2>1. Views'
    BY <1>17 DEF Prepare, At, Goto, Begin, Release, Published, Save, vaultVars, payload, cmdVars,
       diskVars, procVars, Edit, Recorded, RecordedLate, NotRecorded, ForgetPayload, Views, TypeOK,
       ProcTypes
  <2>2. JournalFits'
    <3>1. CASE jstate' = "targetWritePending" /\ UNCHANGED payload
      <4>1. Uncommitted
        BY <1>17 DEF Prepare, At, StepFits
      <4>2. Uncommitted'
        BY <1>17, <3>1, <4>1, UncommittedKept DEF Prepare
      <4> QED
        BY <3>1, <4>2 DEF JournalFits, PostCommit
    <3>2. CASE UNCHANGED jstate
      BY <1>17, <3>2, NoJournal DEF Prepare, At, StepFits
    <3> QED
      BY <1>17, <3>1, <3>2, Zenon DEF Prepare, Recorded, RecordedLate, NotRecorded
  <2>3. StepFits'
    <3>0. CASE Release
      BY <3>0, NoCommand DEF Release
    <3>1. step = "prepare" /\ holder = p /\ UNCHANGED handle
      BY <1>17 DEF Prepare, At
    <3>2. CASE Recorded(p, "targetWritePending") /\ Goto("write")
      BY <3>1, <3>2 DEF Recorded, Goto, StepFits, Replacing
    <3> QED
      BY <1>17, <3>0, <3>2, Zenon DEF Prepare
  <2>4. NoDangling'
    BY <1>17, NothingLost DEF Prepare, At, Goto, Begin, Release, Published, Save, vaultVars,
       payload, cmdVars, diskVars, procVars, Edit, Recorded, RecordedLate, NotRecorded,
       ForgetPayload
  <2> QED
    BY <1>0, <2>1, <2>2, <2>3, <2>4 DEF CInv
<1>18. ASSUME NEW p \in Procs, WriteTargets(p) PROVE CInv'
  <2>1. Views'
    <3>1. ASSUME NEW b, Save(p, view[p] \cup NewRefs, b) PROVE Views'
      BY <1>18, <3>1, SaveViews, Zenon DEF WriteTargets, TypeOK
    <3>2. CASE UNCHANGED vaultVars
      BY <1>18, <3>2, RestsViews, Zenon DEF WriteTargets
    <3> QED
      BY <1>18, <3>1, <3>2, Zenon DEF WriteTargets
  <2>2. JournalFits'
    BY <1>18, JournalRests DEF WriteTargets, At, Goto, Begin, Release, Published, Save, vaultVars,
       payload, cmdVars, diskVars, procVars, Edit
  <2>3. StepFits'
    <3>1. UNCHANGED <<jstate, payload, current, disk, keyring, lost>> /\ step = "write"
      BY <1>18 DEF WriteTargets, At
    <3>2. NewRefs' = NewRefs
      BY <3>1, SamePlan
    <3>3. CASE Goto("reject")
      BY <3>1, <3>3 DEF Goto, StepFits, Replacing
    <3>4. CASE Goto("verify") /\ Save(p, view[p] \cup NewRefs, TRUE)
      <4>1. NewRefs' \subseteq vault'
        <5>1. vault' = view[p] \cup NewRefs
          BY <3>4, SaveKnows, Zenon
        <5> QED
          BY <3>2, <5>1
      <4>2. handle'[p] = "current" /\ holder = p
        BY <1>18, <3>4 DEF WriteTargets, At, Save
      <4> QED
        BY <3>1, <3>4, <4>1, <4>2 DEF Goto, StepFits, Replacing
    <3> QED
      BY <1>18, <3>3, <3>4, Zenon DEF WriteTargets
  <2>4. NoDangling'
    <3>1. ASSUME NEW b, Save(p, view[p] \cup NewRefs, b) PROVE vault \subseteq vault'
      BY <3>1, SaveKnows
    <3>2. vault \subseteq vault' /\ UNCHANGED <<disk, keyring, lost>>
      BY <1>18, <3>1 DEF WriteTargets, vaultVars
    <3> QED
      BY <3>2, NothingLost
  <2> QED
    BY <1>0, <2>1, <2>2, <2>3, <2>4 DEF CInv
<1>19. ASSUME NEW p \in Procs, RejectTargets(p) PROVE CInv'
  <2>1. Views'
    BY <1>19 DEF RejectTargets, At, Goto, Begin, Release, Published, Save, vaultVars, payload,
       cmdVars, diskVars, procVars, Edit, Transition, TransitionFails, TransitionAllowed, Recorded,
       RecordedLate, NotRecorded, Views, TypeOK, ProcTypes
  <2>2. JournalFits'
    BY <1>19, JournalMoves, Zenon DEF RejectTargets, payload
  <2>3. StepFits'
    BY <1>19, NoCommand DEF RejectTargets, At, Goto, Begin, Release, Published, Save, vaultVars,
       payload, cmdVars, diskVars, procVars, Edit, Transition, TransitionFails, TransitionAllowed,
       Recorded, RecordedLate, NotRecorded, StepFits, Replacing
  <2>4. NoDangling'
    BY <1>19, NothingLost DEF RejectTargets, At, Goto, Begin, Release, Published, Save, vaultVars,
       payload, cmdVars, diskVars, procVars, Edit, Transition, TransitionFails, TransitionAllowed,
       Recorded, RecordedLate, NotRecorded
  <2> QED
    BY <1>0, <2>1, <2>2, <2>3, <2>4 DEF CInv
<1>20. ASSUME NEW p \in Procs, VerifyTargets(p) PROVE CInv'
  <2>1. Views'
    BY <1>20 DEF VerifyTargets, At, Goto, Begin, Release, Published, Save, vaultVars, payload,
       cmdVars, diskVars, procVars, Edit, Transition, TransitionFails, TransitionAllowed, Recorded,
       RecordedLate, NotRecorded, Views, TypeOK, ProcTypes
  <2>2. JournalFits'
    BY <1>20, JournalMoves, Zenon DEF VerifyTargets, payload
  <2>3. StepFits'
    <3>0. CASE Release
      BY <3>0, NoCommand DEF Release
    <3>1. UNCHANGED <<payload, vault, handle>> /\ step = "verify" /\ holder = p
      BY <1>20 DEF VerifyTargets, At, payload
    <3>2. NewRefs' = NewRefs
      BY <3>1, SamePlan
    <3>3. CASE Transition(p, "targetsVerified") /\ Goto("persist")
      <4>1. jstate' = "targetsVerified" /\ current[p]
        BY <3>3, Zenon DEF Transition, Recorded
      <4> QED
        BY <3>1, <3>2, <3>3, <4>1 DEF Goto, StepFits, Replacing
    <3> QED
      BY <1>20, <3>0, <3>3, Zenon DEF VerifyTargets
  <2>4. NoDangling'
    BY <1>20, NothingLost DEF VerifyTargets, At, Goto, Begin, Release, Published, Save, vaultVars,
       payload, cmdVars, diskVars, procVars, Edit, Transition, TransitionFails, TransitionAllowed,
       Recorded, RecordedLate, NotRecorded
  <2> QED
    BY <1>0, <2>1, <2>2, <2>3, <2>4 DEF CInv
<1>21. ASSUME NEW p \in Procs, Persist(p) PROVE CInv'
  <2>1. Views'
    BY <1>21 DEF Persist, At, Goto, Begin, Release, Published, Save, vaultVars, payload, cmdVars,
       diskVars, procVars, Edit, After, Views, TypeOK, ProcTypes
  <2>2. JournalFits'
    <3>1. UNCHANGED <<keyring, vault, lost, payload>>
      BY <1>21 DEF Persist, payload
    <3>2. CASE UNCHANGED <<disk, jstate>>
      BY <3>1, <3>2, JournalRests
    <3>3. CASE current[p] /\ disk' = After(mem[p]) /\ jstate' = "profilesCommitted"
      <4>1. Uncommitted /\ NewRefs \subseteq vault
        BY <1>21 DEF Persist, At, StepFits, JournalFits, PreCommit
      <4>2. NewRefs' = NewRefs /\ Affected' = Affected /\ Planned'
        BY <3>1, <4>1, SamePlan DEF Uncommitted
      <4>3. \A f \in Affected : disk'[f] = moved[before[f]]
        BY <3>3 DEF After, Affected, Slots
      <4>4. AllAfter(disk)'
        BY <3>1, <4>2, <4>3 DEF AllAfter, payload
      <4> QED
        BY <3>1, <3>3, <4>1, <4>2, <4>4 DEF JournalFits, Committed, PreCommit
    <3> QED
      BY <1>21, <3>2, <3>3, Zenon DEF Persist
  <2>3. StepFits'
    <3>0. CASE Release
      BY <3>0, NoCommand DEF Release
    <3>1. /\ step = "persist" /\ holder = p /\ jstate = "targetsVerified" /\ (touched => ~ current[p])
          /\ handle'[p] = "current"
      BY <1>21 DEF Persist, At, StepFits
    <3>2. CASE Goto("checkpoint") /\ jstate' = "profilesCommitted" /\ current[p]
      BY <3>1, <3>2 DEF Goto, StepFits, Replacing, PostCommit
    <3>3. CASE Goto("undoMark") /\ UNCHANGED <<jstate, current>>
      BY <3>1, <3>3 DEF Goto, StepFits, Replacing, PreCommit
    <3> QED
      BY <1>21, <3>0, <3>2, <3>3, Zenon DEF Persist
  <2>4. NoDangling'
    <3>1. UNCHANGED <<keyring, vault, lost>>
      BY <1>21 DEF Persist
    <3>2. CASE UNCHANGED disk
      BY <3>1, <3>2, NothingLost
    <3>3. CASE current[p] /\ disk' = After(mem[p])
      <4>1. Uncommitted /\ NewRefs \subseteq vault /\ mem[p] = disk
        BY <1>21, <3>3 DEF Persist, At, StepFits, JournalFits, PreCommit, Views
      <4>2. ASSUME NEW x \in Slots, disk'[x] # NoRef PROVE disk'[x] \in keyring \cup vault \cup lost
        <5>1. disk'[x] = IF x \in Profiles /\ before[x] # NoRef THEN moved[before[x]] ELSE disk[x]
          BY <3>3, <4>1 DEF After
        <5>2. x \in Profiles /\ before[x] # NoRef => moved[before[x]] \in NewRefs
          BY <4>1 DEF Uncommitted, Planned, Affected, NewRefs
        <5> QED
          BY <4>1, <4>2, <5>1, <5>2 DEF NoDangling, Present
      <4> QED
        BY <3>1, <4>2 DEF NoDangling, Present
    <3> QED
      BY <1>21, <3>2, <3>3, Zenon DEF Persist
  <2> QED
    BY <1>0, <2>1, <2>2, <2>3, <2>4 DEF CInv
<1>22. ASSUME NEW p \in Procs, Checkpoint(p) PROVE CInv'
  <2>1. Views'
    BY <1>22 DEF Checkpoint, At, Goto, Begin, Release, Published, Save, vaultVars, payload,
       cmdVars, diskVars, procVars, Edit, Transition, TransitionFails, TransitionAllowed, Recorded,
       RecordedLate, NotRecorded, Views, TypeOK, ProcTypes
  <2>2. JournalFits'
    BY <1>22, JournalMoves, Zenon DEF Checkpoint, payload
  <2>3. StepFits'
    <3>0. CASE Release
      BY <3>0, NoCommand DEF Release
    <3>1. step = "checkpoint" /\ holder = p /\ jstate \in PostCommit /\ UNCHANGED <<disk, mem>>
      BY <1>22 DEF Checkpoint, StepFits
    <3>2. CASE Transition(p, "sourceCleanupPending") /\ Goto("deleteSources")
      <4>1. jstate' = "sourceCleanupPending" /\ current[p] /\ mem[p] = disk
        BY <3>2 DEF Transition, Recorded, Views
      <4> QED
        BY <3>1, <3>2, <4>1 DEF Goto, StepFits, Replacing
    <3>3. CASE TransitionFails(p, "sourceCleanupPending") /\ Goto("pending")
      <4>1. (jstate' = "sourceCleanupPending" /\ current[p]) \/ UNCHANGED <<jstate, current>>
        BY <3>3, Zenon DEF TransitionFails, RecordedLate, NotRecorded
      <4> QED
        BY <3>1, <3>3, <4>1 DEF Goto, StepFits, Replacing, PostCommit
    <3> QED
      BY <1>22, <3>0, <3>2, <3>3, Zenon DEF Checkpoint
  <2>4. NoDangling'
    BY <1>22, NothingLost DEF Checkpoint, At, Goto, Begin, Release, Published, Save, vaultVars,
       payload, cmdVars, diskVars, procVars, Edit, Transition, TransitionFails, TransitionAllowed,
       Recorded, RecordedLate, NotRecorded
  <2> QED
    BY <1>0, <2>1, <2>2, <2>3, <2>4 DEF CInv
<1>23. ASSUME NEW p \in Procs, DeleteSources(p) PROVE CInv'
  <2>1. Views'
    BY <1>23 DEF DeleteSources, At, Goto, Begin, Release, Published, Save, vaultVars, payload,
       cmdVars, diskVars, procVars, Edit, Deletable, Deferred, Unreferenced, Views, TypeOK,
       ProcTypes
  <2>2. JournalFits'
    <3>1. jstate = "sourceCleanupPending" /\ UNCHANGED <<disk, vault, jstate, payload, lost>>
      BY <1>23 DEF DeleteSources, StepFits
    <3> QED
      BY <3>1, JournalRests DEF PreCommit
  <2>3. StepFits'
    <3>0. CASE Release
      BY <3>0, NoCommand DEF Release
    <3>1. /\ step = "deleteSources" /\ holder = p /\ jstate = "sourceCleanupPending" /\ mem[p] = disk
          /\ UNCHANGED <<disk, jstate, cleanup, current, payload>>
      BY <1>23 DEF DeleteSources, StepFits, procVars, payload
    <3>2. CASE Goto("pending")
      BY <3>1, <3>2 DEF Goto, StepFits, Replacing, PostCommit
    <3>3. ASSUME keyring' = keyring \ Deletable(p), Deferred(p) = {}, Goto("clear") PROVE StepFits'
      <4>1. ASSUME cleanup, NEW s \in Moved, ~ InUse(disk, s) PROVE s \notin keyring'
        BY <3>1, <3>3, <4>1 DEF Deletable, Deferred, Unreferenced
      <4>2. ClearedUp'
        BY <3>1, <4>1, SamePlan DEF ClearedUp, InUse
      <4> QED
        BY <3>1, <3>3, <4>2 DEF Goto, StepFits, Replacing, PostCommit
    <3> QED
      BY <1>23, <3>0, <3>2, <3>3, Zenon DEF DeleteSources
  <2>4. NoDangling'
    <3>1. mem[p] = disk /\ UNCHANGED <<disk, vault, lost>>
      BY <1>23 DEF DeleteSources, StepFits
    <3>2. PICK gone \in SUBSET Deletable(p) : keyring' = keyring \ gone
      BY <1>23, Zenon DEF DeleteSources
    <3>3. \A s \in gone : ~ InUse(disk, s)
      BY <3>1, <3>2 DEF Deletable, Unreferenced
    <3> QED
      BY <3>1, <3>2, <3>3, NothingLost DEF InUse
  <2> QED
    BY <1>0, <2>1, <2>2, <2>3, <2>4 DEF CInv
<1>24. ASSUME NEW p \in Procs, KeepPending(p) PROVE CInv'
  <2>1. Views'
    BY <1>24 DEF KeepPending, At, Goto, Begin, Release, Published, Save, vaultVars, payload,
       cmdVars, diskVars, procVars, Edit, Transition, TransitionFails, TransitionAllowed, Recorded,
       RecordedLate, NotRecorded, Views, TypeOK, ProcTypes
  <2>2. JournalFits'
    BY <1>24, JournalMoves, Zenon DEF KeepPending, payload
  <2>3. StepFits'
    BY <1>24, NoCommand DEF KeepPending, At, Goto, Begin, Release, Published, Save, vaultVars,
       payload, cmdVars, diskVars, procVars, Edit, Transition, TransitionFails, TransitionAllowed,
       Recorded, RecordedLate, NotRecorded, StepFits, Replacing
  <2>4. NoDangling'
    BY <1>24, NothingLost DEF KeepPending, At, Goto, Begin, Release, Published, Save, vaultVars,
       payload, cmdVars, diskVars, procVars, Edit, Transition, TransitionFails, TransitionAllowed,
       Recorded, RecordedLate, NotRecorded
  <2> QED
    BY <1>0, <2>1, <2>2, <2>3, <2>4 DEF CInv
<1>25. ASSUME NEW p \in Procs, UndoMark(p) PROVE CInv'
  <2>1. Views'
    BY <1>25 DEF UndoMark, At, Goto, Begin, Release, Published, Save, vaultVars, payload, cmdVars,
       diskVars, procVars, Edit, Transition, TransitionFails, TransitionAllowed, Recorded,
       RecordedLate, NotRecorded, Views, TypeOK, ProcTypes
  <2>2. JournalFits'
    BY <1>25, JournalMoves, Zenon DEF UndoMark, payload
  <2>3. StepFits'
    BY <1>25, NoCommand DEF UndoMark, At, Goto, Begin, Release, Published, Save, vaultVars,
       payload, cmdVars, diskVars, procVars, Edit, Transition, TransitionFails, TransitionAllowed,
       Recorded, RecordedLate, NotRecorded, StepFits, Replacing
  <2>4. NoDangling'
    BY <1>25, NothingLost DEF UndoMark, At, Goto, Begin, Release, Published, Save, vaultVars,
       payload, cmdVars, diskVars, procVars, Edit, Transition, TransitionFails, TransitionAllowed,
       Recorded, RecordedLate, NotRecorded
  <2> QED
    BY <1>0, <2>1, <2>2, <2>3, <2>4 DEF CInv
<1>26. ASSUME NEW p \in Procs, UndoDelete(p) PROVE CInv'
  <2>1. Views'
    <3>1. ASSUME NEW b, Save(p, view[p] \ NewRefs, b) PROVE Views'
      BY <1>26, <3>1, SaveViews, Zenon DEF UndoDelete, TypeOK
    <3>2. CASE UNCHANGED vaultVars
      BY <1>26, <3>2, RestsViews, Zenon DEF UndoDelete
    <3> QED
      BY <1>26, <3>1, <3>2, Zenon DEF UndoDelete
  <2>2. JournalFits'
    <3>1. jstate = "targetCleanupPending" /\ UNCHANGED <<disk, keyring, jstate, payload, lost>>
      BY <1>26 DEF UndoDelete, StepFits
    <3> QED
      BY <3>1, JournalRests DEF PostCommit
  <2>3. StepFits'
    <3>0. CASE Release
      BY <3>0, NoCommand DEF Release
    <3>1. /\ step = "undoDelete" /\ holder = p /\ jstate = "targetCleanupPending" /\ view[p] = vault
          /\ UNCHANGED <<jstate, payload, disk, current>>
      BY <1>26 DEF UndoDelete, StepFits, Views
    <3>2. ASSUME NewRefs \cap vault' = {}, Goto("clear") PROVE StepFits'
      <4>1. ClearedUp'
        BY <3>1, <3>2, SamePlan DEF ClearedUp, PostCommit
      <4> QED
        BY <3>1, <3>2, <4>1 DEF Goto, StepFits, Replacing
    <3>3. CASE view[p] \cap NewRefs = {} /\ UNCHANGED vaultVars /\ Goto("clear")
      BY <3>1, <3>2, <3>3 DEF vaultVars
    <3>4. CASE Save(p, view[p] \ NewRefs, TRUE) /\ Goto("clear")
      <4>1. vault' = view[p] \ NewRefs
        BY <3>4, SaveKnows, Zenon
      <4> QED
        BY <3>2, <3>4, <4>1
    <3> QED
      BY <1>26, <3>0, <3>3, <3>4, Zenon DEF UndoDelete
  <2>4. NoDangling'
    <3>1. Uncommitted /\ UNCHANGED <<disk, keyring, lost>>
      BY <1>26 DEF UndoDelete, StepFits, JournalFits, PreCommit
    <3>2. ASSUME NEW b, Save(p, view[p] \ NewRefs, b) PROVE vault \subseteq vault' \cup NewRefs
      BY <3>2, SaveKnows
    <3>3. vault \subseteq vault' \cup NewRefs
      BY <1>26, <3>2 DEF UndoDelete, vaultVars
    <3> QED
      BY <3>1, <3>3, NothingLost DEF Uncommitted, InUse
  <2> QED
    BY <1>0, <2>1, <2>2, <2>3, <2>4 DEF CInv
<1>27. ASSUME NEW p \in Procs, Clear(p) PROVE CInv'
  <2>1. Views'
    BY <1>27 DEF Clear, At, Goto, Begin, Release, Published, Save, vaultVars, payload, cmdVars,
       diskVars, procVars, Edit, Recorded, RecordedLate, NotRecorded, ForgetPayload, Views, TypeOK,
       ProcTypes
  <2>2. JournalFits'
    <3>1. CASE jstate' = "none"
      BY <3>1, NoJournal
    <3>2. CASE UNCHANGED <<jstate, payload>>
      BY <1>27, <3>2, JournalRests DEF Clear
    <3> QED
      BY <1>27, <3>1, <3>2, Zenon DEF Clear, Recorded, RecordedLate, NotRecorded
  <2>3. StepFits'
    BY <1>27, NoCommand DEF Clear, At, Goto, Begin, Release, Published, Save, vaultVars, payload,
       cmdVars, diskVars, procVars, Edit, Recorded, RecordedLate, NotRecorded, ForgetPayload,
       StepFits, Replacing
  <2>4. NoDangling'
    BY <1>27, NothingLost DEF Clear, At, Goto, Begin, Release, Published, Save, vaultVars, payload,
       cmdVars, diskVars, procVars, Edit, Recorded, RecordedLate, NotRecorded, ForgetPayload
  <2> QED
    BY <1>0, <2>1, <2>2, <2>3, <2>4 DEF CInv
<1>28. ASSUME NEW p \in Procs, Freeze(p) PROVE CInv'
  <2>1. Views'
    BY <1>28 DEF Freeze, At, Goto, Begin, Release, Published, Save, vaultVars, payload, cmdVars,
       diskVars, procVars, Edit, Transition, TransitionFails, TransitionAllowed, Recorded,
       RecordedLate, NotRecorded, Views, TypeOK, ProcTypes
  <2>2. JournalFits'
    <3>1. lost # {}
      BY <1>28 DEF Freeze, At, StepFits
    <3> QED
      BY <1>28, <3>1, JournalMoves, Zenon DEF Freeze
  <2>3. StepFits'
    BY <1>28, NoCommand DEF Freeze, At, Goto, Begin, Release, Published, Save, vaultVars, payload,
       cmdVars, diskVars, procVars, Edit, Transition, TransitionFails, TransitionAllowed, Recorded,
       RecordedLate, NotRecorded, StepFits, Replacing
  <2>4. NoDangling'
    BY <1>28, NothingLost DEF Freeze, At, Goto, Begin, Release, Published, Save, vaultVars,
       payload, cmdVars, diskVars, procVars, Edit, Transition, TransitionFails, TransitionAllowed,
       Recorded, RecordedLate, NotRecorded
  <2> QED
    BY <1>0, <2>1, <2>2, <2>3, <2>4 DEF CInv
<1>29. ASSUME NEW p \in Procs, Restart(p) PROVE CInv'
  <2>1. Views'
    BY <1>29 DEF Restart, At, Goto, Begin, Release, Published, Save, vaultVars, payload, cmdVars,
       diskVars, procVars, Edit, ForgetPayload, Views, TypeOK, ProcTypes
  <2>2. JournalFits'
    <3>1. UNCHANGED <<disk, keyring, vault, jstate, lost>>
      BY <1>29 DEF Restart
    <3>2. CASE jstate' = "none"
      BY <3>2, NoJournal
    <3>3. CASE UNCHANGED payload
      BY <3>1, <3>3, JournalRests
    <3> QED
      BY <1>29, <3>1, <3>2, <3>3, Zenon DEF Restart
  <2>3. StepFits'
    <3>0. CASE Release
      BY <3>0, NoCommand DEF Release
    <3>1. CASE holder # p
      <4>1. UNCHANGED <<cmdVars, payload, disk, keyring, vault, jstate, lost>>
        BY <1>29, <3>1, Zenon DEF Restart
      <4>2. holder # NoProc => mem'[holder] = mem[holder] /\ current'[holder] = current[holder] /\ handle'[holder] = handle[holder]
        BY <1>29, <3>1 DEF Restart, TypeOK, ProcTypes, CmdTypes
      <4>3. touched' => holder # NoProc /\ ~ current'[holder]
        BY <4>1, <4>2 DEF StepFits, cmdVars
      <4> QED
        BY <4>1, <4>2, <4>3, StepRests DEF cmdVars
    <3> QED
      BY <1>29, <3>0, <3>1, Zenon DEF Restart
  <2>4. NoDangling'
    BY <1>29, NothingLost DEF Restart, At, Goto, Begin, Release, Published, Save, vaultVars,
       payload, cmdVars, diskVars, procVars, Edit, ForgetPayload
  <2> QED
    BY <1>0, <2>1, <2>2, <2>3, <2>4 DEF CInv
<1>30. ASSUME NEW x \in Sources, LoseEntry(x) PROVE CInv'
  <2>1. Views'
    BY <1>30 DEF LoseEntry, At, Goto, Begin, Release, Published, Save, vaultVars, payload, cmdVars,
       diskVars, procVars, Edit, Views, TypeOK, ProcTypes
  <2>2. JournalFits'
    BY <1>30, JournalRests DEF LoseEntry, At, Goto, Begin, Release, Published, Save, vaultVars,
       payload, cmdVars, diskVars, procVars, Edit
  <2>3. StepFits'
    <3>1. UNCHANGED <<cmdVars, payload, disk, vault, jstate, mem, current, handle>> /\ jstate # "none"
      BY <1>30 DEF LoseEntry, procVars
    <3>2. lost \subseteq lost' /\ keyring \cup lost \subseteq keyring' \cup lost' /\ keyring' \subseteq keyring
      BY <1>30 DEF LoseEntry
    <3>3. touched' => holder # NoProc /\ ~ current'[holder]
      BY <3>1 DEF StepFits, cmdVars
    <3> QED
      BY <3>1, <3>2, <3>3, StepRests DEF cmdVars
  <2>4. NoDangling'
    BY <1>30, NothingLost DEF LoseEntry, At, Goto, Begin, Release, Published, Save, vaultVars,
       payload, cmdVars, diskVars, procVars, Edit
  <2> QED
    BY <1>0, <2>1, <2>2, <2>3, <2>4 DEF CInv
<1>31. CASE UNCHANGED vars
  <2>1. Views'
    BY <1>31 DEF vars, At, Goto, Begin, Release, Published, Save, vaultVars, payload, cmdVars,
       diskVars, procVars, Edit, Views, TypeOK, ProcTypes
  <2>2. JournalFits'
    BY <1>31, JournalRests DEF vars, At, Goto, Begin, Release, Published, Save, vaultVars, payload,
       cmdVars, diskVars, procVars, Edit
  <2>3. StepFits'
    <3>1. UNCHANGED <<cmdVars, payload, disk, keyring, vault, jstate, lost, mem, current, handle>>
      BY <1>31 DEF vars, diskVars, procVars, payload
    <3>2. touched' => holder # NoProc /\ ~ current'[holder]
      BY <3>1 DEF StepFits, cmdVars
    <3> QED
      BY <3>1, <3>2, StepRests DEF cmdVars
  <2>4. NoDangling'
    BY <1>31, NothingLost DEF vars, At, Goto, Begin, Release, Published, Save, vaultVars, payload,
       cmdVars, diskVars, procVars, Edit
  <2> QED
    BY <1>0, <2>1, <2>2, <2>3, <2>4 DEF CInv
<1> QED
  BY ONLY [Next]_vars, <1>1, <1>2, <1>3, <1>4, <1>5, <1>6, <1>7, <1>8, <1>9, <1>10, <1>11, <1>12,
     <1>13, <1>14, <1>15, <1>16, <1>17, <1>18, <1>19, <1>20, <1>21, <1>22, <1>23, <1>24, <1>25,
     <1>26, <1>27, <1>28, <1>29, <1>30, <1>31, Zenon DEF Next, CommandStep

LEMMA CInvInit == Init => CInv
<1> SUFFICES ASSUME Init PROVE CInv
  OBVIOUS
<1> USE CredentialAssumption DEF Init
<1>1. DiskTypes
  BY DEF DiskTypes, Slots, Refs, NoBefore, NoMoves, JournalStates
<1>2. ProcTypes
  BY DEF ProcTypes, Slots, Refs
<1>3. CmdTypes
  BY DEF CmdTypes, Steps, Slots, Refs
<1>4. Views /\ JournalFits
  BY DEF Views, JournalFits, PreCommit, PostCommit
<1>5. StepFits
  BY DEF StepFits, Replacing
<1>6. NoDangling
  BY DEF NoDangling, Present
<1> QED
  BY <1>1, <1>2, <1>3, <1>4, <1>5, <1>6 DEF CInv, TypeOK

(* Only the end of a migration or of its recovery removes the journal.     *)
LEMMA OnlyClearClears ==
    ASSUME [Next]_vars PROVE jstate # "none" /\ jstate' = "none" => step = "clear"
<1>1. ASSUME NEW p \in Procs, CreateVault(p) PROVE jstate # "none" /\ jstate' = "none" => step = "clear"
  BY <1>1 DEF CreateVault, diskVars
<1>2. ASSUME NEW p \in Procs, UnlockVault(p) PROVE jstate # "none" /\ jstate' = "none" => step = "clear"
  BY <1>2 DEF UnlockVault, diskVars
<1>3. ASSUME NEW p \in Procs, LockVault(p) PROVE jstate # "none" /\ jstate' = "none" => step = "clear"
  BY <1>3 DEF LockVault, diskVars
<1>4. ASSUME NEW p \in Procs, RotateVaultPassword(p) PROVE jstate # "none" /\ jstate' = "none" => step = "clear"
  BY <1>4 DEF RotateVaultPassword, diskVars
<1>5. ASSUME NEW p \in Procs, SaveSecret(p) PROVE jstate # "none" /\ jstate' = "none" => step = "clear"
  BY <1>5 DEF SaveSecret, diskVars
<1>6. ASSUME NEW p \in Procs, NEW r \in Refs, DeleteSecret(p, r) PROVE jstate # "none" /\ jstate' = "none" => step = "clear"
  BY <1>6 DEF DeleteSecret, diskVars
<1>7. ASSUME NEW p \in Procs, NEW f \in Dialers, BeginConnect(p, f) PROVE jstate # "none" /\ jstate' = "none" => step = "clear"
  BY <1>7 DEF BeginConnect, diskVars
<1>8. ASSUME NEW p \in Procs, NEW f \in Dialers, EndConnect(p, f) PROVE jstate # "none" /\ jstate' = "none" => step = "clear"
  BY <1>8 DEF EndConnect, diskVars
<1>9. ASSUME NEW p \in Procs, NEW x \in Slots, BeginReplace(p, x) PROVE jstate # "none" /\ jstate' = "none" => step = "clear"
  BY <1>9 DEF BeginReplace, diskVars
<1>10. ASSUME NEW p \in Procs, BeginMigrate(p) PROVE jstate # "none" /\ jstate' = "none" => step = "clear"
  BY <1>10 DEF BeginMigrate, diskVars
<1>11. ASSUME NEW p \in Procs, BeginRecover(p) PROVE jstate # "none" /\ jstate' = "none" => step = "clear"
  BY <1>11 DEF BeginRecover, diskVars
<1>12. ASSUME NEW p \in Procs, Generate(p) PROVE jstate # "none" /\ jstate' = "none" => step = "clear"
  BY <1>12 DEF Generate, diskVars
<1>13. ASSUME NEW p \in Procs, CommitReplace(p) PROVE jstate # "none" /\ jstate' = "none" => step = "clear"
  BY <1>13 DEF CommitReplace, diskVars
<1>14. ASSUME NEW p \in Procs, VerifyReplace(p) PROVE jstate # "none" /\ jstate' = "none" => step = "clear"
  BY <1>14 DEF VerifyReplace, diskVars
<1>15. ASSUME NEW p \in Procs, CleanupReplaced(p) PROVE jstate # "none" /\ jstate' = "none" => step = "clear"
  BY <1>15 DEF CleanupReplaced, diskVars
<1>16. ASSUME NEW p \in Procs, RollbackReplace(p) PROVE jstate # "none" /\ jstate' = "none" => step = "clear"
  BY <1>16 DEF RollbackReplace, diskVars
<1>17. ASSUME NEW p \in Procs, Prepare(p) PROVE jstate # "none" /\ jstate' = "none" => step = "clear"
  BY <1>17 DEF Prepare, Recorded, RecordedLate, NotRecorded
<1>18. ASSUME NEW p \in Procs, WriteTargets(p) PROVE jstate # "none" /\ jstate' = "none" => step = "clear"
  BY <1>18 DEF WriteTargets, diskVars
<1>19. ASSUME NEW p \in Procs, RejectTargets(p) PROVE jstate # "none" /\ jstate' = "none" => step = "clear"
  BY <1>19 DEF RejectTargets, At, Transition, TransitionFails, TransitionAllowed, Recorded,
     RecordedLate, NotRecorded
<1>20. ASSUME NEW p \in Procs, VerifyTargets(p) PROVE jstate # "none" /\ jstate' = "none" => step = "clear"
  BY <1>20 DEF VerifyTargets, At, Transition, TransitionFails, TransitionAllowed, Recorded,
     RecordedLate, NotRecorded
<1>21. ASSUME NEW p \in Procs, Persist(p) PROVE jstate # "none" /\ jstate' = "none" => step = "clear"
  BY <1>21 DEF Persist, diskVars
<1>22. ASSUME NEW p \in Procs, Checkpoint(p) PROVE jstate # "none" /\ jstate' = "none" => step = "clear"
  BY <1>22 DEF Checkpoint, At, Transition, TransitionFails, TransitionAllowed, Recorded,
     RecordedLate, NotRecorded
<1>23. ASSUME NEW p \in Procs, DeleteSources(p) PROVE jstate # "none" /\ jstate' = "none" => step = "clear"
  BY <1>23 DEF DeleteSources, diskVars
<1>24. ASSUME NEW p \in Procs, KeepPending(p) PROVE jstate # "none" /\ jstate' = "none" => step = "clear"
  BY <1>24 DEF KeepPending, At, Transition, TransitionFails, TransitionAllowed, Recorded,
     RecordedLate, NotRecorded
<1>25. ASSUME NEW p \in Procs, UndoMark(p) PROVE jstate # "none" /\ jstate' = "none" => step = "clear"
  BY <1>25 DEF UndoMark, At, Transition, TransitionFails, TransitionAllowed, Recorded,
     RecordedLate, NotRecorded
<1>26. ASSUME NEW p \in Procs, UndoDelete(p) PROVE jstate # "none" /\ jstate' = "none" => step = "clear"
  BY <1>26 DEF UndoDelete, diskVars
<1>27. ASSUME NEW p \in Procs, Clear(p) PROVE jstate # "none" /\ jstate' = "none" => step = "clear"
  BY <1>27 DEF Clear, diskVars
<1>28. ASSUME NEW p \in Procs, Freeze(p) PROVE jstate # "none" /\ jstate' = "none" => step = "clear"
  BY <1>28 DEF Freeze, At, Transition, TransitionFails, TransitionAllowed, Recorded, RecordedLate, NotRecorded
<1>29. ASSUME NEW p \in Procs, Restart(p) PROVE jstate # "none" /\ jstate' = "none" => step = "clear"
  BY <1>29 DEF Restart, diskVars
<1>30. ASSUME NEW x \in Sources, LoseEntry(x) PROVE jstate # "none" /\ jstate' = "none" => step = "clear"
  BY <1>30 DEF LoseEntry, diskVars
<1>31. CASE UNCHANGED vars
  BY <1>31 DEF vars, diskVars
<1> QED
  BY ONLY [Next]_vars, <1>1, <1>2, <1>3, <1>4, <1>5, <1>6, <1>7, <1>8, <1>9, <1>10, <1>11, <1>12,
     <1>13, <1>14, <1>15, <1>16, <1>17, <1>18, <1>19, <1>20, <1>21, <1>22, <1>23, <1>24, <1>25,
     <1>26, <1>27, <1>28, <1>29, <1>30, <1>31, Zenon DEF Next, CommandStep

(* Only the cleanup of a migration removes sources for it.                 *)
LEMMA CapturedKept == ASSUME [Next]_vars PROVE KeepsCaptured
<1>1. ASSUME NEW p \in Procs, CreateVault(p) PROVE KeepsCaptured
  BY <1>1 DEF CreateVault, diskVars, KeepsCaptured
<1>2. ASSUME NEW p \in Procs, UnlockVault(p) PROVE KeepsCaptured
  BY <1>2 DEF UnlockVault, diskVars, KeepsCaptured
<1>3. ASSUME NEW p \in Procs, LockVault(p) PROVE KeepsCaptured
  BY <1>3 DEF LockVault, diskVars, KeepsCaptured
<1>4. ASSUME NEW p \in Procs, RotateVaultPassword(p) PROVE KeepsCaptured
  BY <1>4 DEF RotateVaultPassword, diskVars, KeepsCaptured
<1>5. ASSUME NEW p \in Procs, SaveSecret(p) PROVE KeepsCaptured
  BY <1>5 DEF SaveSecret, diskVars, KeepsCaptured
<1>6. ASSUME NEW p \in Procs, NEW r \in Refs, DeleteSecret(p, r) PROVE KeepsCaptured
  BY <1>6 DEF DeleteSecret, KeepsCaptured
<1>7. ASSUME NEW p \in Procs, NEW f \in Dialers, BeginConnect(p, f) PROVE KeepsCaptured
  BY <1>7 DEF BeginConnect, diskVars, KeepsCaptured
<1>8. ASSUME NEW p \in Procs, NEW f \in Dialers, EndConnect(p, f) PROVE KeepsCaptured
  BY <1>8 DEF EndConnect, diskVars, KeepsCaptured
<1>9. ASSUME NEW p \in Procs, NEW x \in Slots, BeginReplace(p, x) PROVE KeepsCaptured
  BY <1>9 DEF BeginReplace, diskVars, KeepsCaptured
<1>10. ASSUME NEW p \in Procs, BeginMigrate(p) PROVE KeepsCaptured
  BY <1>10 DEF BeginMigrate, diskVars, KeepsCaptured
<1>11. ASSUME NEW p \in Procs, BeginRecover(p) PROVE KeepsCaptured
  BY <1>11 DEF BeginRecover, diskVars, KeepsCaptured
<1>12. ASSUME NEW p \in Procs, Generate(p) PROVE KeepsCaptured
  BY <1>12 DEF Generate, diskVars, KeepsCaptured
<1>13. ASSUME NEW p \in Procs, CommitReplace(p) PROVE KeepsCaptured
  BY <1>13 DEF CommitReplace, diskVars, KeepsCaptured
<1>14. ASSUME NEW p \in Procs, VerifyReplace(p) PROVE KeepsCaptured
  BY <1>14 DEF VerifyReplace, diskVars, KeepsCaptured
<1>15. ASSUME NEW p \in Procs, CleanupReplaced(p) PROVE KeepsCaptured
  BY <1>15 DEF CleanupReplaced, At, KeepsCaptured
<1>16. ASSUME NEW p \in Procs, RollbackReplace(p) PROVE KeepsCaptured
  BY <1>16 DEF RollbackReplace, At, KeepsCaptured
<1>17. ASSUME NEW p \in Procs, Prepare(p) PROVE KeepsCaptured
  BY <1>17 DEF Prepare, diskVars, KeepsCaptured
<1>18. ASSUME NEW p \in Procs, WriteTargets(p) PROVE KeepsCaptured
  BY <1>18 DEF WriteTargets, diskVars, KeepsCaptured
<1>19. ASSUME NEW p \in Procs, RejectTargets(p) PROVE KeepsCaptured
  BY <1>19 DEF RejectTargets, diskVars, KeepsCaptured
<1>20. ASSUME NEW p \in Procs, VerifyTargets(p) PROVE KeepsCaptured
  BY <1>20 DEF VerifyTargets, diskVars, KeepsCaptured
<1>21. ASSUME NEW p \in Procs, Persist(p) PROVE KeepsCaptured
  BY <1>21 DEF Persist, diskVars, KeepsCaptured
<1>22. ASSUME NEW p \in Procs, Checkpoint(p) PROVE KeepsCaptured
  BY <1>22 DEF Checkpoint, diskVars, KeepsCaptured
<1>23. ASSUME NEW p \in Procs, DeleteSources(p) PROVE KeepsCaptured
  BY <1>23 DEF DeleteSources, Deletable, Unreferenced, InFlight, KeepsCaptured
<1>24. ASSUME NEW p \in Procs, KeepPending(p) PROVE KeepsCaptured
  BY <1>24 DEF KeepPending, diskVars, KeepsCaptured
<1>25. ASSUME NEW p \in Procs, UndoMark(p) PROVE KeepsCaptured
  BY <1>25 DEF UndoMark, diskVars, KeepsCaptured
<1>26. ASSUME NEW p \in Procs, UndoDelete(p) PROVE KeepsCaptured
  BY <1>26 DEF UndoDelete, diskVars, KeepsCaptured
<1>27. ASSUME NEW p \in Procs, Clear(p) PROVE KeepsCaptured
  BY <1>27 DEF Clear, diskVars, KeepsCaptured
<1>28. ASSUME NEW p \in Procs, Freeze(p) PROVE KeepsCaptured
  BY <1>28 DEF Freeze, diskVars, KeepsCaptured
<1>29. ASSUME NEW p \in Procs, Restart(p) PROVE KeepsCaptured
  BY <1>29 DEF Restart, diskVars, KeepsCaptured
<1>30. ASSUME NEW x \in Sources, LoseEntry(x) PROVE KeepsCaptured
  BY <1>30 DEF LoseEntry, KeepsCaptured
<1>31. CASE UNCHANGED vars
  BY <1>31 DEF vars, diskVars, KeepsCaptured
<1> QED
  BY ONLY [Next]_vars, <1>1, <1>2, <1>3, <1>4, <1>5, <1>6, <1>7, <1>8, <1>9, <1>10, <1>11, <1>12,
     <1>13, <1>14, <1>15, <1>16, <1>17, <1>18, <1>19, <1>20, <1>21, <1>22, <1>23, <1>24, <1>25,
     <1>26, <1>27, <1>28, <1>29, <1>30, <1>31, Zenon DEF Next, CommandStep

(* If no other process may use a stale store to judge whether a secret is  *)
(* in use, or save between a commit and its verification, every reference  *)
(* in the persisted store leads to a secret: whatever fails, whoever dies  *)
(* and wherever (NoDangling; delete_secret, commit_store_mutation_state,   *)
(* migrate_profile_secrets, recover_profile_secret_migration).             *)
THEOREM NothingDangles == ASSUME Windows = {} PROVE Spec => []NoDangling
<1>1. CInv /\ [Next]_vars => CInv'
  BY CInvStep
<1>2. CInv => NoDangling
  BY DEF CInv
<1> QED
  BY CInvInit, <1>1, <1>2, PTL DEF Spec

(* Under the same condition an active migration journal can be resolved at *)
(* every moment, and only a loss outside PortMate ever freezes one         *)
(* (Recoverable; journal_transition_allowed and                            *)
(* profile_secret_migration_disposition).                                  *)
THEOREM JournalsResolve == ASSUME Windows = {} PROVE Spec => []Recoverable
<1>1. CInv /\ [Next]_vars => CInv'
  BY CInvStep
<1>2. CInv => Recoverable
  BY DEF CInv, JournalFits, Uncommitted, Committed, Recoverable, TypeOK, DiskTypes, JournalStates,
         PreCommit, PostCommit
<1> QED
  BY CInvInit, <1>1, <1>2, PTL DEF Spec

(* When a journal disappears the migration has left nothing behind: its    *)
(* targets are in use or deleted and, after a commit with cleanup, so are  *)
(* its sources (ClearLeavesNothing; clear_profile_secret_migration).       *)
THEOREM ClearingLeavesNothing == ASSUME Windows = {} PROVE Spec => ClearLeavesNothing
<1>1. CInv /\ [Next]_vars => CInv'
  BY CInvStep
<1>2. ASSUME CInv, [Next]_vars PROVE [ClearsUp]_vars
  <2> SUFFICES ASSUME jstate # "none", jstate' = "none" PROVE ClearsUp
    BY DEF ClearsUp
  <2>1. step = "clear" /\ ClearedUp
    BY <1>2, OnlyClearClears DEF CInv, StepFits
  <2>2. jstate = "targetCleanupPending" \/ jstate \in PostCommit
    BY <1>2, <2>1 DEF CInv, StepFits
  <2>3. ASSUME jstate \in PostCommit, NEW t \in NewRefs PROVE InUse(disk, t)
    <3>1. Committed
      BY <1>2, <2>3 DEF CInv, JournalFits
    <3>2. PICK s \in Moved : t = moved[s]
      BY DEF NewRefs
    <3>3. PICK f \in Affected : before[f] = s
      BY <3>1, <3>2 DEF Committed, Planned
    <3> QED
      BY <3>1, <3>2, <3>3 DEF Committed, AllAfter, InUse, Affected, Slots
  <2> QED
    BY <2>1, <2>2, <2>3 DEF ClearsUp, ClearedUp
<1> QED
  BY CInvInit, <1>1, <1>2, PTL DEF Spec, ClearLeavesNothing

(* A migration or a recovery takes no source away from a connect that has  *)
(* captured it, with or without those windows (SparesConnecting;           *)
(* delete_deletable_profile_secret_sources).                               *)
THEOREM ConnectsAreSpared == Spec => SparesConnecting
<1>1. [Next]_vars => [KeepsCaptured]_vars
  BY CapturedKept
<1> QED
  BY <1>1, PTL DEF Spec, SparesConnecting
============================================================================
