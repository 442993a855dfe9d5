---------------------------- MODULE CredentialStore ----------------------------
(***************************************************************************)
(* Stored credentials: the references of the SessionStore, the secrets in  *)
(* the system keyring and in the portable vault, and the migration of      *)
(* profile secrets from the keyring to the vault with its journal.         *)
(*                                                                         *)
(* PortMate processes share one SQLite store, one keyring and one vault    *)
(* file.  A command that changes credentials holds the credential file     *)
(* lock from beginning to end (state.rs), so at most one is under way;     *)
(* its steps are separated here because the process can die between any    *)
(* two of them and because other processes go on saving the store.         *)
(*                                                                         *)
(* A secret is its reference: an entry is never overwritten while a        *)
(* journal is active, so source and target of a migration cannot differ.   *)
(***************************************************************************)
EXTENDS Naturals, FiniteSets, Functions, TLC

CONSTANTS
    Procs,        \* PortMate processes
    Profiles,     \* session profiles, each with one secret field
    OneKeys,      \* OneKey entries, each with one secret field
    Sources,      \* references into the system keyring (keychain:)
    Targets,      \* references into the portable vault (stronghold:)
    NoRef,        \* an empty secret field
    NoProc,       \* nobody holds the credential lock
    Dialers,      \* bound: the profiles that connect
    MaxEdits,     \* bound: secrets saved, deleted or replaced by hand
    MaxLost,      \* bound: keyring entries lost outside PortMate
    Windows       \* known windows a configuration leaves open (see below)

ASSUME CredentialAssumption ==
    /\ Sources \cap Targets = {}
    /\ Profiles \cap OneKeys = {}
    /\ NoRef \notin Sources \cup Targets
    /\ NoProc \notin Procs
    /\ Dialers \subseteq Profiles
    /\ MaxEdits \in Nat
    /\ MaxLost \in Nat
    /\ Windows \subseteq {"staleDelete", "sharedVerify"}

Slots == Profiles \cup OneKeys
Refs == Sources \cup Targets

JournalStates == {"none", "targetWritePending", "targetsVerified", "profilesCommitted",
                  "sourceCleanupPending", "targetCleanupPending", "needsResolution"}
PreCommit == {"targetWritePending", "targetsVerified", "targetCleanupPending"}
PostCommit == {"profilesCommitted", "sourceCleanupPending"}

Steps == {"idle", "prepare", "write", "reject", "verify", "persist", "checkpoint",
          "deleteSources", "pending", "clear", "undoMark", "undoDelete", "freeze",
          "generate", "commit", "verifyCommit", "cleanup", "rollback"}

VARIABLES
    \* on disk
    disk,      \* per secret field: the reference in the persisted store
    keyring,   \* the sources present in the system keyring
    vault,     \* the secrets in the vault's snapshot file
    made,      \* the snapshot file exists
    jstate,    \* state of the active migration journal
    before,    \* journal payload: per affected profile its old reference
    moved,     \* journal payload: per source its target
    cleanup,   \* journal payload: sources are to be deleted
    lost,      \* keyring entries removed outside PortMate
    \* per process
    mem,       \* the references in the in-memory store
    current,   \* the expected snapshot version is that of the disk
    handle,    \* the vault: locked, current, stale or unknown (after commit)
    view,      \* the secrets in the process's copy of the vault
    conn,      \* the profiles it is connecting
    \* the command that holds the credential lock
    holder, task, step, slot, old, new, generated, touched,
    edits      \* bound: commands by hand so far

diskVars == <<disk, keyring, vault, made, jstate, before, moved, cleanup, lost>>
procVars == <<mem, current, handle, view, conn>>
cmdVars == <<holder, task, step, slot, old, new, generated, touched>>
payload == <<before, moved, cleanup>>
vars == <<diskVars, procVars, cmdVars, edits>>

NoBefore == [f \in Profiles |-> NoRef]
NoMoves == [s \in Sources |-> NoRef]

DiskTypes ==
    /\ disk \in [Slots -> Refs \cup {NoRef}]
    /\ keyring \subseteq Sources /\ vault \subseteq Targets /\ made \in BOOLEAN
    /\ jstate \in JournalStates
    /\ before \in [Profiles -> Sources \cup {NoRef}]
    /\ moved \in [Sources -> Targets \cup {NoRef}]
    /\ cleanup \in BOOLEAN /\ lost \subseteq Sources

ProcTypes ==
    /\ mem \in [Procs -> [Slots -> Refs \cup {NoRef}]]
    /\ current \in [Procs -> BOOLEAN]
    /\ handle \in [Procs -> {"locked", "current", "stale", "unknown"}]
    /\ view \in [Procs -> SUBSET Targets]
    /\ conn \in [Procs -> SUBSET Profiles]

CmdTypes ==
    /\ holder \in Procs \cup {NoProc}
    /\ task \in {"none", "migrate", "recover", "replace"} /\ step \in Steps
    /\ slot \in Slots \cup {NoRef}
    /\ old \in Refs \cup {NoRef} /\ new \in Refs \cup {NoRef}
    /\ generated \in BOOLEAN /\ touched \in BOOLEAN

TypeOK == DiskTypes /\ ProcTypes /\ CmdTypes /\ edits \in 0 .. MaxEdits

\* Old installations: references into the keyring, every one of them present.
Init ==
    /\ disk \in [Slots -> Sources]
    /\ keyring = Sources
    /\ vault = {}
    /\ made = FALSE
    /\ jstate = "none"
    /\ before = NoBefore
    /\ moved = NoMoves
    /\ cleanup = FALSE
    /\ lost = {}
    /\ mem = [p \in Procs |-> disk]
    /\ current = [p \in Procs |-> TRUE]
    /\ handle = [p \in Procs |-> "locked"]
    /\ view = [p \in Procs |-> {}]
    /\ conn = [p \in Procs |-> {}]
    /\ holder = NoProc
    /\ task = "none"
    /\ step = "idle"
    /\ slot = NoRef
    /\ old = NoRef
    /\ new = NoRef
    /\ generated = FALSE
    /\ touched = FALSE
    /\ edits = 0

Present(r) == r \in keyring \cup vault

\* secret_ref_usage_count is not zero.
InUse(store, r) == \E x \in Slots : store[x] = r

\* A reference just made up: no file and no process has seen it.
Unseen(t) ==
    /\ t \notin vault
    /\ ~InUse(disk, t)
    /\ \A p \in Procs : t \notin view[p] /\ ~InUse(mem[p], t)
    /\ \A s \in Sources : moved[s] # t

-------------------------------------------------------------------------------
(* The command lock, the store's versions and the vault's versions. *)

At(p, t, s) == holder = p /\ task = t /\ step = s
Goto(s) == step' = s /\ UNCHANGED <<holder, task, slot, old, new, generated, touched>>
Begin(p, t, s) ==
    /\ holder = NoProc
    /\ holder' = p
    /\ task' = t
    /\ step' = s
    /\ touched' = FALSE
Release ==
    /\ holder' = NoProc
    /\ task' = "none"
    /\ step' = "idle"
    /\ slot' = NoRef
    /\ old' = NoRef
    /\ new' = NoRef
    /\ generated' = FALSE
    /\ touched' = FALSE

\* A commit makes the version the other processes expect an old one; the one
\* that commits learns the new version unless it cannot be read back.
Published(p, readBack) == current' = [q \in Procs |-> q = p /\ readBack]

\* An unrelated save by p, which must not be inside a command of its own.
UnrelatedSave(p) ==
    /\ holder # p
    /\ current[p]
    /\ step = "verifyCommit" => "sharedVerify" \in Windows
    /\ Published(p, TRUE)
    /\ touched' = (holder # NoProc)

\* PortableStronghold::save with contents v: refused unless the snapshot is
\* the one this process loaded.
Save(p, v, readBack) ==
    /\ handle[p] = "current"
    /\ vault' = v
    /\ view' = [view EXCEPT ![p] = v]
    /\ handle' = [q \in Procs |-> IF q = p THEN IF readBack THEN "current" ELSE "unknown"
                                  ELSE IF handle[q] = "current" THEN "stale" ELSE handle[q]]

vaultVars == <<vault, view, handle>>

-------------------------------------------------------------------------------
(* Vault commands; each is one step under the credential lock. *)

CreateVault(p) ==
    /\ holder = NoProc
    /\ handle[p] = "locked"
    /\ ~made
    /\ made' = TRUE
    /\ vault' = {}
    /\ view' = [view EXCEPT ![p] = {}]
    /\ handle' = [handle EXCEPT ![p] = "current"]
    /\ UNCHANGED <<disk, keyring, jstate, payload, lost, mem, current, conn, cmdVars, edits>>

UnlockVault(p) ==
    /\ holder = NoProc
    /\ made
    /\ view' = [view EXCEPT ![p] = vault]
    /\ handle' = [handle EXCEPT ![p] = "current"]
    /\ UNCHANGED <<diskVars, mem, current, conn, cmdVars, edits>>

LockVault(p) ==
    /\ holder = NoProc
    /\ handle[p] # "locked"
    /\ view' = [view EXCEPT ![p] = {}]
    /\ handle' = [handle EXCEPT ![p] = "locked"]
    /\ UNCHANGED <<diskVars, mem, current, conn, cmdVars, edits>>

RotateVaultPassword(p) ==
    /\ holder = NoProc
    /\ jstate = "none"
    /\ \E readBack \in BOOLEAN : Save(p, view[p], readBack)
    /\ UNCHANGED <<disk, keyring, made, jstate, payload, lost, mem, current, conn, cmdVars, edits>>

Edit == edits < MaxEdits /\ edits' = edits + 1

\* save_secret: a new secret that no field refers to yet.
SaveSecret(p) ==
    /\ Edit
    /\ holder = NoProc
    /\ jstate = "none"
    /\ \E t \in Targets, readBack \in BOOLEAN :
         Unseen(t) /\ Save(p, view[p] \cup {t}, readBack)
    /\ UNCHANGED <<disk, keyring, made, jstate, payload, lost, mem, current, conn, cmdVars>>

\* delete_secret: only the in-memory store is asked whether r is in use.
DeleteSecret(p, r) ==
    /\ Edit
    /\ holder = NoProc
    /\ jstate = "none"
    /\ ~InUse(mem[p], r)
    /\ current[p] \/ "staleDelete" \in Windows
    /\ Present(r)
    /\ \/ /\ r \in Sources
          /\ keyring' = keyring \ {r}
          /\ UNCHANGED vaultVars
       \/ /\ r \in Targets
          /\ \E readBack \in BOOLEAN : Save(p, view[p] \ {r}, readBack)
          /\ UNCHANGED keyring
    /\ UNCHANGED <<disk, made, jstate, payload, lost, mem, current, conn, cmdVars>>

-------------------------------------------------------------------------------
(* Connecting copies the profile, references included, in the critical     *)
(* section that marks the session Connecting; its secrets are read later.  *)
(* Both ends of it save the store.                                         *)

BeginConnect(p, f) ==
    /\ UnrelatedSave(p)
    /\ f \notin conn[p]
    /\ conn' = [conn EXCEPT ![p] = @ \cup {f}]
    /\ UNCHANGED <<diskVars, mem, handle, view, holder, task, step, slot, old, new, generated, edits>>

EndConnect(p, f) ==
    /\ UnrelatedSave(p)
    /\ f \in conn[p]
    /\ conn' = [conn EXCEPT ![p] = @ \ {f}]
    /\ UNCHANGED <<diskVars, mem, handle, view, holder, task, step, slot, old, new, generated, edits>>

\* The process dies, its locks with it, and starts again from the disk.
Restart(p) ==
    /\ mem' = [mem EXCEPT ![p] = disk]
    /\ current' = [current EXCEPT ![p] = TRUE]
    /\ handle' = [handle EXCEPT ![p] = "locked"]
    /\ view' = [view EXCEPT ![p] = {}]
    /\ conn' = [conn EXCEPT ![p] = {}]
    /\ IF holder = p
         THEN /\ Release
              /\ IF jstate = "none"
                   THEN before' = NoBefore /\ moved' = NoMoves /\ cleanup' = FALSE
                   ELSE UNCHANGED payload
         ELSE UNCHANGED <<cmdVars, payload>>
    /\ UNCHANGED <<disk, keyring, vault, made, jstate, lost, edits>>

\* The user removes an entry with the tools of the operating system (without
\* a journal the next migration would only refuse to begin).
LoseEntry(s) ==
    /\ s \in keyring
    /\ jstate # "none"
    /\ Cardinality(lost) < MaxLost
    /\ keyring' = keyring \ {s}
    /\ lost' = lost \cup {s}
    /\ UNCHANGED <<disk, vault, made, jstate, payload, procVars, cmdVars, edits>>

-------------------------------------------------------------------------------
(* Changing the reference of one field: a profile save with a proxy        *)
(* password, an identity rotation, a OneKey save, or the removal of any of *)
(* them (new = NoRef).  The secret is written before the store and the     *)
(* replaced one is deleted after it.                                       *)

Readable(p, r) == r \in keyring \/ (handle[p] = "current" /\ r \in view[p])

BeginReplace(p, x) ==
    /\ Edit
    /\ jstate = "none"
    /\ slot' = x
    /\ old' = mem[p][x]
    /\ \/ /\ \E t \in Targets : Unseen(t) /\ new' = t
          /\ generated' = TRUE
          /\ Begin(p, "replace", "generate")
       \/ /\ \E r \in Refs : Readable(p, r) /\ r # mem[p][x] /\ new' = r
          /\ generated' = FALSE
          /\ Begin(p, "replace", "commit")
       \/ /\ mem[p][x] # NoRef
          /\ new' = NoRef
          /\ generated' = FALSE
          /\ Begin(p, "replace", "commit")
    /\ UNCHANGED <<diskVars, procVars>>

Generate(p) ==
    /\ At(p, "replace", "generate")
    /\ \/ /\ \E readBack \in BOOLEAN : Save(p, view[p] \cup {new}, readBack)
          /\ Goto("commit")
       \/ Release /\ UNCHANGED vaultVars
    /\ UNCHANGED <<disk, keyring, made, jstate, payload, lost, mem, current, conn, edits>>

Replaced(p) == [mem[p] EXCEPT ![slot] = new]

\* commit_store_mutation_state: saved; an error before anything was written;
\* an error although the store was written.
CommitReplace(p) ==
    /\ At(p, "replace", "commit")
    /\ \/ /\ current[p]
          /\ disk' = Replaced(p)
          /\ \/ /\ mem' = [mem EXCEPT ![p] = Replaced(p)]
                /\ Published(p, TRUE)
                /\ Goto("cleanup")
             \/ /\ Published(p, FALSE)
                /\ Goto("verifyCommit")
                /\ UNCHANGED mem
       \/ /\ Goto("rollback")
          /\ UNCHANGED <<disk, mem, current>>
    /\ UNCHANGED <<keyring, vault, made, jstate, payload, lost, handle, view, conn, edits>>

\* verify_persisted_store_commit compares whole stores, so a save by another
\* process in between (touched) looks like a commit that did not happen.  An
\* unreadable store leaves the outcome unknown.
\* Mutant: an unknown outcome is treated as a failure.
VerifyUnknownAsFailure(p) ==
    /\ At(p, "replace", "verifyCommit")
    /\ \/ /\ ~touched
          /\ mem' = [mem EXCEPT ![p] = Replaced(p)]
          /\ current' = [current EXCEPT ![p] = TRUE]
          /\ Goto("cleanup")
       \/ /\ Goto("rollback")
          /\ UNCHANGED <<mem, current>>
    /\ UNCHANGED <<diskVars, handle, view, conn, edits>>

VerifyReplace(p) ==
    /\ At(p, "replace", "verifyCommit")
    /\ \/ /\ ~touched
          /\ mem' = [mem EXCEPT ![p] = Replaced(p)]
          /\ current' = [current EXCEPT ![p] = TRUE]
          /\ Goto("cleanup")
       \/ /\ touched
          /\ Goto("rollback")
          /\ UNCHANGED <<mem, current>>
       \/ Release /\ UNCHANGED <<mem, current>>
    /\ UNCHANGED <<diskVars, handle, view, conn, edits>>

\* Deleting one secret, if the provider lets it happen.
Discard(p, r) ==
    \/ r \in Sources /\ keyring' = keyring \ {r} /\ UNCHANGED vaultVars
    \/ /\ r \in Targets
       /\ \E readBack \in BOOLEAN : Save(p, view[p] \ {r}, readBack)
       /\ UNCHANGED keyring
    \/ UNCHANGED <<keyring, vaultVars>>

CleanupReplaced(p) ==
    /\ At(p, "replace", "cleanup")
    /\ IF old # NoRef /\ ~InUse(mem[p], old)
         THEN Discard(p, old)
         ELSE UNCHANGED <<keyring, vaultVars>>
    /\ Release
    /\ UNCHANGED <<disk, made, jstate, payload, lost, mem, current, conn, edits>>

RollbackReplace(p) ==
    /\ At(p, "replace", "rollback")
    /\ IF generated THEN Discard(p, new) ELSE UNCHANGED <<keyring, vaultVars>>
    /\ Release
    /\ UNCHANGED <<disk, made, jstate, payload, lost, mem, current, conn, edits>>

-------------------------------------------------------------------------------
(* The migration journal. *)

\* journal_transition_allowed
TransitionAllowed(from, to) ==
    \/ from = to
    \/ from = "targetWritePending" /\ to \in {"targetsVerified", "targetCleanupPending", "needsResolution"}
    \/ from = "targetsVerified" /\ to \in {"targetCleanupPending", "needsResolution"}
    \/ from = "profilesCommitted" /\ to \in {"sourceCleanupPending", "needsResolution"}
    \/ from \in {"sourceCleanupPending", "targetCleanupPending"} /\ to = "needsResolution"

\* persist_profile_secret_migration_journal_event: written and verified;
\* written, but reported as an error; not written (a stale version included).
Recorded(p, to) == current[p] /\ jstate' = to /\ Published(p, TRUE)
RecordedLate(p, to) == current[p] /\ jstate' = to /\ Published(p, FALSE)
NotRecorded == UNCHANGED <<jstate, current>>

Transition(p, to) == TransitionAllowed(jstate, to) /\ Recorded(p, to)
TransitionFails(p, to) ==
    \/ TransitionAllowed(jstate, to) /\ RecordedLate(p, to)
    \/ NotRecorded

ForgetPayload == before' = NoBefore /\ moved' = NoMoves /\ cleanup' = FALSE

Moved == {s \in Sources : moved[s] # NoRef}
NewRefs == {moved[s] : s \in Moved}
Affected == {f \in Profiles : before[f] # NoRef}

\* next_store: the selected profiles with their references replaced.
After(store) ==
    [x \in Slots |-> IF x \in Profiles /\ before[x] # NoRef THEN moved[before[x]] ELSE store[x]]

\* A connect of p under way may still read this source.
InFlight(p, s) == \E f \in Affected : before[f] = s /\ f \in conn[p]
Unreferenced(p) == {s \in Moved : ~InUse(mem[p], s)}
\* Mutant: a connect under way is not asked for.
DeletableWhileConnecting(p) == IF cleanup THEN Unreferenced(p) ELSE {}

Deletable(p) ==
    IF cleanup THEN {s \in Unreferenced(p) : ~InFlight(p, s)} ELSE {}
Deferred(p) ==
    IF cleanup THEN {s \in Unreferenced(p) : s \in keyring /\ InFlight(p, s)} ELSE {}

-------------------------------------------------------------------------------
(* migrate_profile_secrets *)

BeginMigrate(p) ==
    /\ current[p]
    /\ jstate = "none"
    /\ handle[p] = "current"
    /\ \E sel \in SUBSET Profiles, clean \in BOOLEAN :
         LET plan == [f \in Profiles |->
                        IF f \in sel /\ mem[p][f] \in Sources THEN mem[p][f] ELSE NoRef]
             refs == {plan[f] : f \in Profiles} \ {NoRef}
         IN /\ refs # {}
            /\ refs \subseteq keyring
            /\ before' = plan
            /\ cleanup' = clean
            /\ \E fresh \in Injection(refs, {t \in Targets : Unseen(t)}) :
                 moved' = [s \in Sources |-> IF s \in refs THEN fresh[s] ELSE NoRef]
    /\ Begin(p, "migrate", "prepare")
    /\ UNCHANGED <<disk, keyring, vault, made, jstate, lost, procVars, slot, old, new, generated, edits>>

Prepare(p) ==
    /\ At(p, "migrate", "prepare")
    /\ \/ Recorded(p, "targetWritePending") /\ Goto("write") /\ UNCHANGED payload
       \/ RecordedLate(p, "targetWritePending") /\ Release /\ UNCHANGED payload
       \/ NotRecorded /\ Release /\ ForgetPayload
    /\ UNCHANGED <<disk, keyring, vault, made, lost, mem, handle, view, conn, edits>>

\* An unknown vault version after the write gives the migration up as well.
WriteTargets(p) ==
    /\ At(p, "migrate", "write")
    /\ \/ Save(p, view[p] \cup NewRefs, TRUE) /\ Goto("verify")
       \/ Save(p, view[p] \cup NewRefs, FALSE) /\ Goto("reject")
       \/ UNCHANGED vaultVars /\ Goto("reject")
    /\ UNCHANGED <<disk, keyring, made, jstate, payload, lost, mem, current, conn, edits>>

RejectTargets(p) ==
    /\ At(p, "migrate", "reject")
    /\ Transition(p, "targetCleanupPending") \/ TransitionFails(p, "targetCleanupPending")
    /\ Release
    /\ UNCHANGED <<disk, keyring, vault, made, payload, lost, mem, handle, view, conn, edits>>

VerifyTargets(p) ==
    /\ At(p, "migrate", "verify")
    /\ \/ Transition(p, "targetsVerified") /\ Goto("persist")
       \/ TransitionFails(p, "targetsVerified") /\ Release
    /\ UNCHANGED <<disk, keyring, vault, made, payload, lost, mem, handle, view, conn, edits>>

\* Profiles and journal state change in one transaction.
\* Mutant: the journal's state is not part of the transaction.
PersistWithoutCheckpoint(p) ==
    /\ At(p, "migrate", "persist")
    /\ current[p]
    /\ disk' = After(mem[p])
    /\ mem' = [mem EXCEPT ![p] = disk']
    /\ Published(p, TRUE)
    /\ Goto("checkpoint")
    /\ UNCHANGED <<keyring, vault, made, jstate, payload, lost, handle, view, conn, edits>>

Persist(p) ==
    /\ At(p, "migrate", "persist")
    /\ \/ /\ current[p]
          /\ disk' = After(mem[p])
          /\ jstate' = "profilesCommitted"
          /\ \/ /\ \E readBack \in BOOLEAN : Published(p, readBack)
                /\ mem' = [mem EXCEPT ![p] = After(mem[p])]
                /\ Goto("checkpoint")
             \/ /\ Published(p, FALSE)
                /\ UNCHANGED mem
                /\ Release
       \/ /\ UNCHANGED <<disk, jstate, mem, current>>
          /\ Goto("undoMark") \/ Release
    /\ UNCHANGED <<keyring, vault, made, payload, lost, handle, view, conn, edits>>

Checkpoint(p) ==
    /\ step = "checkpoint" /\ holder = p
    /\ \/ Transition(p, "sourceCleanupPending") /\ Goto("deleteSources")
       \/ /\ TransitionFails(p, "sourceCleanupPending")
          /\ IF task = "migrate" THEN Goto("pending") ELSE Release
    /\ UNCHANGED <<disk, keyring, vault, made, payload, lost, mem, handle, view, conn, edits>>

DeleteSources(p) ==
    /\ step = "deleteSources" /\ holder = p
    /\ \E gone \in SUBSET Deletable(p) :
         /\ keyring' = keyring \ gone
         /\ IF gone = Deletable(p) /\ Deferred(p) = {} THEN Goto("clear")
            ELSE IF task = "migrate" THEN Goto("pending") ELSE Release
    /\ UNCHANGED <<disk, vault, made, jstate, payload, lost, procVars, edits>>

KeepPending(p) ==
    /\ At(p, "migrate", "pending")
    /\ Transition(p, "sourceCleanupPending") \/ TransitionFails(p, "sourceCleanupPending")
    /\ Release
    /\ UNCHANGED <<disk, keyring, vault, made, payload, lost, mem, handle, view, conn, edits>>

UndoMark(p) ==
    /\ step = "undoMark" /\ holder = p
    /\ \/ Transition(p, "targetCleanupPending") /\ Goto("undoDelete")
       \/ TransitionFails(p, "targetCleanupPending") /\ Release
    /\ UNCHANGED <<disk, keyring, vault, made, payload, lost, mem, handle, view, conn, edits>>

UndoDelete(p) ==
    /\ step = "undoDelete" /\ holder = p
    /\ \/ view[p] \cap NewRefs = {} /\ UNCHANGED vaultVars /\ Goto("clear")
       \/ Save(p, view[p] \ NewRefs, TRUE) /\ Goto("clear")
       \/ Save(p, view[p] \ NewRefs, FALSE) /\ Release
       \/ UNCHANGED vaultVars /\ Release
    /\ UNCHANGED <<disk, keyring, made, jstate, payload, lost, mem, current, conn, edits>>

Clear(p) ==
    /\ step = "clear" /\ holder = p
    /\ \/ (Recorded(p, "none") \/ RecordedLate(p, "none")) /\ ForgetPayload
       \/ NotRecorded /\ UNCHANGED payload
    /\ Release
    /\ UNCHANGED <<disk, keyring, vault, made, lost, mem, handle, view, conn, edits>>

-------------------------------------------------------------------------------
(* recover_profile_secret_migration *)

AllBefore(store) == \A f \in Affected : store[f] = before[f]
AllAfter(store) == \A f \in Affected : store[f] = moved[before[f]]

\* profile_secret_migration_disposition
Disposition(store) ==
    IF AllBefore(store) /\ ~AllAfter(store) /\ jstate \in PreCommit THEN "notCommitted"
    ELSE IF AllAfter(store) /\ ~AllBefore(store) /\ jstate \in PostCommit THEN "committed"
    ELSE "conflict"

\* Something is missing or does not match: both sides are frozen.
Unsafe(p) ==
    \/ Disposition(mem[p]) = "conflict" /\ jstate # "needsResolution"
    \/ Disposition(mem[p]) = "notCommitted" /\ ~(Moved \subseteq keyring)
    \/ Disposition(mem[p]) = "notCommitted" /\ \E t \in NewRefs : InUse(mem[p], t)
    \/ Disposition(mem[p]) = "committed" /\ handle[p] = "current" /\ ~(NewRefs \subseteq view[p])

BeginRecover(p) ==
    /\ current[p]
    /\ jstate # "none"
    /\ IF Unsafe(p) THEN Begin(p, "recover", "freeze")
       ELSE /\ handle[p] = "current"
            /\ \/ Disposition(mem[p]) = "notCommitted" /\ Begin(p, "recover", "undoMark")
               \/ /\ Disposition(mem[p]) = "committed"
                  /\ Begin(p, "recover", IF cleanup THEN "checkpoint" ELSE "clear")
    /\ UNCHANGED <<diskVars, procVars, slot, old, new, generated, edits>>

Freeze(p) ==
    /\ At(p, "recover", "freeze")
    /\ Transition(p, "needsResolution") \/ TransitionFails(p, "needsResolution")
    /\ Release
    /\ UNCHANGED <<disk, keyring, vault, made, payload, lost, mem, handle, view, conn, edits>>

-------------------------------------------------------------------------------
CommandStep(p) ==
    \/ Generate(p) \/ CommitReplace(p) \/ VerifyReplace(p)
    \/ CleanupReplaced(p) \/ RollbackReplace(p)
    \/ Prepare(p) \/ WriteTargets(p) \/ RejectTargets(p) \/ VerifyTargets(p)
    \/ Persist(p) \/ Checkpoint(p) \/ DeleteSources(p) \/ KeepPending(p)
    \/ UndoMark(p) \/ UndoDelete(p) \/ Clear(p) \/ Freeze(p)

Next ==
    \/ \E p \in Procs :
         \/ CreateVault(p) \/ UnlockVault(p) \/ LockVault(p) \/ RotateVaultPassword(p)
         \/ SaveSecret(p) \/ (\E r \in Refs : DeleteSecret(p, r))
         \/ (\E f \in Dialers : BeginConnect(p, f) \/ EndConnect(p, f))
         \/ (\E x \in Slots : BeginReplace(p, x))
         \/ BeginMigrate(p) \/ BeginRecover(p)
         \/ CommandStep(p)
         \/ Restart(p)
    \/ \E s \in Sources : LoseEntry(s)

Spec == Init /\ [][Next]_vars

-------------------------------------------------------------------------------
(* Properties. *)

\* Whatever fails or dies, the secret of every reference in the persisted
\* store exists (unless the user took it out of the keyring himself): targets
\* are written before the references move and sources, replaced and rolled
\* back secrets are deleted only when no reference on disk is left.
NoDangling ==
    \A x \in Slots : disk[x] # NoRef => Present(disk[x]) \/ disk[x] \in lost

\* A journal that is still active can always be resolved: profiles and journal
\* agree on which side of the commit they are, and the secrets of that side
\* are there.  Only a loss outside PortMate ever freezes a migration.
Recoverable ==
    jstate # "none" =>
        \/ jstate \in PreCommit /\ AllBefore(disk) /\ Moved \subseteq keyring \cup lost
        \/ jstate \in PostCommit /\ AllAfter(disk) /\ NewRefs \subseteq vault
        \/ jstate = "needsResolution" /\ lost # {}

\* When a journal disappears, the migration has left nothing behind: its
\* targets are referenced or deleted, and after a commit with cleanup so are
\* its sources.
ClearsUp ==
    jstate # "none" /\ jstate' = "none" =>
        /\ \A t \in NewRefs : InUse(disk, t) \/ t \notin vault
        /\ jstate \in PostCommit /\ cleanup => \A s \in Moved : InUse(disk, s) \/ s \notin keyring

ClearLeavesNothing == [][ClearsUp]_vars

\* A migration or its recovery never deletes a source that a connect of the
\* same process captured from an affected profile and has not used yet.
KeepsCaptured ==
    holder # NoProc /\ task \in {"migrate", "recover"} =>
        \A f \in Affected \cap conn[holder] :
            before[f] \in keyring => before[f] \in keyring' \cup lost'

SparesConnecting == [][KeepsCaptured]_vars

-----------------------------------------------------------------------------
\* For TLC: processes, sources and targets are interchangeable, and a copy of
\* the vault that is not current is never read nor saved.
Symmetry ==
    Permutations(Procs) \cup Permutations(Sources) \cup Permutations(Targets)
UsableView == [p \in Procs |-> IF handle[p] = "current" THEN view[p] ELSE {}]
WithoutStaleViews ==
    <<diskVars, mem, current, handle, UsableView, conn, cmdVars, edits>>
=============================================================================
