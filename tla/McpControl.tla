---------------------------- MODULE McpControl ----------------------------
(***************************************************************************)
(* What the desktop lets an MCP client do.                                 *)
(*                                                                         *)
(* A write of a client is audited before anything else happens, asks the   *)
(* user when the client's grant says so, is checked again after the answer *)
(* and once more under the session's outbound lane, is performed and its   *)
(* outcome is audited.  The user answers while the request's deadline runs *)
(* out, the grant is changed, expires or is revoked, the target is edited  *)
(* or deleted, and saving fails.                                           *)
(*                                                                         *)
(* The HTTP bridge is a child process that serves one client, the bound    *)
(* one, to whoever holds the token.  Grants, the binding, the token and    *)
(* the process change under one mutex, but grants also expire by           *)
(* themselves and with the session they were limited to; a watcher per     *)
(* process retires it when the bound client has no grant left.             *)
(***************************************************************************)
EXTENDS Naturals, FiniteSets

CONSTANTS
    Clients,        \* MCP clients
    Writes,         \* write requests
    MaxPending,     \* MAX_PENDING_MCP_APPROVALS
    None,           \* no client, process or token
    Budgets         \* bounds of a behaviour, one of which it keeps to

(* Clients with grants, writes asked, grant changes, edits of the target,  *)
(* starts of the bridge, and ends of the application; whether the writes   *)
(* run a custom script, and else go to a session.                          *)
BudgetShape == [clients : SUBSET Clients, writes : SUBSET Writes, changes : Nat, edits : Nat,
                starts : Nat, crashes : Nat, script : BOOLEAN]

ASSUME BoundsAssumption ==
    /\ MaxPending \in Nat \ {0}
    /\ None \notin Clients
    /\ \A b \in Budgets : b \in BudgetShape

VARIABLES
    budget,     \* the bounds of this behaviour
    used,       \* how much of them is used up
    grant,      \* each client's grant: in force, asks for confirmation
    episode,    \* auxiliary: how often each grant came into force
    target,     \* version of the session or script written to, 0 when deleted
    write,      \* progress of each write
    pending,    \* writes in pending_mcp_approvals
    audit,      \* persisted audit record of each write
    ran,        \* auxiliary: version of the target each write ran on, 0 if none
    bound,      \* client of the persisted HTTP settings
    token,      \* the stored token and what it was made for
    keyring,    \* the credential store answers
    bridge,     \* the registered process
    retiring,   \* process whose token is still to be deleted, 0 when none
    watchers,   \* processes whose expiry worker runs
    starting,   \* processes whose start still waits
    probe       \* a readiness probe under way and what it saw

policy == <<grant, episode>>
writing == <<write, pending, audit, ran>>
process == <<bridge, retiring, watchers, starting, probe>>
vars == <<budget, used, grant, episode, target, write, pending, audit, ran,
          bound, token, keyring, bridge, retiring, watchers, starting, probe>>

NoGrant   == [active |-> FALSE, confirm |-> FALSE]
(* "said" is auxiliary: the user approved the write before its deadline.    *)
NoWrite   == [at |-> "idle", client |-> None, version |-> 0, asked |-> FALSE,
              late |-> FALSE, answer |-> "none", said |-> FALSE]
NoProcess == [owner |-> 0, client |-> None, ready |-> FALSE, listening |-> FALSE,
              dead |-> FALSE]
NoProbe   == [owner |-> 0, ready |-> FALSE]

Init ==
    /\ budget \in Budgets
    /\ used = [changes |-> 0, edits |-> 0, starts |-> 0, crashes |-> 0]
    /\ grant = [c \in Clients |-> NoGrant]
    /\ episode = [c \in Clients |-> 0]
    /\ target = 1
    /\ write = [w \in Writes |-> NoWrite]
    /\ pending = {}
    /\ audit = [w \in Writes |-> "none"]
    /\ ran = [w \in Writes |-> 0]
    /\ bound \in budget.clients
    /\ token = None /\ keyring = TRUE
    /\ bridge = NoProcess /\ retiring = 0
    /\ watchers = {} /\ starting = {} /\ probe = NoProbe

Use(what) ==
    /\ used[what] < budget[what]
    /\ used' = [used EXCEPT ![what] = @ + 1]

----------------------------------------------------------------------------
(* The write path: handle_ipc_request.                                     *)

Put(w, rec) == write' = [write EXCEPT ![w] = rec]
To(w, at)   == Put(w, [write[w] EXCEPT !.at = at])
Done(w)     == Put(w, [NoWrite EXCEPT !.at = "done"])

(* Saving the audit record succeeds, or fails, and then the record may     *)
(* have reached the disk all the same.                                     *)
Audited(w, decision)    == audit' = [audit EXCEPT ![w] = decision]
AuditFails(w, decision) == Audited(w, decision) \/ UNCHANGED audit

(* validate_ipc_write_args and capture_mcp_write_execution_context; a      *)
(* request without a valid target is audited as invalid.                   *)
Submit(w, c) ==
    /\ w \in budget.writes /\ write[w].at = "idle"
    /\ IF target # 0
       THEN /\ Put(w, [NoWrite EXCEPT !.at = "captured", !.client = c, !.version = target])
            /\ UNCHANGED audit
       ELSE /\ Done(w) /\ AuditFails(w, "invalid")
    /\ UNCHANGED <<budget, used, policy, target, pending, ran, bound, token,
                   keyring, process>>

(* begin_mcp_write_audit decides and records under the store lock. *)
BeginAudit(w) ==
    LET g == grant[write[w].client]
    IN  /\ write[w].at = "captured"
        /\ \/ /\ g.active /\ g.confirm
              /\ Audited(w, "pending-approval")
              /\ Put(w, [write[w] EXCEPT !.at = "ask", !.asked = TRUE])
           \/ /\ g.active /\ ~g.confirm
              /\ Audited(w, "authorized") /\ To(w, "authorized")
           \/ /\ ~g.active
              /\ AuditFails(w, "denied") /\ Done(w)
           \/ /\ g.active
              /\ AuditFails(w, IF g.confirm THEN "pending-approval" ELSE "authorized")
              /\ Done(w)
        /\ UNCHANGED <<budget, used, policy, target, pending, ran, bound, token,
                       keyring, process>>

(* await_mcp_approval_with_emitter: a full list or a window that cannot be *)
(* told makes the approval unavailable.                                    *)
Ask(w) ==
    /\ write[w].at = "ask"
    /\ \/ /\ Cardinality(pending) < MaxPending /\ ~write[w].late
          /\ pending' = pending \cup {w}
          /\ To(w, "waiting")
       \/ To(w, "refused") /\ UNCHANGED pending
    /\ UNCHANGED <<budget, used, policy, target, audit, ran, bound, token,
                   keyring, process>>

(* The request's absolute deadline passes. *)
DeadlinePasses(w) ==
    /\ write[w].at \in {"ask", "waiting"} /\ ~write[w].late
    /\ Put(w, [write[w] EXCEPT !.late = TRUE])
    /\ UNCHANGED <<budget, used, policy, target, pending, audit, ran, bound,
                   token, keyring, process>>

(* respond_mcp_approval_inner: the entry is removed by whoever answers     *)
(* first; a late approval is a refusal; a requester that gave up is told   *)
(* nothing.                                                                *)
Respond(w, approved) ==
    /\ w \in pending
    /\ pending' = pending \ {w}
    /\ IF write[w].at = "waiting"
       THEN Put(w, [write[w] EXCEPT !.answer =
                        IF approved /\ ~write[w].late THEN "yes" ELSE "no",
                                    !.said = approved /\ ~write[w].late])
       ELSE UNCHANGED write
    /\ UNCHANGED <<budget, used, policy, target, audit, ran, bound, token, keyring,
                   process>>

\* Mutant: the requester waits for another while.
TimerRestarts(w) ==
    /\ write[w].at = "waiting" /\ write[w].late /\ write[w].answer = "none"
    /\ Put(w, [write[w] EXCEPT !.late = FALSE])
    /\ UNCHANGED <<budget, used, policy, target, pending, audit, ran, bound, token,
                   keyring, process>>

(* The requester gets the answer, and looks at the deadline again. *)
Receive(w) ==
    /\ write[w].at = "waiting" /\ write[w].answer # "none"
    /\ To(w, IF write[w].answer = "yes" /\ ~write[w].late THEN "approved" ELSE "refused")
    /\ UNCHANGED <<budget, used, policy, target, pending, audit, ran, bound,
                   token, keyring, process>>

(* The timer fires; then the entry is removed, unless it was answered in   *)
(* between.                                                                *)
TimeOut(w) ==
    /\ write[w].at = "waiting" /\ write[w].late /\ write[w].answer = "none"
    /\ To(w, "expired")
    /\ UNCHANGED <<budget, used, policy, target, pending, audit, ran, bound,
                   token, keyring, process>>

Forget(w) ==
    /\ write[w].at = "expired"
    /\ pending' = pending \ {w}
    /\ To(w, "refused")
    /\ UNCHANGED <<budget, used, policy, target, audit, ran, bound, token,
                   keyring, process>>

(* finish_mcp_write_audit: an approval that cannot be recorded is not used. *)
FinishApproval(w) ==
    /\ write[w].at \in {"approved", "refused"}
    /\ \/ /\ write[w].at = "approved"
          /\ Audited(w, "authorized") /\ To(w, "authorized")
       \/ /\ write[w].at = "approved"
          /\ AuditFails(w, "authorized") /\ Done(w)
       \/ /\ write[w].at = "refused"
          /\ AuditFails(w, "denied") /\ Done(w)
    /\ UNCHANGED <<budget, used, policy, target, pending, ran, bound, token,
                   keyring, process>>

(* revalidate_ipc_write_target_with_context: the grant still allows it and *)
(* the target is what was captured.                                        *)
Valid(w) == grant[write[w].client].active /\ target = write[w].version

Revalidate(w) ==
    /\ write[w].at = "authorized"
    /\ To(w, IF Valid(w) THEN "lane" ELSE "finish")
    /\ UNCHANGED <<budget, used, policy, target, pending, audit, ran, bound,
                   token, keyring, process>>

\* Mutant: what was valid before the wait for the lane is still valid.
CommitUnchecked(w) ==
    /\ write[w].at = "lane"
    /\ To(w, "commit")
    /\ ran' = [ran EXCEPT ![w] = target]
    /\ UNCHANGED <<budget, used, policy, target, pending, audit, bound, token,
                   keyring, process>>

(* The commit validation, once the outbound lane is held, or the wait for  *)
(* it was too long; then the write uses what it just validated.            *)
Commit(w) ==
    /\ write[w].at = "lane"
    /\ \/ /\ Valid(w)
          /\ To(w, "commit")
          /\ ran' = [ran EXCEPT ![w] = target]
       \/ To(w, "finish") /\ UNCHANGED ran
    /\ UNCHANGED <<budget, used, policy, target, pending, audit, bound, token,
                   keyring, process>>

(* finish_applied_mcp_write_audit: the outcome is recorded, or only kept   *)
(* in memory.                                                              *)
FinishApplied(w) ==
    /\ write[w].at \in {"commit", "finish"}
    /\ \/ write[w].at = "commit" /\ AuditFails(w, "succeeded")
       \/ AuditFails(w, "failed")
    /\ Done(w)
    /\ UNCHANGED <<budget, used, policy, target, pending, ran, bound, token,
                   keyring, process>>

----------------------------------------------------------------------------
(* The target changes.  A script that is saved gets a new version; of a    *)
(* session only its deletion counts.                                       *)

EditTarget ==
    /\ Use("edits") /\ target # 0 /\ budget.script
    /\ target' = target + 1
    /\ UNCHANGED <<budget, policy, writing, bound, token, keyring, process>>

DeleteScript ==
    /\ Use("edits") /\ target # 0 /\ budget.script
    /\ target' = 0
    /\ UNCHANGED <<budget, policy, writing, bound, token, keyring, process>>

(* Deleting a session refuses what waits for it, and revokes the grants    *)
(* that were limited to it; nothing else of the bridge is touched.         *)
DeleteSession ==
    /\ Use("edits") /\ target # 0 /\ ~budget.script
    /\ target' = 0
    /\ \E limited \in SUBSET {c \in Clients : grant[c].active} :
         grant' = [c \in Clients |-> IF c \in limited THEN NoGrant ELSE grant[c]]
    /\ pending' = {}
    /\ write' = [w \in Writes |->
                   IF w \in pending /\ write[w].at = "waiting"
                   THEN [write[w] EXCEPT !.answer = "no"] ELSE write[w]]
    /\ UNCHANGED <<budget, episode, audit, ran, bound, token, keyring, process>>

----------------------------------------------------------------------------
(* Grants.  mutate_mcp_grant holds the registry's and the store's mutex.   *)

(* stop_mcp_http_runtime_locked. *)
StopBridge == bridge' = NoProcess /\ retiring' = 0

(* reap_mcp_http_process: a process that ended leaves the registry. *)
Reaped == IF bridge.dead THEN NoProcess ELSE bridge

\* Mutant: a renewed grant leaves the bridge and its token alone.
SaveGrantOnly(c, confirm) ==
    /\ Use("changes")
    /\ grant' = [grant EXCEPT ![c] = [active |-> TRUE, confirm |-> confirm]]
    /\ episode' = IF grant[c].active THEN episode ELSE [episode EXCEPT ![c] = @ + 1]
    /\ UNCHANGED <<budget, target, writing, bound, token, keyring, process>>

(* A grant that takes effect again for the bound client first stops the    *)
(* bridge and deletes the token; then it is saved, or saving fails.        *)
SaveGrant(c, confirm) ==
    LET renews == bound = c /\ ~grant[c].active
    IN  /\ Use("changes")
        /\ IF renews THEN StopBridge ELSE UNCHANGED <<bridge, retiring>>
        /\ \/ /\ renews => keyring
              /\ grant' = [grant EXCEPT ![c] = [active |-> TRUE, confirm |-> confirm]]
              /\ episode' = IF grant[c].active THEN episode
                            ELSE [episode EXCEPT ![c] = @ + 1]
              /\ token' = IF renews THEN None ELSE token
           \/ /\ token' = IF renews /\ keyring THEN None ELSE token
              /\ UNCHANGED policy
        /\ UNCHANGED <<budget, target, writing, bound, keyring, watchers, starting, probe>>

(* A revocation that was saved stands, also when the bridge's token cannot *)
(* be deleted.                                                             *)
RevokeGrant(c) ==
    /\ Use("changes") /\ grant[c].active
    /\ grant' = [grant EXCEPT ![c] = NoGrant]
    /\ IF bound = c
       THEN /\ StopBridge
            /\ token' = IF keyring THEN None ELSE token
       ELSE UNCHANGED <<bridge, retiring, token>>
    /\ UNCHANGED <<budget, episode, target, writing, bound, keyring, watchers,
                   starting, probe>>

(* Time passes the grant's expiry. *)
GrantExpires(c) ==
    /\ grant[c].active
    /\ grant' = [grant EXCEPT ![c] = NoGrant]
    /\ UNCHANGED <<budget, used, episode, target, writing, bound, token, keyring, process>>

----------------------------------------------------------------------------
(* The bridge's settings, token and process.                               *)

(* Reading, writing and deleting the token fails while it is locked.       *)
KeyringChanges ==
    /\ budget.starts > 0
    /\ keyring' = ~keyring
    /\ UNCHANGED <<budget, used, policy, target, writing, bound, token, process>>

(* save_mcp_http_settings: another client than before costs the token,     *)
(* even when the settings cannot be saved afterwards.                      *)
SaveSettings(c) ==
    /\ budget.starts > 0
    /\ Reaped = NoProcess /\ grant[c].active /\ c # bound
    /\ keyring /\ token' = None
    /\ bound' = c \/ UNCHANGED bound
    /\ bridge' = Reaped
    /\ UNCHANGED <<budget, used, policy, target, writing, keyring, retiring, watchers,
                   starting, probe>>

RotateToken ==
    /\ budget.starts > 0
    /\ Reaped = NoProcess /\ grant[bound].active /\ keyring
    /\ token' = [client |-> bound, episode |-> episode[bound]]
    /\ bridge' = Reaped
    /\ UNCHANGED <<budget, used, policy, target, writing, bound, keyring, retiring,
                   watchers, starting, probe>>

(* has_secret_ref cannot tell a missing token from an unreadable one. *)
HasToken == token # None /\ keyring

(* start_mcp_http_process and its expiry worker. *)
StartBridge ==
    /\ Use("starts")
    /\ Reaped = NoProcess /\ grant[bound].active /\ HasToken
    /\ bridge' = [NoProcess EXCEPT !.owner = used.starts + 1, !.client = bound]
    /\ retiring' = 0
    /\ watchers' = watchers \cup {used.starts + 1}
    /\ starting' = starting \cup {used.starts + 1}
    /\ UNCHANGED <<budget, policy, target, writing, bound, token, keyring, probe>>

(* The child begins to listen, or ends by itself. *)
BridgeListens ==
    /\ bridge.owner # 0 /\ ~bridge.dead /\ ~bridge.listening
    /\ bridge' = [bridge EXCEPT !.listening = TRUE]
    /\ UNCHANGED <<budget, used, policy, target, writing, bound, token, keyring,
                   retiring, watchers, starting, probe>>

BridgeDies ==
    /\ bridge.owner # 0 /\ ~bridge.dead
    /\ bridge' = [bridge EXCEPT !.dead = TRUE, !.listening = FALSE]
    /\ UNCHANGED <<budget, used, policy, target, writing, bound, token, keyring,
                   retiring, watchers, starting, probe>>

StopBridgeByUser ==
    /\ bridge.owner # 0
    /\ StopBridge
    /\ UNCHANGED <<budget, used, policy, target, writing, bound, token, keyring,
                   watchers, starting, probe>>

(* invalidate_expired_mcp_http_runtime_with, for one process (o) or for    *)
(* any (0): without a grant or a readable token the process is stopped and *)
(* the token deleted; a deletion that fails is left to the worker.         *)
Retire(o) ==
    /\ o # 0 => IF bridge.owner # 0 THEN bridge.owner = o ELSE retiring = o
    /\ \/ /\ grant[bound].active /\ HasToken
          /\ retiring' = 0
          /\ UNCHANGED <<bridge, token>>
       \/ /\ ~(grant[bound].active /\ HasToken)
          /\ bridge' = NoProcess
          /\ \/ HasToken /\ token' = None /\ retiring' = 0
             \/ ~HasToken /\ retiring' = 0 /\ UNCHANGED token
             \/ /\ HasToken /\ UNCHANGED token
                /\ retiring' = IF bridge.owner # 0 THEN bridge.owner ELSE retiring

(* A status request looks at any process. *)
StatusRetires ==
    /\ budget.starts > 0
    /\ Retire(0)
    /\ UNCHANGED <<budget, used, policy, target, writing, bound, keyring, watchers,
                   starting, probe>>

\* Mutant: the worker ends when its process needs nothing yet.
WatcherGivesUp(o) ==
    /\ o \in watchers
    /\ watchers' = watchers \ {o}
    /\ UNCHANGED <<budget, used, policy, target, writing, bound, token, keyring,
                   bridge, retiring, starting, probe>>

(* The expiry worker of a process: it ends when the process was replaced,  *)
(* stopped or retired together with its token.                             *)
WatcherTicks(o) ==
    LET mine == IF bridge.owner # 0 THEN bridge.owner = o ELSE retiring = o
    IN  /\ o \in watchers
        /\ IF mine THEN Retire(o) ELSE UNCHANGED <<bridge, retiring, token>>
        /\ watchers' = IF mine /\ ((grant[bound].active /\ HasToken) \/ retiring' = o)
                       THEN watchers ELSE watchers \ {o}
        /\ UNCHANGED <<budget, used, policy, target, writing, bound, keyring,
                       starting, probe>>

(* The status of a process that is not ready is probed without the mutex.  *)
ProbeBegins ==
    /\ probe = NoProbe /\ bridge.owner # 0 /\ ~bridge.dead /\ ~bridge.ready
    /\ probe' = [owner |-> bridge.owner, ready |-> FALSE]
    /\ UNCHANGED <<budget, used, policy, target, writing, bound, token, keyring,
                   bridge, retiring, watchers, starting>>

ProbeConnects ==
    /\ probe.owner # 0 /\ bridge.listening
    /\ probe' = [probe EXCEPT !.ready = TRUE]
    /\ UNCHANGED <<budget, used, policy, target, writing, bound, token, keyring,
                   bridge, retiring, watchers, starting>>

ProbeEnds ==
    /\ probe.owner # 0
    /\ bridge' = [Reaped EXCEPT !.ready = @ \/ (probe.ready /\ Reaped.owner = probe.owner)]
    /\ probe' = NoProbe
    /\ UNCHANGED <<budget, used, policy, target, writing, bound, token, keyring,
                   retiring, watchers, starting>>

(* A start answers when its process is ready, or gone; past its deadline   *)
(* it stops its own process and no other.                                  *)
StartEnds(o) ==
    /\ o \in starting
    /\ starting' = starting \ {o}
    /\ \/ /\ Reaped.owner # o \/ Reaped.ready
          /\ bridge' = Reaped
       \/ /\ Reaped.owner = o /\ bridge' = NoProcess
    /\ UNCHANGED <<budget, used, policy, target, writing, bound, token, keyring,
                   retiring, watchers, probe>>

----------------------------------------------------------------------------
(* The application ends and starts again: what was under way is lost, the  *)
(* sidecar follows its parent.                                             *)
Crash ==
    /\ Use("crashes")
    /\ write' = [w \in Writes |->
                   IF write[w].at \in {"idle", "done"} THEN write[w]
                   ELSE [NoWrite EXCEPT !.at = "done"]]
    /\ pending' = {}
    /\ bridge' = NoProcess /\ retiring' = 0
    /\ watchers' = {} /\ starting' = {} /\ probe' = NoProbe
    /\ UNCHANGED <<budget, policy, target, audit, ran, bound, token, keyring>>

----------------------------------------------------------------------------
(* What the desktop does of itself for a write. *)
Handles(w) ==
    \/ BeginAudit(w) \/ Ask(w) \/ Receive(w) \/ TimeOut(w) \/ Forget(w)
    \/ FinishApproval(w) \/ Revalidate(w) \/ Commit(w) \/ FinishApplied(w)

BridgeStep ==
    \/ KeyringChanges \/ RotateToken \/ StartBridge \/ BridgeListens \/ BridgeDies
    \/ StopBridgeByUser \/ StatusRetires
    \/ \E c \in budget.clients : SaveSettings(c)
    \/ \E o \in watchers : WatcherTicks(o)
    \/ \E o \in starting : StartEnds(o)
    \/ ProbeBegins \/ ProbeConnects \/ ProbeEnds

Next ==
    \/ \E w \in Writes :
         \/ \E c \in budget.clients : Submit(w, c)
         \/ Handles(w) \/ DeadlinePasses(w)
         \/ \E approved \in BOOLEAN : Respond(w, approved)
    \/ EditTarget \/ DeleteScript \/ DeleteSession
    \/ \E c \in budget.clients :
         \/ RevokeGrant(c) \/ GrantExpires(c)
         \/ \E confirm \in IF budget.writes = {} THEN {FALSE} ELSE BOOLEAN : SaveGrant(c, confirm)
    \/ BridgeStep
    \/ Crash

Spec == Init /\ [][Next]_vars

Owners == 1..(CHOOSE n \in {b.starts : b \in Budgets} : \A b \in Budgets : b.starts <= n)

(* The handler of a request and the expiry worker run, and time passes.    *)
(* Nobody has to answer, and no child has to listen.                       *)
FairSpec ==
    /\ Spec
    /\ \A w \in Writes : WF_vars(Handles(w)) /\ WF_vars(DeadlinePasses(w))
    /\ \A o \in Owners : WF_vars(WatcherTicks(o))

----------------------------------------------------------------------------
(* Properties.                                                             *)

(* The shape of the state.  *)
TypeOK ==
    /\ \A w \in Writes :
        /\ write[w].at \in {"idle", "captured", "ask", "waiting", "expired", "approved",
                            "refused", "authorized", "lane", "commit", "finish", "done"}
        /\ write[w].client \in Clients \cup {None}
        /\ write[w].answer \in {"none", "yes", "no"}
        /\ audit[w] \in {"none", "invalid", "denied", "pending-approval", "authorized",
                         "succeeded", "failed"}
    /\ Cardinality(pending) <= MaxPending
    /\ bound \in Clients
    /\ token = None \/ token.client \in Clients
    /\ bridge.owner \in {0} \cup Owners /\ retiring \in {0} \cup Owners
    /\ watchers \cup starting \subseteq Owners

(* A write is performed only with its authorization on record and, when    *)
(* its grant asked for it, after the user's approval before the deadline,  *)
(* whatever was answered, deleted or lost meanwhile; it runs on the        *)
(* version of the target that was checked and approved; and no record says *)
(* afterwards that it was refused (handle_ipc_request and                  *)
(* McpWriteExecutionContext::revalidate).                                  *)
WritesAreApproved ==
    \A w \in Writes :
        /\ write[w].at = "commit" =>
            /\ audit[w] = "authorized"
            /\ write[w].asked => write[w].said
            /\ ran[w] = write[w].version
        /\ ran[w] # 0 => audit[w] \in {"authorized", "succeeded", "failed"}

(* The list of approvals and the requests that wait are the same: nothing  *)
(* listed has lost its requester, and a request that waits unanswered can  *)
(* be answered (await_mcp_approval_with_emitter).                          *)
ListedIsWaited ==
    /\ \A w \in pending : write[w].at \in {"waiting", "expired"}
    /\ \A w \in Writes :
        (write[w].at = "waiting" /\ write[w].answer = "none") => w \in pending

(* A stored token with which the bridge could serve belongs to the bound   *)
(* client and to its present grant: none survives a change of the client,  *)
(* or an expiry, a revocation or a deletion of its session followed by a   *)
(* new grant, even when its deletion failed or the application ended in    *)
(* between (mutate_mcp_grant, save_mcp_http_settings).                     *)
TokenIsCurrent ==
    (token # None /\ grant[bound].active) =>
        token = [client |-> bound, episode |-> episode[bound]]

(* The process serves the client the settings name (save_mcp_http_settings *)
(* needs it stopped), and is reported ready only when it listens itself    *)
(* (mcp_http_runtime_status_inner).                                        *)
BridgeServesBound ==
    bridge.owner # 0 =>
        /\ bridge.client = bound
        /\ bridge.ready => (bridge.listening \/ bridge.dead)

(* Every request comes to an end, though nobody answers it, and then none  *)
(* is under way (MCP_APPROVAL_TIMEOUT).                                    *)
Ended(w) == write[w].at \in {"idle", "done"}
RequestsEnd == (\E w \in Writes : ~Ended(w)) ~> (\A w \in Writes : Ended(w))

(* A process whose client has no grant any more does not stay: it is       *)
(* stopped, or the client has a grant again (spawn_mcp_http_expiry_worker).*)
BridgeRetires ==
    (bridge.owner # 0 /\ ~grant[bound].active)
        ~> (bridge.owner = 0 \/ grant[bound].active)
============================================================================
