----------------------------- MODULE SshConnection -----------------------------
(***************************************************************************)
(* How an SSH connection is established: the chain of jump hosts, the host *)
(* key of every hop, authentication, the terminal, and the place in the    *)
(* registry, while the user edits the profile and the trusted keys.        *)
(*                                                                         *)
(* An attempt works from a copy of the profile made when it began and from *)
(* a copy of the trusted keys made a little later.  After every            *)
(* authentication the profile is compared with the stored one and the key  *)
(* judged again under the store's mutex.  A confirmation "for this         *)
(* connection only" stays in memory until a connection is installed, which *)
(* takes all of them.                                                      *)
(*                                                                         *)
(* Every wait of an attempt has a timeout, whose effect is that of a       *)
(* failure.  An open that is cancelled is dropped where it waits.          *)
(***************************************************************************)
EXTENDS Naturals, Sequences, FiniteSets, SequencesExt

CONSTANTS
    Alg,           \* per key: its algorithm
    Certificates,  \* the keys that are host certificates
    Hops,          \* the endpoints of the profile in order, the target last
    ServerKeys,    \* per endpoint: the keys its server may have
    Attempts,      \* opens and reconnects, each made once
    Policies,      \* the settings the profile may have
    AuthOrder,     \* auth_order of the profile
    OneKeys,       \* whether opens use the credentials of a OneKey, too, that differ
                   \* from the profile's
    MaxActs        \* bound: confirmations, changes of keys and edits of the profile

Endpoints == Range(Hops)
Target == Len(Hops)
Methods == Range(AuthOrder)

ASSUME ConnectionAssumption ==
    /\ Hops # <<>>
    /\ \A p \in Policies : p.mode \in {"strict", "tofu", "ask"}

-----------------------------------------------------------------------------
(* The trust decision on a host key, as operators on sets.  A record of the *)
(* trust store is a pair of an endpoint (alias, host and port) and a key:   *)
(* records of one profile and one scope, several records of one key         *)
(* counting as one.  A confirmation for one connection also has a number,   *)
(* which stands for its id.                                                 *)

KeysOf(kept, ep) == {e[2] : e \in {f \in kept : f[1] = ep}}
Confirmed(once, ep) == {c.key : c \in {d \in once : d.ep = ep}}

\* HostKeyStore::evaluate on the records kept, then the confirmations: the
\* first record of the same algorithm and fingerprint decides.
Evaluate(policy, kept, once, ep, key) ==
    LET sameAlgorithm == {k \in KeysOf(kept, ep) \cup Confirmed(once, ep) : Alg[k] = Alg[key]}
    IN  IF key \in KeysOf(kept, ep) THEN "kept"
        ELSE IF key \in Confirmed(once, ep) THEN "confirmed"
        ELSE IF sameAlgorithm # {} /\ ~ policy.rotation THEN "mismatch"
        ELSE "unknown"

HasTrustedEndpoint(kept, once, ep) == KeysOf(kept, ep) \cup Confirmed(once, ep) # {}

\* SshHostKeyVerification::ignores_change; ignore: an automatic reconnect of a
\* profile that lets changed keys pass.
IgnoresChange(ignore, policy, kept, once, ep, key) ==
    /\ ignore
    /\ key \notin Certificates
    /\ Evaluate(policy, kept, once, ep, key) \in {"unknown", "mismatch"}
    /\ HasTrustedEndpoint(kept, once, ep)

\* verify_ssh_host_key_observation, during the handshake.  In the mode that asks
\* every time a key that is kept does not do, confirmed or not.
Verified(ignore, policy, kept, once, ep, key) ==
    /\ key \notin Certificates
    /\ \/ IgnoresChange(ignore, policy, kept, once, ep, key)
       \/ LET evaluation == Evaluate(policy, kept, once, ep, key)
          IN  \/ evaluation = "kept" /\ policy.mode # "ask"
              \/ evaluation = "confirmed"
              \/ evaluation = "unknown" /\ policy.mode = "tofu"

\* persist_observed_host_key and its form for a jump host: after the
\* authentication the key is judged again, by what the store keeps by then.
Persisted(ignore, policy, kept, once, ep, key) ==
    LET evaluation == Evaluate(policy, kept, {}, ep, key)
    IN  IF IgnoresChange(ignore, policy, kept, once, ep, key) THEN "ignored"
        ELSE IF key \in Confirmed(once, ep) THEN "confirmed"
        ELSE IF evaluation = "kept" THEN "kept"
        ELSE IF evaluation = "unknown" /\ policy.mode = "tofu" THEN "added"
        ELSE "refused"

\* HostKeyStore::apply_decision and the mirror in the profile.
Decided(kept, decision, ep, key) ==
    IF decision = "append" THEN kept \cup {<<ep, key>>}
    ELSE {e \in kept : e[1] # ep \/ Alg[e[2]] # Alg[key]} \cup {<<ep, key>>}

-----------------------------------------------------------------------------
VARIABLES
    profile,    \* the stored profile: edits, policy, last_successful, keys removed
    kept,       \* the trusted keys of the store and of the profile
    byUser,     \* those of them the user or a rotation has put there
    once,       \* one_time_host_keys of the profile
    confirms,   \* the number of confirmations given
    decisions,  \* the number of changes to the kept keys
    server,     \* per endpoint: the key its server presents
    rotations,  \* the number of keys changed
    scan,       \* the key that a scan has found, and of which profile
    attempt,    \* per attempt: see NoAttempt
    registered, \* the runtime in the registry: an attempt's, "before", "none"
    status      \* the session's status

userVars == <<byUser, confirms, decisions>>
vars == <<profile, kept, byUser, once, confirms, decisions, server, rotations,
          scan, attempt, registered, status>>

PCs == {"idle", "begun", "view", "connect", "verify", "auth", "persist", "terminal",
        "insert", "commit", "rollback", "install", "take", "ended", "installed"}

\* A copy of the profile taken by an attempt.
Copy == [edits |-> profile.edits, last |-> profile.last, removed |-> profile.removed,
         policy |-> profile.policy, kept |-> kept]

NoCopy == [edits |-> 0, last |-> "none", removed |-> 0,
           policy |-> CHOOSE p \in Policies : TRUE, kept |-> {}]

NoAttempt == [pc |-> "idle", kind |-> "open", hop |-> 1, copy |-> NoCopy,
              view |-> {}, once |-> {}, keys |-> <<>>, method |-> "none",
              oneKey |-> FALSE, superseded |-> FALSE, held |-> {}]

NoScan == [seen |-> FALSE, edits |-> 0, last |-> "none", ep |-> "none", key |-> "none"]

Init ==
    /\ \E p \in Policies :
         profile = [edits |-> 0, last |-> "none", removed |-> 0, policy |-> p, gone |-> FALSE]
    /\ kept = {}
    /\ byUser = {}
    /\ once = {}
    /\ confirms = 0
    /\ decisions = 0
    /\ server \in {s \in [Endpoints -> UNION Range(ServerKeys)] :
                    \A e \in Endpoints : s[e] \in ServerKeys[e]}
    /\ rotations = 0
    /\ scan = NoScan
    /\ attempt = [a \in Attempts |-> NoAttempt]
    \* Closed, or waiting to be connected again after its runtime was lost.
    /\ \/ registered = "none" /\ status = "closed"
       \/ registered = "before" /\ status = "reconnecting"

Acts == confirms + decisions + profile.edits + rotations

At(a, pc) == attempt[a].pc = pc
Underway == {a \in Attempts : attempt[a].pc \notin {"idle", "ended", "installed"}}
Opening == {a \in Underway : attempt[a].kind = "open"}
\* The endpoint an attempt has come to.
Hop(a) == Hops[attempt[a].hop]
Ignore(a) == attempt[a].kind = "reconnect" /\ attempt[a].copy.policy.ignore

\* A runtime leaves the registry: a reconnect that waits for it is superseded.
Superseding(A) ==
    [a \in Attempts |-> IF A[a].kind = "reconnect" /\ A[a].pc \in PCs \ {"idle", "ended", "installed", "take"}
                        THEN [A[a] EXCEPT !.superseded = TRUE] ELSE A[a]]

Becomes(a, r) == attempt' = [attempt EXCEPT ![a] = r]

\* The attempt gives up; what it had connected is disconnected.
Fails(a) ==
    /\ Becomes(a, [NoAttempt EXCEPT !.pc = "ended"])
    /\ status' = IF attempt[a].kind = "open" THEN "error" ELSE status

-----------------------------------------------------------------------------
(* The beginning of an attempt. *)

\* open_session_under_lifecycle_lock: the profile, with the credentials of a
\* OneKey put in its place, and the status Connecting.  Opens exclude each other.
BeginOpen(a) ==
    /\ At(a, "idle")
    /\ Opening = {}
    /\ ~ profile.gone
    /\ \E oneKey \in IF OneKeys THEN BOOLEAN ELSE {FALSE} :
         Becomes(a, [NoAttempt EXCEPT !.pc = "begun", !.copy = Copy, !.oneKey = oneKey])
    /\ status' = "connecting"
    /\ UNCHANGED <<profile, kept, userVars, once, server, rotations, scan, registered>>

\* open_ssh_session removes the runtime that is registered.
DropRuntime(a) ==
    /\ At(a, "begun")
    /\ registered' = "none"
    /\ attempt' = [Superseding(attempt) EXCEPT ![a].pc = "view"]
    /\ UNCHANGED <<profile, kept, userVars, once, server, rotations, scan, status>>

\* reconnect_ssh_session: the latest profile, while the lost runtime is pending.
BeginReconnect(a) ==
    /\ At(a, "idle")
    /\ status = "reconnecting"
    /\ ~ profile.gone
    /\ \A b \in Underway : attempt[b].superseded
    /\ Becomes(a, [NoAttempt EXCEPT !.pc = "view", !.kind = "reconnect", !.copy = Copy])
    /\ UNCHANGED <<profile, kept, userVars, once, server, rotations, scan, registered, status>>

\* The keys every hop will be verified with: those of the store by now, those
\* of the copied profile and the confirmations.
TakeView(a) ==
    /\ At(a, "view")
    /\ Becomes(a, [attempt[a] EXCEPT !.pc = "connect", !.view = kept \cup attempt[a].copy.kept,
                                     !.once = once])
    /\ UNCHANGED <<profile, kept, userVars, once, server, rotations, scan, registered, status>>

-----------------------------------------------------------------------------
(* One hop: transport and handshake, authentication, the key. *)

AcceptsKey(a) ==
    Verified(Ignore(a), attempt[a].copy.policy, attempt[a].view, attempt[a].once, Hop(a), server[Hop(a)])

KeySeen(a, pc) ==
    /\ Becomes(a, [attempt[a] EXCEPT !.pc = pc, !.keys = Append(attempt[a].keys, server[Hop(a)])])
    /\ UNCHANGED <<profile, kept, userVars, once, server, rotations, scan, registered, status>>

\* The next jump host: a stream - direct, through a proxy or a direct-tcpip
\* channel of the hop before - and the handshake, in which its key is verified.
ConnectJump(a) ==
    /\ At(a, "connect")
    /\ attempt[a].hop < Target
    /\ AcceptsKey(a)
    /\ KeySeen(a, "auth")

\* The same for the target, behind the last jump host if there is one.
ConnectTarget(a) ==
    /\ At(a, "connect")
    /\ attempt[a].hop = Target /\ ~ attempt[a].copy.policy.libssh
    /\ AcceptsKey(a)
    /\ KeySeen(a, "auth")

\* With Kerberos in the authentication order libssh connects to the target, on
\* a stream of russh's, in a blocking worker; the key is verified afterwards.
LibsshConnect(a) ==
    /\ At(a, "connect")
    /\ attempt[a].hop = Target /\ attempt[a].copy.policy.libssh
    /\ KeySeen(a, "verify")

AcceptsSeenKey(a) ==
    Verified(Ignore(a), attempt[a].copy.policy, attempt[a].view, attempt[a].once, Hop(a), Last(attempt[a].keys))

LibsshVerify(a) ==
    /\ At(a, "verify")
    /\ AcceptsSeenKey(a)
    /\ Becomes(a, [attempt[a] EXCEPT !.pc = "auth"])
    /\ UNCHANGED <<profile, kept, userVars, once, server, rotations, scan, registered, status>>

HostKeyRejected(a) ==
    /\ \/ At(a, "connect") /\ ~ AcceptsKey(a) /\ (attempt[a].hop < Target \/ ~ attempt[a].copy.policy.libssh)
       \/ At(a, "verify") /\ ~ AcceptsSeenKey(a)
    /\ Fails(a)
    /\ UNCHANGED <<profile, kept, userVars, once, server, rotations, scan, registered>>

\* ordered_auth_methods: the method that succeeded last comes first.
OrderedAuthMethods(last) ==
    SelectSeq(AuthOrder, LAMBDA m : m = last) \o SelectSeq(AuthOrder, LAMBDA m : m # last)

\* The first method for which there is a credential that the server accepts;
\* the one of the target is remembered.
FirstAccepted(order, accepted) == SelectSeq(order, LAMBDA m : m \in accepted)[1]

AuthenticateJump(a) ==
    /\ At(a, "auth")
    /\ attempt[a].hop < Target
    /\ Becomes(a, [attempt[a] EXCEPT !.pc = "persist"])
    /\ UNCHANGED <<profile, kept, userVars, once, server, rotations, scan, registered, status>>

AuthenticatedBy(a, method) ==
    /\ Becomes(a, [attempt[a] EXCEPT !.pc = "persist", !.method = method])
    /\ UNCHANGED <<profile, kept, userVars, once, server, rotations, scan, registered, status>>

AuthenticateTarget(a) ==
    /\ At(a, "auth")
    /\ attempt[a].hop = Target /\ ~ attempt[a].copy.policy.libssh
    /\ \E accepted \in (SUBSET Methods) \ {{}} :
         AuthenticatedBy(a, FirstAccepted(OrderedAuthMethods(attempt[a].copy.last), accepted))

\* authenticate_libssh_with_order, in a worker, the agent offered before or
\* after the other identities.
LibsshAuthenticate(a) ==
    /\ At(a, "auth")
    /\ attempt[a].hop = Target /\ attempt[a].copy.policy.libssh
    /\ \E accepted \in (SUBSET Methods) \ {{}} :
         AuthenticatedBy(a, FirstAccepted(OrderedAuthMethods(attempt[a].copy.last), accepted))

\* A connection, a channel or an authentication fails, or its time is up.
StepFails(a) ==
    /\ attempt[a].pc \in {"connect", "verify", "auth", "terminal"}
    /\ Fails(a)
    /\ UNCHANGED <<profile, kept, userVars, once, server, rotations, scan, registered>>

\* ssh_establishment_profile_matches: the stored profile is still the one the
\* attempt works from.  The login with a OneKey has changed its copy.
SameProfile(a) ==
    /\ ~ profile.gone
    /\ profile.edits = attempt[a].copy.edits
    /\ profile.last = attempt[a].copy.last
    /\ ~ attempt[a].oneKey

\* Mutant: a key that was removed does not count as a change.
MatchesWithoutRemovals(a) == SameProfile(a)

\* Keys added since then are admitted, keys removed or changed are not.
MatchesWithStoreMirrors(a) ==
    SameProfile(a) /\ profile.removed = attempt[a].copy.removed

\* Mutant: the key is judged by the view of the attempt.
PersistStale(a) ==
    Persisted(Ignore(a), attempt[a].copy.policy, attempt[a].view, attempt[a].once, Hop(a), Last(attempt[a].keys))

PersistOutcome(a) ==
    Persisted(Ignore(a), profile.policy, kept, attempt[a].once, Hop(a), Last(attempt[a].keys))

\* The record kept for a key that was unknown.
KeepKey(a) ==
    IF PersistOutcome(a) = "added"
    THEN /\ kept' = Decided(kept, "append", Hop(a), Last(attempt[a].keys))
         /\ byUser' = IF profile.policy.rotation THEN byUser \cup {<<Hop(a), Last(attempt[a].keys)>>} ELSE byUser
    ELSE UNCHANGED <<kept, byUser>>

\* persist_observed_host_key_with_policy for a jump host, then the next hop.
PersistJumpKey(a) ==
    /\ At(a, "persist")
    /\ attempt[a].hop < Target
    /\ MatchesWithStoreMirrors(a)
    /\ PersistOutcome(a) # "refused"
    /\ KeepKey(a)
    /\ Becomes(a, [attempt[a] EXCEPT !.pc = "connect", !.hop = attempt[a].hop + 1])
    /\ UNCHANGED <<profile, once, confirms, decisions, server, rotations, scan, registered, status>>

\* persist_observed_host_key for the target, then the terminal.
PersistHostKey(a) ==
    /\ At(a, "persist")
    /\ attempt[a].hop = Target
    /\ MatchesWithStoreMirrors(a)
    /\ PersistOutcome(a) # "refused"
    /\ KeepKey(a)
    /\ Becomes(a, [attempt[a] EXCEPT !.pc = "terminal"])
    /\ UNCHANGED <<profile, once, confirms, decisions, server, rotations, scan, registered, status>>

\* The profile has changed, the key is not trusted any more, or the save fails.
PersistRefused(a) ==
    /\ At(a, "persist")
    /\ Fails(a)
    /\ UNCHANGED <<profile, kept, userVars, once, server, rotations, scan, registered>>

TerminalOpened(a) ==
    /\ Becomes(a, [attempt[a] EXCEPT !.pc = IF attempt[a].kind = "open" THEN "insert" ELSE "install"])
    /\ UNCHANGED <<profile, kept, userVars, once, server, rotations, scan, registered, status>>

\* open_ssh_terminal_channel_with_timeout: channel, PTY, agent forwarding, shell
\* or tmux.
OpenTerminal(a) == At(a, "terminal") /\ ~ attempt[a].copy.policy.libssh /\ TerminalOpened(a)

\* The same in a worker of libssh, within what is left of the one deadline.
LibsshOpenTerminal(a) == At(a, "terminal") /\ attempt[a].copy.policy.libssh /\ TerminalOpened(a)

-----------------------------------------------------------------------------
(* The end of an open: registry, confirmations, store. *)

\* take_one_time_host_keys: all of the profile's, wherever they were needed.
TakeOneTimeHostKeys == {}

InsertRuntime(a) ==
    /\ At(a, "insert")
    /\ registered' = a
    /\ Becomes(a, [attempt[a] EXCEPT !.pc = "commit", !.held = once])
    /\ once' = TakeOneTimeHostKeys
    /\ UNCHANGED <<profile, kept, userVars, server, rotations, scan, status>>

\* record_auth_success and the status Connected.
CommitOpen(a) ==
    /\ At(a, "commit")
    /\ Becomes(a, [attempt[a] EXCEPT !.pc = "installed", !.copy = NoCopy, !.view = {}])
    /\ profile' = [profile EXCEPT !.last = attempt[a].method]
    /\ status' = "connected"
    /\ UNCHANGED <<kept, userVars, once, server, rotations, scan, registered>>

CommitOpenFails(a) ==
    /\ At(a, "commit")
    /\ Becomes(a, [attempt[a] EXCEPT !.pc = "rollback"])
    /\ registered' = "none"
    /\ UNCHANGED <<profile, kept, userVars, once, server, rotations, scan, status>>

\* Mutant: the confirmations are not given back.
ForgetOneTimeHostKeys(a) == once

RestoreOneTimeHostKeys(a) == once \cup attempt[a].held

\* The runtime has been disconnected.
RollBack(a) ==
    /\ At(a, "rollback")
    /\ once' = RestoreOneTimeHostKeys(a)
    /\ Fails(a)
    /\ UNCHANGED <<profile, kept, userVars, server, rotations, scan, registered>>

-----------------------------------------------------------------------------
(* The end of a reconnect. *)

\* Compared without admitting added keys: an attempt that has added the key of
\* a hop is made again.
InstallReconnect(a) ==
    /\ At(a, "install")
    /\ ~ attempt[a].superseded
    /\ SameProfile(a)
    /\ kept = attempt[a].copy.kept /\ profile.removed = attempt[a].copy.removed
    /\ registered' = a
    /\ profile' = [profile EXCEPT !.last = attempt[a].method]
    /\ Becomes(a, [attempt[a] EXCEPT !.pc = "take"])
    /\ status' = "connected"
    /\ UNCHANGED <<kept, userVars, once, server, rotations, scan>>

\* Superseded, to be made again with the latest profile, or the save fails.
ReconnectNotInstalled(a) ==
    /\ At(a, "install")
    /\ Becomes(a, [NoAttempt EXCEPT !.pc = "ended"])
    /\ status' \in IF attempt[a].superseded THEN {status} ELSE {status, "error"}
    /\ UNCHANGED <<profile, kept, userVars, once, server, rotations, scan, registered>>

TakeAfterReconnect(a) ==
    /\ At(a, "take")
    /\ once' = TakeOneTimeHostKeys
    /\ Becomes(a, [attempt[a] EXCEPT !.pc = "installed", !.held = once, !.copy = NoCopy, !.view = {}])
    /\ UNCHANGED <<profile, kept, userVars, server, rotations, scan, registered, status>>

-----------------------------------------------------------------------------
(* What happens to the session meanwhile. *)

\* The future of an open is dropped where it waits, and the session closed.
CancelOpen(a) ==
    /\ attempt[a].kind = "open"
    /\ attempt[a].pc \in {"begun", "view", "connect", "verify", "auth", "terminal", "rollback"}
    /\ attempt' = [Superseding(attempt) EXCEPT
                        ![a] = [NoAttempt EXCEPT !.pc = "ended", !.held = attempt[a].held]]
    /\ registered' = "none"
    /\ status' = "closed"
    /\ UNCHANGED <<profile, kept, userVars, once, server, rotations, scan>>

\* close_session without an open under way.
Close ==
    /\ Opening = {}
    /\ status # "closed"
    /\ attempt' = Superseding(attempt)
    /\ registered' = "none"
    /\ status' = "closed"
    /\ UNCHANGED <<profile, kept, userVars, once, server, rotations, scan>>

\* The reader finds the connection gone; the profile reconnects.
LoseConnection ==
    /\ status = "connected"
    /\ status' = "reconnecting"
    /\ UNCHANGED <<profile, kept, userVars, once, server, rotations, scan, attempt, registered>>

EditProfile ==
    /\ Acts < MaxActs
    /\ ~ profile.gone
    /\ \E p \in Policies :
         profile' = [profile EXCEPT !.edits = profile.edits + 1, !.policy = p]
    /\ UNCHANGED <<kept, userVars, once, server, rotations, scan, attempt, registered, status>>

\* Deleting the profile cancels its open and forgets its confirmations.
DeleteProfile ==
    /\ ~ profile.gone
    /\ \A a \in Opening : attempt[a].pc \notin {"persist", "insert", "commit"}
    /\ profile' = [profile EXCEPT !.gone = TRUE]
    /\ once' = {}
    /\ attempt' = [a \in Attempts |->
            IF a \in Opening THEN [NoAttempt EXCEPT !.pc = "ended"] ELSE Superseding(attempt)[a]]
    /\ registered' = "none"
    /\ status' = "closed"
    /\ UNCHANGED <<kept, userVars, server, rotations, scan>>

\* The administrator of a server gives it another key.
RotateServerKey ==
    /\ Acts < MaxActs
    /\ \E e \in Endpoints : \E k \in ServerKeys[e] \ {server[e]} :
         server' = [server EXCEPT ![e] = k]
    /\ rotations' = rotations + 1
    /\ UNCHANGED <<profile, kept, userVars, once, scan, attempt, registered, status>>

-----------------------------------------------------------------------------
(* Looking at the keys and deciding on them. *)

\* The jump hosts before hop i accept the keys they should.
Reaches(i) ==
    \A j \in 1 .. i - 1 : Verified(FALSE, profile.policy, kept, once, Hops[j], server[Hops[j]])

\* scan_ssh_host_key: through the jump hosts, as an open would connect to them,
\* to the first whose key is not accepted, or else to the target.
ScanHostKey ==
    /\ Acts < MaxActs
    /\ ~ profile.gone
    /\ \E i \in 1 .. Target :
         /\ Reaches(i)
         /\ i = Target \/ ~ Reaches(i + 1)
         /\ scan' = [seen |-> TRUE, edits |-> profile.edits, last |-> profile.last,
                     ep |-> Hops[i], key |-> server[Hops[i]]]
    /\ UNCHANGED <<profile, kept, userVars, once, server, rotations, attempt, registered, status>>

\* HostKeyDecision::Reject.
RejectHostKey ==
    /\ scan.seen
    /\ scan' = NoScan
    /\ UNCHANGED <<profile, kept, userVars, once, server, rotations, attempt, registered, status>>

\* validate_scanned_host_key_profile_snapshot: the keys may have changed since
\* the scan, the rest of the profile may not.
MayDecide ==
    /\ scan.seen
    /\ ~ profile.gone
    /\ scan.edits = profile.edits
    /\ scan.last = profile.last

TrustOnce ==
    /\ MayDecide
    /\ Acts < MaxActs
    /\ confirms' = confirms + 1
    /\ once' = once \cup {[n |-> confirms + 1, ep |-> scan.ep, key |-> scan.key]}
    /\ scan' = NoScan
    /\ UNCHANGED <<profile, kept, byUser, decisions, server, rotations, attempt, registered, status>>

\* AppendToProfile, AppendToProject and ReplaceForProfile.
TrustAlways(decision) ==
    /\ MayDecide
    /\ Acts < MaxActs
    /\ decisions' = decisions + 1
    /\ kept' = Decided(kept, decision, scan.ep, scan.key)
    /\ profile' = IF kept \subseteq kept' THEN profile ELSE [profile EXCEPT !.removed = profile.removed + 1]
    /\ byUser' = byUser \cup {<<scan.ep, scan.key>>}
    /\ scan' = NoScan
    /\ UNCHANGED <<confirms, once, server, rotations, attempt, registered, status>>

\* delete_host_keys.
DeleteHostKey(e) ==
    /\ Acts < MaxActs
    /\ decisions' = decisions + 1
    /\ kept' = kept \ {e}
    /\ profile' = [profile EXCEPT !.removed = profile.removed + 1]
    /\ UNCHANGED <<byUser, confirms, once, server, rotations, scan, attempt, registered, status>>

\* update_host_key: the record is given to another endpoint.
UpdateHostKey(e) ==
    /\ Acts < MaxActs
    /\ decisions' = decisions + 1
    /\ \E ep \in Endpoints \ {e[1]} :
         /\ kept' = (kept \ {e}) \cup {<<ep, e[2]>>}
         /\ byUser' = byUser \cup {<<ep, e[2]>>}
    /\ profile' = [profile EXCEPT !.removed = profile.removed + 1]
    /\ UNCHANGED <<confirms, once, server, rotations, scan, attempt, registered, status>>

\* import_known_hosts of a line that names an endpoint's alias.
ImportKnownHosts ==
    /\ Acts < MaxActs
    /\ ~ profile.gone
    /\ decisions' = decisions + 1
    /\ \E e \in Endpoints : \E k \in ServerKeys[e] :
         /\ kept' = kept \cup {<<e, k>>}
         /\ byUser' = byUser \cup {<<e, k>>}
    /\ UNCHANGED <<profile, confirms, once, server, rotations, scan, attempt, registered, status>>

-----------------------------------------------------------------------------
AttemptStep(a) ==
    \/ BeginOpen(a) \/ DropRuntime(a) \/ BeginReconnect(a) \/ TakeView(a)
    \/ ConnectJump(a) \/ ConnectTarget(a) \/ LibsshConnect(a) \/ LibsshVerify(a)
    \/ HostKeyRejected(a)
    \/ AuthenticateJump(a) \/ AuthenticateTarget(a) \/ LibsshAuthenticate(a) \/ StepFails(a)
    \/ PersistJumpKey(a) \/ PersistHostKey(a) \/ PersistRefused(a)
    \/ OpenTerminal(a) \/ LibsshOpenTerminal(a)
    \/ InsertRuntime(a) \/ CommitOpen(a) \/ CommitOpenFails(a) \/ RollBack(a)
    \/ InstallReconnect(a) \/ ReconnectNotInstalled(a) \/ TakeAfterReconnect(a)
    \/ CancelOpen(a)

UserStep ==
    \/ Close \/ LoseConnection \/ EditProfile \/ DeleteProfile \/ RotateServerKey
    \/ ScanHostKey \/ RejectHostKey \/ TrustOnce
    \/ TrustAlways("append") \/ TrustAlways("replace")
    \/ \E e \in kept : DeleteHostKey(e) \/ UpdateHostKey(e)
    \/ ImportKnownHosts

Next == UserStep \/ \E a \in Attempts : AttemptStep(a)

Spec == Init /\ [][Next]_vars

-----------------------------------------------------------------------------
(* Properties. *)

TypeOK ==
    /\ kept \subseteq Endpoints \X UNION Range(ServerKeys)
    /\ \A a \in Attempts : attempt[a].pc \in PCs /\ attempt[a].hop \in 1 .. Target
    /\ registered \in Attempts \cup {"before", "none"}
    /\ status \in {"closed", "connecting", "connected", "reconnecting", "error"}

\* The user withdraws the trust in a jump host's key while the hops behind it
\* are being connected: the attempt gets no terminal.  When the key of the
\* target is stored, every key of the chain is kept, confirmed for this
\* connection, or let through because the profile ignores changes.
RevokedStopsConnect ==
    [][\A a \in Attempts :
        At(a, "persist") /\ attempt'[a].pc = "terminal" /\ ~ Ignore(a) =>
            \A i \in 1 .. Target :
                \/ <<Hops[i], attempt[a].keys[i]>> \in kept'
                \/ attempt[a].keys[i] \in Confirmed(attempt[a].once, Hops[i])]_vars

\* Trust on first use trusts one key: whatever attempts run beside each other
\* and whatever keys the server shows them, an endpoint gets a second key of an
\* algorithm only from the user or under a policy that allows rotation.
FirstUseIsUnique ==
    \A e, f \in kept :
        e # f /\ e[1] = f[1] /\ Alg[e[2]] = Alg[f[2]] => e \in byUser \/ f \in byUser

\* The confirmations that a connection rests on.
Used(a) ==
    {c.n : c \in {d \in attempt[a].once :
        \E i \in DOMAIN attempt[a].keys : d.ep = Hops[i] /\ d.key = attempt[a].keys[i]}}

\* "Only this time": a confirmation that an open has used serves no connection
\* that is installed later.
AskedEveryTime ==
    [][\A a, b \in Attempts :
        /\ a # b
        /\ At(a, "installed") /\ attempt[a].kind = "open"
        /\ attempt[b].pc \in {"commit", "install"} /\ attempt'[b].pc \in {"installed", "take"}
        => Used(a) \cap Used(b) = {}]_vars

\* What is said above of the keys behind a connection.
KeysAreTrusted == RevokedStopsConnect /\ AskedEveryTime

\* A confirmation is not lost by an open that fails at whatever point: it waits
\* for the next, until a connection has taken it or the profile is deleted.
\* (An open cancelled in the middle of its roll-back keeps what it had taken.)
ConfirmationIsKept ==
    ~ profile.gone =>
        \A n \in 1 .. confirms :
            \/ \E c \in once : c.n = n
            \/ \E a \in Attempts : \E c \in attempt[a].held : c.n = n
=============================================================================
