--------------------------- MODULE CommandOutput ---------------------------
(***************************************************************************)
(* Which command the output of a session belongs to.  A command that is    *)
(* run is the session's active command from before its bytes are written;  *)
(* the output that arrives afterwards is marked with it, until something   *)
(* else is sent or the connection changes.  Everything that sends holds    *)
(* the session's outbound lane from its first check to its record; closes, *)
(* opens, disconnects and reconnects do not.                               *)
(***************************************************************************)
EXTENDS Integers, Sequences, FiniteSets

CONSTANTS
    Senders,     \* calls that send something to the session
    MaxRuntimes, \* how many connections there are at most
    Mixes        \* the kinds of call that meet in a behaviour

(* Only a command has an id that output is marked with. *)
Kinds == {"text", "bytes", "keys", "command", "onekey", "modem", "attach"}

VARIABLES
    mix,         \* the kinds of call of this behaviour
    runtime,     \* the registered connection: its id, 0 when none, and is it lost
    made,        \* how many connections there were
    change,      \* the holder of the lifecycle lane, between its two steps
    line,        \* the outbound lane: its holder, then those who wait
    sender,      \* each sending call
    active,      \* active_commands: the session's active command, 0 when none
    last         \* the last bytes a connection accepted: whose, where, was it lost

commandVars == <<mix, runtime, made, change, line, sender, active, last>>

NoSender == [kind |-> "text", bound |-> 0, at |-> "free", id |-> 0, to |-> 0, late |-> FALSE]
Nothing  == [id |-> 0, to |-> 0, late |-> FALSE]

Init ==
    /\ mix \in Mixes
    /\ runtime = [id |-> 0, lost |-> FALSE] /\ made = 0 /\ change = "none"
    /\ line = <<>> /\ sender = [s \in Senders |-> NoSender]
    /\ active = 0 /\ last = Nothing

Has(s)      == line # <<>> /\ Head(line) = s
At(s, p)    == sender[s].at = p
Step(s, new) == sender' = [sender EXCEPT ![s] = new]
Done(s)     ==
    /\ sender' = [sender EXCEPT ![s] = [NoSender EXCEPT !.at = "done", !.id = sender[s].id]]
    /\ line' = Tail(line)

(* Ids are given in the order in which commands become active. *)
NextId == 1 + Cardinality({s \in Senders : sender[s].id # 0})

----------------------------------------------------------------------------
(* The connection.                                                         *)

OpenBegins ==
    /\ change = "none" /\ runtime.id = 0 /\ made < MaxRuntimes
    /\ change' = "open" /\ active' = 0
    /\ UNCHANGED <<mix, runtime, made, line, sender, last>>

OpenInstalls ==
    /\ change = "open"
    /\ change' = "none" /\ made' = made + 1
    /\ runtime' = [id |-> made + 1, lost |-> FALSE]
    /\ UNCHANGED <<mix, line, sender, active, last>>

CloseBegins ==
    /\ change = "none" /\ runtime.id # 0
    /\ change' = "close" /\ active' = 0
    /\ UNCHANGED <<mix, runtime, made, line, sender, last>>

CloseRemoves ==
    /\ change = "close"
    /\ change' = "none" /\ runtime' = [id |-> 0, lost |-> FALSE]
    /\ UNCHANGED <<mix, made, line, sender, active, last>>

(* The reader ends: under the registry's lock it forgets the active        *)
(* command, and removes the connection unless a reconnect is to follow.    *)
\* Mutant: a lost connection keeps its active command.
LostKeeps ==
    /\ runtime.id # 0 /\ ~runtime.lost
    /\ runtime' \in {[id |-> 0, lost |-> FALSE], [runtime EXCEPT !.lost = TRUE]}
    /\ UNCHANGED <<mix, made, change, line, sender, active, last>>

ReaderEnds ==
    /\ runtime.id # 0 /\ ~runtime.lost
    /\ active' = 0
    /\ runtime' \in {[id |-> 0, lost |-> FALSE], [runtime EXCEPT !.lost = TRUE]}
    /\ UNCHANGED <<mix, made, change, line, sender, last>>

(* The supervisor installs the next connection, or gives up. *)
ReconnectInstalls ==
    /\ runtime.lost /\ made < MaxRuntimes
    /\ made' = made + 1
    /\ runtime' = [id |-> made + 1, lost |-> FALSE]
    /\ UNCHANGED <<mix, change, line, sender, active, last>>

ReconnectGivesUp ==
    /\ runtime.lost
    /\ runtime' = [id |-> 0, lost |-> FALSE] /\ active' = 0
    /\ UNCHANGED <<mix, made, change, line, sender, last>>

----------------------------------------------------------------------------
(* What sends: each waits for the lane.  Keys, trigger texts and scripts   *)
(* are bound to a connection, the others go to whichever is registered.    *)

Ask(s, kind, bound) ==
    /\ At(s, "free")
    /\ kind \in {"onekey", "modem", "attach"} => bound = 0
    /\ Step(s, [NoSender EXCEPT !.kind = kind, !.bound = bound, !.at = "lane"])
    /\ line' = Append(line, s)
    /\ UNCHANGED <<mix, runtime, made, change, active, last>>

(* A validation given with the call, or that of a one-key's prompt, is     *)
(* made again under the lane and may refuse it.                            *)
Refused(s) ==
    /\ Has(s) /\ At(s, "lane") /\ sender[s].kind \in {"text", "bytes", "command", "onekey"}
    /\ Done(s)
    /\ UNCHANGED <<mix, runtime, made, change, active, last>>

Begin(s, new) ==
    /\ Has(s) /\ At(s, "lane")
    /\ active' = new
    /\ UNCHANGED <<mix, runtime, made, change, line, last>>

Begun(s) == Step(s, [sender[s] EXCEPT !.at = "capture"])

(* Input that is bound forgets the active command only after it was        *)
(* written, because it may be refused.                                     *)
Forgets(s) == IF sender[s].bound = 0 THEN 0 ELSE active

BeginText(s) ==
    sender[s].kind = "text" /\ Begin(s, Forgets(s)) /\ Begun(s)
BeginBytes(s) ==
    sender[s].kind = "bytes" /\ Begin(s, Forgets(s)) /\ Begun(s)
BeginKeys(s) ==
    sender[s].kind = "keys" /\ Begin(s, Forgets(s)) /\ Begun(s)
BeginOneKey(s) ==
    sender[s].kind = "onekey" /\ Begin(s, 0) /\ Begun(s)
BeginModem(s) ==
    sender[s].kind = "modem" /\ Begin(s, 0) /\ Begun(s)
BeginCommand(s) ==
    /\ sender[s].kind = "command"
    /\ Begin(s, NextId)
    /\ Step(s, [sender[s] EXCEPT !.at = "capture", !.id = NextId])

(* A tmux attach exchanges the terminal channel under the lane. *)
AttachChannel(s) ==
    /\ Has(s) /\ At(s, "lane") /\ sender[s].kind = "attach"
    /\ active' = IF runtime.id = 0 THEN active ELSE 0
    /\ last' = IF runtime.id = 0 THEN last ELSE Nothing
    /\ Done(s)
    /\ UNCHANGED <<mix, runtime, made, change>>

(* clear_active_command_if: a command that failed withdraws itself only.   *)
Withdrawn(s) == IF sender[s].id # 0 /\ active = sender[s].id THEN 0 ELSE active

Fails(s) ==
    /\ active' = Withdrawn(s)
    /\ Done(s)
    /\ UNCHANGED <<mix, runtime, made, change, last>>

\* Mutant: a command that was not written stays active.
CaptureLeaves(s) ==
    /\ Has(s) /\ At(s, "capture")
    /\ IF runtime.id # 0 /\ sender[s].bound \in {0, runtime.id}
       THEN /\ Step(s, [sender[s] EXCEPT !.at = "write", !.to = runtime.id, !.late = runtime.lost])
            /\ UNCHANGED <<mix, runtime, made, change, line, active, last>>
       ELSE Done(s) /\ UNCHANGED <<mix, runtime, made, change, active, last>>

(* The writer of the registered connection, if it is the expected one. *)
Capture(s) ==
    /\ Has(s) /\ At(s, "capture")
    /\ IF runtime.id # 0 /\ sender[s].bound \in {0, runtime.id}
       THEN /\ Step(s, [sender[s] EXCEPT !.at = "write", !.to = runtime.id, !.late = runtime.lost])
            /\ UNCHANGED <<mix, runtime, made, change, line, active, last>>
       ELSE Fails(s)

(* The bytes are accepted, or not: the connection may be lost by now.      *)
Write(s) ==
    /\ Has(s) /\ At(s, "write")
    /\ \/ Fails(s)
       \/ /\ last' = [id |-> sender[s].id, to |-> sender[s].to, late |-> sender[s].late]
          /\ Step(s, [sender[s] EXCEPT !.at = "record"])
          /\ UNCHANGED <<mix, runtime, made, change, line, active>>

(* The record of what was sent.  A bound call that finds its connection    *)
(* replaced reports that instead.                                          *)
Recorded(s) ==
    /\ Has(s) /\ At(s, "record")
    /\ LET here == sender[s].bound \in {0, runtime.id}
       IN  active' = IF sender[s].bound = 0 THEN active
                     ELSE IF ~here THEN Withdrawn(s)
                     ELSE IF sender[s].kind = "command" THEN active ELSE 0
    /\ Done(s)
    /\ UNCHANGED <<mix, runtime, made, change, last>>

RecordText(s)    == sender[s].kind # "bytes" /\ Recorded(s)
RecordControl(s) == sender[s].kind = "bytes" /\ Recorded(s)

----------------------------------------------------------------------------
Sends(s) ==
    \/ Refused(s) \/ BeginText(s) \/ BeginBytes(s) \/ BeginKeys(s)
    \/ BeginOneKey(s) \/ BeginModem(s) \/ BeginCommand(s) \/ AttachChannel(s)
    \/ Capture(s) \/ Write(s) \/ RecordText(s) \/ RecordControl(s)

Next ==
    \/ OpenBegins \/ OpenInstalls \/ CloseBegins \/ CloseRemoves
    \/ ReaderEnds \/ ReconnectInstalls \/ ReconnectGivesUp
    \/ \E s \in Senders : Sends(s) \/
           \E kind \in mix, bound \in {0} \cup ({runtime.id} \ {0}) : Ask(s, kind, bound)

(* Output that is marked with a command is output of the connection the    *)
(* command was written to, and nothing was sent there after the command;   *)
(* except while something is being sent, and except for a command that a   *)
(* connection accepted which was already lost                              *)
(* (record_accepted_channel_bytes marks with the active command).          *)
OutputIsAttributed ==
    (runtime.id # 0 /\ line = <<>> /\ active # 0)
        => (last.late \/ (last.id = active /\ last.to = runtime.id))
============================================================================
