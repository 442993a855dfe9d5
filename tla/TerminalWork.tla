---------------------------- MODULE TerminalWork ----------------------------
(***************************************************************************)
(* The terminal of a session: its input, the command its output belongs    *)
(* to, its events with the triggers they set off, and the log shards they  *)
(* are written to.  Each behaves as its own module says; a behaviour is    *)
(* about one of them.                                                      *)
(***************************************************************************)
EXTENDS TerminalInput

CONSTANTS
    Senders, MaxRuntimes, Mixes,                                       \* CommandOutput
    MaxEvents, TrimBatch, InboundCap, InboundBatch, OutboxCap, SendSlots, RunSlots, Quotas,
                                                                       \* EventLog
    Appends, MaxTime, Retention, KeysAgree, MaxDeletes                 \* LogShards

VARIABLES
    work,
    mix, link, links, change, line, sender, active, last,
    quota, conn, clock, profile, inq, inqs, events, count, saved, accepted, sends, runs,
    reached, outbox, sink, written, ending,
    time, dir, file, files, locks, append, checked, remover, deletes, removed, read

Commands == INSTANCE CommandOutput WITH runtime <- link, made <- links
Events   == INSTANCE EventLog
Shards   == INSTANCE LogShards

commandVars == <<mix, link, links, change, line, sender, active, last>>
logVars     == <<quota, conn, clock, profile, inq, inqs, events, count, saved, accepted,
                 sends, runs, reached, outbox, sink, written, ending>>
shardVars   == <<time, dir, file, files, locks, append, checked, remover, deletes, removed, read>>
workVars    == <<work, vars, commandVars, logVars, shardVars>>

ASSUME WorkAssumption ==
    /\ {MaxEvents, TrimBatch, InboundCap, InboundBatch, OutboxCap, SendSlots, RunSlots}
           \subseteq Nat \ {0}
    /\ \A q \in Quotas : q \in Events!QuotaShape
    /\ IsFiniteSet(Senders) /\ MaxRuntimes \in Nat /\ Mixes \subseteq SUBSET Commands!Kinds
    /\ {MaxTime, Retention, MaxDeletes} \subseteq Nat /\ KeysAgree \in BOOLEAN

None == "idle"

CommandsIdle ==
    /\ mix = None /\ link = None /\ links = None /\ change = None /\ line = None
    /\ sender = None /\ active = None /\ last = None
EventsIdle ==
    /\ quota = None /\ conn = None /\ clock = None /\ profile = None /\ inq = None
    /\ inqs = None /\ events = None /\ count = None /\ saved = None /\ accepted = None
    /\ sends = None /\ runs = None /\ reached = None /\ outbox = None /\ sink = None
    /\ written = None /\ ending = None
ShardsIdle ==
    /\ time = None /\ dir = None /\ file = None /\ files = None /\ locks = None
    /\ append = None /\ checked = None /\ remover = None /\ deletes = None
    /\ removed = None /\ read = None

WorkInit ==
    /\ work \in {"input", "commands", "events", "shards"}
    /\ Init
    /\ work # "input" => budget = (CHOOSE b \in Budgets : TRUE)
    /\ IF work = "commands" THEN Commands!Init ELSE CommandsIdle
    /\ IF work = "events" THEN Events!Init ELSE EventsIdle
    /\ IF work = "shards" THEN Shards!ShardInit ELSE ShardsIdle

WorkNext ==
    \/ work = "input" /\ Next /\ UNCHANGED <<work, commandVars, logVars, shardVars>>
    \/ work = "commands" /\ Commands!Next /\ UNCHANGED <<work, vars, logVars, shardVars>>
    \/ work = "events" /\ Events!Next /\ UNCHANGED <<work, vars, commandVars, shardVars>>
    \/ work = "shards" /\ Shards!ShardNext /\ UNCHANGED <<work, vars, commandVars, logVars>>

WorkSpec == WorkInit /\ [][WorkNext]_workVars

----------------------------------------------------------------------------
(* Properties.                                                             *)

\* What is typed, and what a trigger sends, reaches only the connection and
\* the channel it was meant for (TerminalInput, EventLog).
InputStaysHome ==
    /\ NoStaleKeys /\ ChannelIsOwn
    /\ work = "events" => Events!TriggersStayHome

\* Output is marked with the command it belongs to (CommandOutput).
OutputIsAttributed == work = "commands" => Commands!OutputIsAttributed

\* What was typed is logged (TerminalInput), events are kept in order and
\* within their bounds (EventLog), and what was appended to a log shard stays
\* where its reference says (LogShards).
LogsAreKept ==
    /\ LogIsWritten
    /\ work = "events" => Events!EventsAreKept
    /\ work = "shards" => Shards!ShardsAreKept
=============================================================================
