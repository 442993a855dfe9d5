------------------------------ MODULE EventLog ------------------------------
(***************************************************************************)
(* The events of one session: how the output of its connections, what its  *)
(* triggers do, and the desktop's own remarks reach the store and the log. *)
(*   - a reader stamps a chunk while it holds the registry, shows it, and  *)
(*     puts it on the session's bounded inbound queue;                     *)
(*   - the queue's worker takes a batch, and for every chunk records the   *)
(*     event, appends to the log shards, and applies the triggers, with    *)
(*     the store unlocked in between; it saves the store now and then;     *)
(*   - a trigger starts local commands and sends texts to the connection   *)
(*     whose output matched;                                               *)
(*   - a remark (a system event) goes to the store at once, and through an *)
(*     outbox to the worker that writes it to the log;                     *)
(*   - an update flushes the queues and may have to try again; the exit    *)
(*     closes them, then the outbox, then saves.                           *)
(***************************************************************************)
EXTENDS Integers, Sequences, FiniteSets, SequencesExt

CONSTANTS
    MaxEvents,   \* MAX_EVENTS_PER_SESSION
    TrimBatch,   \* EVENT_TRIM_BATCH
    InboundCap,  \* INBOUND_LOG_QUEUE_CAPACITY
    InboundBatch,\* INBOUND_LOG_BATCH_MAX_REQUESTS
    OutboxCap,   \* MAX_SYSTEM_EVENT_OUTBOX
    SendSlots,   \* MAX_TRIGGER_SEND_BATCH_CONCURRENCY
    RunSlots,    \* MAX_TRIGGER_COMMAND_CONCURRENCY
    Quotas       \* bounds of a behaviour, one of which it keeps to

(* What happens at most: chunks received, connections, texts of a trigger, *)
(* saves that fail; what triggers do; whether chunks may be binary and the *)
(* profile deleted; flushes of an update; whether the application exits.   *)
QuotaShape == [chunks : Nat, runtimes : Nat, texts : Nat, faults : Nat,
               matches : SUBSET {"text", "command"}, binary : BOOLEAN,
               deletes : BOOLEAN, flushes : Nat, exits : BOOLEAN]

VARIABLES
    quota,      \* what is left of the bounds of this behaviour
    conn,       \* the registered connection, 0 when none, and how many there were
    clock,      \* the time; every stamp is later than those before it
    profile,    \* does the session exist?
    inq,        \* the inbound queue registered for the session, 0 when none
    inqs,       \* every inbound queue, with its worker
    events,     \* the session's events in the store, in the store's order
    count,      \* event_counts: the cached number of events, -1 when none
    saved,      \* the events of the last save
    accepted,   \* stamps of the text chunks a queue accepted
    sends,      \* the trigger texts under way: of whose output, bound to which connection
    runs,       \* the trigger commands under way
    reached,    \* where trigger texts went: <<connection that matched, connection>>
    outbox,     \* system events that wait for the sink
    sink,       \* the sink's worker, its wake-up and what it drained
    written,    \* the stamp of the last system event written to the log
    ending      \* the flush of an update and the exit

logVars == <<quota, conn, clock, profile, inq, inqs, events, count, saved, accepted,
             sends, runs, reached, outbox, sink, written, ending>>

store    == <<events, count>>
remarks  == <<outbox, sink, written>>
triggers == <<sends, runs, reached>>

NewInbound == [items |-> <<>>, open |-> TRUE, at |-> "idle", batch |-> <<>>,
               recorded |-> FALSE, dirty |-> FALSE]

Init ==
    /\ quota \in Quotas
    /\ conn = [id |-> 0, made |-> 0] /\ clock = 0 /\ profile = TRUE
    /\ inq = 0 /\ inqs = <<>>
    /\ events = <<>> /\ count = -1 /\ saved = <<>> /\ accepted = {}
    /\ sends = <<>> /\ runs = <<>> /\ reached = {}
    /\ outbox = <<>> /\ sink = [at |-> "wait", wake |-> FALSE, got |-> <<>>] /\ written = 0
    /\ ending = [at |-> "running", drains |-> {}, waits |-> {}]

----------------------------------------------------------------------------
(* The store.  An event knows its time, its kind and the connection it     *)
(* speaks of, 0 when none in particular.                                   *)
Event(kind, ts, c) == [kind |-> kind, ts |-> ts, conn |-> c]

(* trim_events_if_needed: the count is cached; once it passes the limit by *)
(* a batch, the oldest go.                                                 *)
Trimmed(list, n) ==
    IF n <= MaxEvents + TrimBatch THEN [list |-> list, count |-> n]
    ELSE [list |-> SubSeq(list, n - MaxEvents + 1, Len(list)), count |-> MaxEvents]

Counted(list) == IF count = -1 THEN Len(list) ELSE count + 1

Stored(list) == Trimmed(list, Counted(list))

InTime(list) == SortSeq(list, LAMBDA a, b : a.ts < b.ts)

\* Mutant: an event that comes late is only appended.
Appended(e) == Append(events, e)

(* record_prepared_event: a chunk's event comes with the stamp it was      *)
(* given on arrival; the list is sorted again when that is not the latest. *)
Placed(e) ==
    LET list == Append(events, e)
    IN  IF events # <<>> /\ Last(events).ts > e.ts THEN InTime(list) ELSE list

Keep(list) == events' = Stored(list).list /\ count' = Stored(list).count

(* push_system_event: into the store, and into the outbox if the sink is   *)
(* there and the outbox has room; the sink's worker is woken.              *)
Notes(kind, c, n) == [i \in 1..n |-> Event(kind, clock + i, c)]
CountedWith(acc) == IF acc.count = -1 THEN Len(acc.list) + 1 ELSE acc.count + 1
NotedStore(list) ==
    FoldLeft(LAMBDA acc, e : Trimmed(Append(acc.list, e), CountedWith(acc)),
             [list |-> events, count |-> count], list)
Fits(list) == LET room == OutboxCap - Len(outbox)
              IN  SubSeq(list, 1, IF Len(list) <= room THEN Len(list) ELSE room)

Note(kind, c, n) ==
    IF ~profile \/ n = 0 THEN UNCHANGED <<clock, store, remarks>>
    ELSE /\ clock' = clock + n
         /\ events' = NotedStore(Notes(kind, c, n)).list
         /\ count' = NotedStore(Notes(kind, c, n)).count
         /\ IF sink.at \in {"wait", "write"}
            THEN /\ outbox' = outbox \o Fits(Notes(kind, c, n))
                 /\ sink' = [sink EXCEPT !.wake = TRUE]
            ELSE UNCHANGED <<outbox, sink>>
         /\ UNCHANGED written

----------------------------------------------------------------------------
(* The connection, as opens, closes and reconnects leave it.               *)

Running == ending.at = "running"

Connects ==
    /\ Running /\ profile /\ conn.made < quota.runtimes
    /\ conn' = [id |-> conn.made + 1, made |-> conn.made + 1]
    /\ Note("remark", 0, 1)
    /\ UNCHANGED <<quota, profile, inq, inqs, saved, accepted, triggers, ending>>

Disconnects ==
    /\ conn.id # 0
    /\ conn' = [conn EXCEPT !.id = 0]
    /\ Note("remark", 0, 1)
    /\ UNCHANGED <<quota, profile, inq, inqs, saved, accepted, triggers, ending>>

(* delete_session_profile: the session is closed; its events go with it,   *)
(* and the remarks that still wait for the sink.                           *)
DeleteProfile ==
    /\ Running /\ quota.deletes /\ profile /\ conn.id = 0
    /\ profile' = FALSE
    /\ events' = <<>> /\ count' = -1 /\ saved' = <<>> /\ accepted' = {}
    /\ outbox' = <<>>
    /\ UNCHANGED <<quota, conn, clock, inq, inqs, triggers, sink, written, ending>>

----------------------------------------------------------------------------
(* record_channel_bytes: only the registered connection's output counts,   *)
(* and the registry stays locked until the chunk is queued.  A full queue  *)
(* or one that is closing refuses it.  A chunk without text has no event.  *)

InTarget == IF inq = 0 THEN Len(inqs) + 1 ELSE inq
WithInbound == IF inq = 0 THEN Append(inqs, NewInbound) ELSE inqs

Receive(text) ==
    LET chunk == [ts |-> clock + 1, conn |-> conn.id, text |-> text]
    IN  /\ conn.id # 0 /\ quota.chunks > 0 /\ (text \/ quota.binary)
        /\ quota' = [quota EXCEPT !.chunks = @ - 1]
        /\ clock' = clock + 1
        /\ IF Running
           THEN /\ inq' = InTarget
                /\ IF Len(WithInbound[InTarget].items) < InboundCap
                   THEN /\ inqs' = [WithInbound EXCEPT ![InTarget].items = Append(@, chunk)]
                        /\ accepted' = IF text THEN accepted \cup {chunk.ts} ELSE accepted
                   ELSE inqs' = WithInbound /\ UNCHANGED accepted
           ELSE UNCHANGED <<inq, inqs, accepted>>
        /\ UNCHANGED <<conn, profile, store, saved, triggers, remarks, ending>>

----------------------------------------------------------------------------
(* run_inbound_log_queue.                                                  *)

Worker(q)      == inqs[q]
Works(q, w)    == inqs' = [inqs EXCEPT ![q] = w]

(* A batch ends at the first that exceeds the byte limit, or the queue's. *)
TakeBatch(q) ==
    /\ Worker(q).at = "idle" /\ Worker(q).items # <<>>
    /\ \E n \in 1..InboundBatch :
        /\ n <= Len(Worker(q).items)
        /\ Works(q, [Worker(q) EXCEPT !.batch = SubSeq(Worker(q).items, 1, n),
                                      !.items = SubSeq(@, n + 1, Len(@)),
                                      !.at = "record",
                                      !.dirty = @ \/ \E i \in 1..n : Worker(q).items[i].text])
    /\ UNCHANGED <<quota, conn, clock, profile, inq, store, saved, accepted, triggers, remarks, ending>>

(* The event of the first chunk of the batch, while the profile exists.    *)
RecordEvent(q) ==
    LET chunk == Head(Worker(q).batch)
    IN  /\ Worker(q).at = "record"
        /\ IF chunk.text /\ profile
           THEN Keep(Placed(Event("in", chunk.ts, chunk.conn)))
           ELSE UNCHANGED store
        /\ Works(q, [Worker(q) EXCEPT !.at = "shards", !.recorded = chunk.text /\ profile])
        /\ UNCHANGED <<quota, conn, clock, profile, inq, saved, accepted, triggers, remarks, ending>>

(* The raw, text and JSONL shards; what they hold is LogShards' matter.    *)
(* Errors are noted in the stored event, whatever happened to it meanwhile.*)
AppendShards(q) ==
    LET chunk == Head(Worker(q).batch)
        rest  == Tail(Worker(q).batch)
    IN  /\ Worker(q).at = "shards"
        /\ Works(q, IF chunk.text THEN [Worker(q) EXCEPT !.at = "trigger"]
                    ELSE [Worker(q) EXCEPT !.batch = rest,
                                           !.at = IF rest = <<>> THEN "idle" ELSE "record"])
        /\ UNCHANGED <<quota, conn, clock, profile, inq, store, saved, accepted, triggers, remarks, ending>>

(* Slots that no text or command holds. *)
Free(calls, slots) == Cardinality({i \in DOMAIN calls : calls[i].at # "done"}) < slots

\* Mutant: trigger texts are bound to the connection there is now.
SourceNow(chunk) == IF conn.id = 0 THEN chunk.conn ELSE conn.id

(* A trigger's texts and commands are bound to the connection whose output *)
(* matched.                                                                *)
Source(chunk) == chunk.conn

(* apply_trigger_actions_locked, then the dispatch.  What finds no slot is *)
(* skipped, with a remark.                                                 *)
ApplyTriggers(q, match) ==
    LET chunk == Head(Worker(q).batch)
        rest  == Tail(Worker(q).batch)
        hits  == Worker(q).recorded /\ profile /\ match # "none"
    IN  /\ Worker(q).at = "trigger"
        /\ match \in quota.matches \cup {"none"}
        /\ sends' = IF hits /\ match = "text" /\ Free(sends, SendSlots)
                    THEN Append(sends, [of |-> chunk.conn, conn |-> Source(chunk),
                                        left |-> quota.texts, at |-> "send"])
                    ELSE sends
        /\ runs' = IF hits /\ match = "command" /\ Free(runs, RunSlots)
                   THEN Append(runs, [conn |-> Source(chunk), at |-> "run"])
                   ELSE runs
        /\ Note("remark", 0, IF ~hits THEN 0
                ELSE 1 + (IF match = "text" /\ ~Free(sends, SendSlots) THEN 1 ELSE 0)
                       + (IF match = "command" /\ ~Free(runs, RunSlots) THEN 1 ELSE 0))
        /\ Works(q, [Worker(q) EXCEPT !.batch = rest,
                                      !.at = IF rest = <<>> THEN "idle" ELSE "record"])
        /\ UNCHANGED <<quota, conn, profile, inq, saved, accepted, reached, ending>>

(* A save: it may fail, and is tried again later. *)
Saves ==
    \/ saved' = events /\ UNCHANGED quota
    \/ quota.faults > 0 /\ quota' = [quota EXCEPT !.faults = @ - 1] /\ UNCHANGED saved

(* The checkpoint of a worker that has recorded something since the last.  *)
Checkpoint(q) ==
    /\ Worker(q).at = "idle" /\ Worker(q).dirty
    /\ Worker(q).open
    /\ Saves
    /\ Works(q, [Worker(q) EXCEPT !.dirty = quota' # quota])
    /\ UNCHANGED <<conn, clock, profile, inq, store, accepted, triggers, remarks, ending>>

(* A queue whose sender was dropped is emptied first.                      *)
FinishQueue(q) ==
    /\ Worker(q).at = "idle" /\ ~Worker(q).open /\ Worker(q).items = <<>>
    /\ IF Worker(q).dirty THEN Saves ELSE UNCHANGED <<saved, quota>>
    /\ Works(q, [Worker(q) EXCEPT !.at = "done", !.dirty = FALSE])
    /\ UNCHANGED <<conn, clock, profile, inq, store, accepted, triggers, remarks, ending>>

----------------------------------------------------------------------------
(* What a trigger started.                                                 *)

(* A text goes to its connection while that is the registered one, under   *)
(* the outbound lane; the rest of the batch is skipped when one fails.     *)
WriteText(b) ==
    /\ sends[b].at = "send"
    /\ IF conn.id = sends[b].conn
       THEN \/ /\ sends' = [sends EXCEPT ![b].at = "record"]
               /\ reached' = reached \cup {<<sends[b].of, conn.id>>}
            \/ /\ sends' = [sends EXCEPT ![b].at = "failed"]
               /\ UNCHANGED reached
       ELSE sends' = [sends EXCEPT ![b].at = "failed"] /\ UNCHANGED reached
    /\ UNCHANGED <<quota, conn, clock, profile, inq, inqs, store, saved, accepted, runs, remarks, ending>>

(* The record of what was sent: raw shard, event, save, text shards.  It   *)
(* is made only while the connection is still the registered one.          *)
RecordText(b) ==
    LET left == sends[b].left - 1
    IN  /\ sends[b].at = "record"
        /\ IF conn.id = sends[b].conn
           THEN /\ sends' = [sends EXCEPT ![b] = [@ EXCEPT !.left = left,
                                                      !.at = IF left = 0 THEN "done" ELSE "send"]]
                /\ IF profile
                   THEN /\ clock' = clock + 1
                        /\ Keep(Append(events, Event("out", clock + 1, conn.id)))
                        /\ saved' = events'
                   ELSE UNCHANGED <<clock, store, saved>>
           ELSE /\ sends' = [sends EXCEPT ![b].at = "failed"]
                /\ UNCHANGED <<clock, store, saved>>
        /\ UNCHANGED <<quota, conn, profile, inq, inqs, accepted, runs, reached, remarks, ending>>

(* record_runtime_system_event: a remark about a connection, while it is   *)
(* the registered one.                                                     *)
NoteFor(c) == IF conn.id = c THEN Note("result", c, 1) ELSE UNCHANGED <<clock, store, remarks>>

FailTexts(b) ==
    /\ sends[b].at = "failed"
    /\ NoteFor(sends[b].conn)
    /\ sends' = [sends EXCEPT ![b].at = "done"]
    /\ UNCHANGED <<quota, conn, profile, inq, inqs, saved, accepted, runs, reached, ending>>

\* Mutant: the result of a command is noted whatever connection there is.
EndsAnyway(b) ==
    /\ runs[b].at = "run"
    /\ Note("result", runs[b].conn, 1)
    /\ runs' = [runs EXCEPT ![b].at = "done"]
    /\ UNCHANGED <<quota, conn, profile, inq, inqs, saved, accepted, sends, reached, ending>>

(* A command ends, is killed after its time, or cannot be started or read. *)
CommandEnds(b) ==
    /\ runs[b].at = "run"
    /\ NoteFor(runs[b].conn)
    /\ runs' = [runs EXCEPT ![b].at = "done"]
    /\ UNCHANGED <<quota, conn, profile, inq, inqs, saved, accepted, sends, reached, ending>>

----------------------------------------------------------------------------
(* The sink of system events.                                              *)

SinkWakes ==
    /\ sink.at = "wait" /\ sink.wake
    /\ sink' = [at |-> "write", wake |-> FALSE, got |-> outbox]
    /\ outbox' = <<>>
    /\ UNCHANGED <<quota, conn, clock, profile, inq, inqs, store, saved, accepted, triggers, written, ending>>

\* Mutant: the sink stops at the first batch when it is shut down.
SinkForgets ==
    /\ sink.at \in {"write", "last"}
    /\ IF sink.got # <<>>
       THEN /\ written' = Last(sink.got).ts
            /\ sink' = [sink EXCEPT !.got = <<>>]
       ELSE /\ sink' = [sink EXCEPT !.at = IF @ = "last" THEN "gone" ELSE "wait"]
            /\ UNCHANGED written
    /\ UNCHANGED <<quota, conn, clock, profile, inq, inqs, store, saved, accepted, triggers, outbox, ending>>

(* The events are written to the log; then the outbox is drained again,     *)
(* until it is empty.                                                      *)
SinkWrites ==
    /\ sink.at \in {"write", "last"}
    /\ IF sink.got # <<>>
       THEN /\ written' = Last(sink.got).ts
            /\ sink' = [sink EXCEPT !.got = <<>>]
            /\ UNCHANGED outbox
       ELSE /\ sink' = IF outbox # <<>> THEN [sink EXCEPT !.got = outbox]
                       ELSE [sink EXCEPT !.at = IF @ = "last" THEN "gone" ELSE "wait"]
            /\ outbox' = <<>>
            /\ UNCHANGED written
    /\ UNCHANGED <<quota, conn, clock, profile, inq, inqs, store, saved, accepted, triggers, ending>>

----------------------------------------------------------------------------
(* finish_inbound_log_queues: the registered queue is taken out and its    *)
(* sender dropped; it is waited for, and so are the queues that an earlier *)
(* flush had to leave behind.                                              *)

Finished(q) == inqs[q].at = "done"
Dropped == IF inq = 0 THEN inqs ELSE [inqs EXCEPT ![inq].open = FALSE]

\* Mutant: a flush does not wait for what an earlier one left.
WaitedNow == {inq} \ {0}

Waited == ({inq} \ {0}) \cup ending.drains

TakeQueues(next) ==
    /\ inq' = 0 /\ inqs' = Dropped
    /\ ending' = [at |-> next, drains |-> {}, waits |-> Waited]

(* An update has closed every session and keeps them closed. *)
FlushBegins ==
    /\ Running /\ quota.flushes > 0 /\ conn.id = 0
    /\ quota' = [quota EXCEPT !.flushes = @ - 1]
    /\ TakeQueues("flush")
    /\ UNCHANGED <<conn, clock, profile, store, saved, accepted, triggers, remarks>>

(* Not all of them end in time: the update gives up, and the next flush    *)
(* waits for those again.                                                  *)
FlushTimesOut ==
    /\ ending.at = "flush" /\ \E q \in ending.waits : ~Finished(q)
    /\ ending' = [at |-> "running", waits |-> {},
                  drains |-> ending.drains \cup {q \in ending.waits : ~Finished(q)}]
    /\ UNCHANGED <<quota, conn, clock, profile, inq, inqs, store, saved, accepted, triggers, remarks>>

FlushSaves ==
    /\ ending.at = "flush" /\ \A q \in ending.waits : Finished(q)
    /\ Saves
    /\ ending' = [at |-> IF quota' = quota THEN "flushed" ELSE "running", waits |-> {}, drains |-> {}]
    /\ UNCHANGED <<conn, clock, profile, inq, inqs, store, accepted, triggers, remarks>>

(* The update goes on to install; it may fail there. *)
UpdateFails ==
    /\ ending.at = "flushed"
    /\ ending' = [ending EXCEPT !.at = "running"]
    /\ UNCHANGED <<quota, conn, clock, profile, inq, inqs, store, saved, accepted, triggers, remarks>>

ExitBegins ==
    /\ Running /\ quota.exits
    /\ TakeQueues("queues")
    /\ UNCHANGED <<quota, conn, clock, profile, store, saved, accepted, triggers, remarks>>

(* The queues have five seconds; then the sink is shut: from now on nobody *)
(* adds to the outbox.                                                     *)
ExitShutsSink ==
    /\ ending.at = "queues"
    /\ ending' = [ending EXCEPT !.at = "sink"]
    /\ sink' = [sink EXCEPT !.at = "last", !.wake = FALSE]
    /\ UNCHANGED <<quota, conn, clock, profile, inq, inqs, store, saved, accepted, triggers, outbox, written>>

ExitSaves ==
    /\ ending.at = "sink" /\ sink.at = "gone"
    /\ Saves
    /\ ending' = [ending EXCEPT !.at = IF quota' = quota THEN "saved" ELSE "unsaved"]
    /\ UNCHANGED <<conn, clock, profile, inq, inqs, store, accepted, triggers, remarks>>

----------------------------------------------------------------------------
Live == ending.at \notin {"saved", "unsaved"}

WorkerStep(q) ==
    \/ TakeBatch(q) \/ RecordEvent(q) \/ AppendShards(q)
    \/ \E match \in {"none", "text", "command"} : ApplyTriggers(q, match)
    \/ Checkpoint(q) \/ FinishQueue(q)

SendStep(b) == WriteText(b) \/ RecordText(b) \/ FailTexts(b)

Next ==
    /\ Live
    /\ \/ Connects \/ Disconnects \/ DeleteProfile
       \/ \E text \in BOOLEAN : Receive(text)
       \/ \E q \in DOMAIN inqs : WorkerStep(q)
       \/ \E b \in DOMAIN sends : SendStep(b)
       \/ \E b \in DOMAIN runs : CommandEnds(b)
       \/ SinkWakes \/ SinkWrites
       \/ FlushBegins \/ FlushTimesOut \/ FlushSaves \/ UpdateFails
       \/ ExitBegins \/ ExitShutsSink \/ ExitSaves

----------------------------------------------------------------------------
(* Properties.                                                             *)

Stamps(list) == {list[i].ts : i \in DOMAIN list}

(* The events of a session are in the order in which they happened, those  *)
(* of a connection before those of the next, although the chunks of two    *)
(* connections may be recorded by two workers, and texts and results are   *)
(* recorded past them (record_prepared_event, record_runtime_system_event).*)
EventsInOrder ==
    \A i, j \in DOMAIN events : i < j =>
        /\ events[i].ts < events[j].ts
        /\ (events[i].conn # 0 /\ events[j].conn # 0) => events[i].conn <= events[j].conn

(* A trigger's text reaches only the connection whose output matched,      *)
(* however long the chunk waited (send_trigger_text_inner).                *)
TriggersStayHome == \A p \in reached : p[1] = p[2]

(* The store keeps the newest events and counts them right; nothing of a   *)
(* deleted session comes back, whatever was queued, started or waiting     *)
(* (trim_events_if_needed, delete_profile).                                *)
StoreIsBounded ==
    /\ Len(events) <= MaxEvents + TrimBatch
    /\ count # -1 => count = Len(events)
    /\ ~profile => events = <<>>

(* A chunk that a queue accepted is in the store when that queue has ended *)
(* and in what was saved when an update's flush succeeded or the exit is   *)
(* over, unless enough newer events pushed it out                          *)
(* (finish_inbound_log_queues).                                            *)
Missing(ts, list) == ts \notin Stamps(list) /\ ~(Len(list) >= MaxEvents /\ ts < Head(list).ts)
AcceptedIsKept ==
    /\ (\A q \in DOMAIN inqs : Finished(q))
           => \A ts \in accepted : ~Missing(ts, events)
    /\ ending.at = "flushed" => \A ts \in accepted : ~Missing(ts, saved)
    /\ (ending.at = "saved" /\ \A q \in DOMAIN inqs : Finished(q))
           => \A ts \in accepted : ~Missing(ts, saved)

(* The log has the remarks in order and none twice; when the sink is gone  *)
(* nothing is left in the outbox, and a sink that waits will be woken      *)
(* (SystemEventSinkRuntime.enqueue, run_system_event_sink).                *)
RemarksAreWritten ==
    /\ LET waiting == sink.got \o outbox
       IN  \A i \in DOMAIN waiting :
               waiting[i].ts > (IF i = 1 THEN written ELSE waiting[i - 1].ts)
    /\ sink.at = "gone" => outbox = <<>>
    /\ (sink.at = "wait" /\ outbox # <<>>) => sink.wake

EventsAreKept ==
    /\ EventsInOrder /\ StoreIsBounded /\ AcceptedIsKept /\ RemarksAreWritten
=============================================================================
