--------------------------- MODULE TerminalInput ---------------------------
(***************************************************************************)
(* The path of a keystroke of one session, from the window that typed it   *)
(* to the channel of the connection and to the session's log:              *)
(*   - the window numbers its packets and sends them without waiting for   *)
(*     an answer; the calls may arrive in any order and more than once;    *)
(*   - a stream of the desktop puts the packets in order again and hands   *)
(*     them to the session's write queue;                                  *)
(*   - the queue's worker merges what waits, waits for the session's       *)
(*     outbound lane, writes to the connection the input was typed for,    *)
(*     and hands the text to the deferred queue, whose worker writes the   *)
(*     log;                                                                *)
(*   - a paced sender pins a connection, puts one payload at a time on the *)
(*     same queue and waits a bounded time for its confirmation.           *)
(* Meanwhile the session is closed and opened again, its connection is     *)
(* lost, a tmux attach exchanges the terminal channel of a connection      *)
(* under the outbound lane, other writers take the lane, and the           *)
(* application exits.                                                      *)
(***************************************************************************)
EXTENDS Integers, Sequences, FiniteSets, SequencesExt

CONSTANTS
    Windows,        \* windows that show the session
    MaxReordered,   \* MAX_REORDERED_PACKETS
    Capacity,       \* INTERACTIVE_WRITE_QUEUE_CAPACITY
    MaxBatch,       \* INTERACTIVE_WRITE_BATCH_MAX_BYTES, in packets
    SlowDrain,      \* a drain of the log may take longer than a close waits
    Budgets         \* bounds of a behaviour, one of which it keeps to

(* What happens at most: keys typed on a stream, streams begun, payloads   *)
(* of the paced sender, connections opened, tmux attaches, write and       *)
(* deferred queues created; and whether the application exits.             *)
BudgetShape == [keys : Nat, streams : Nat, payloads : Nat, runtimes : Nat,
                attaches : Nat, queues : Nat, logs : Nat, exits : BOOLEAN]

ASSUME BoundsAssumption ==
    /\ MaxReordered \in Nat \ {0} /\ Capacity \in Nat \ {0}
    /\ MaxBatch \in Nat \ {0}
    /\ SlowDrain \in BOOLEAN
    /\ \A b \in Budgets : b \in BudgetShape

VARIABLES
    budget,     \* the bounds of this behaviour
    runtime,    \* the registry's entry of the session and its terminal channel
    made,       \* how many connections, channels and streams there were
    front,      \* the stream each window sends on, 0 when none
    stream,     \* the desktop's stream of each window
    queue,      \* the write queue registered for the session, 0 when none
    queues,     \* every write queue created, with its worker
    lane,       \* the session's outbound lane: its holder, then those who wait
    job,        \* the paced sender and its registered job
    deferred,   \* the deferred queue registered for the session, 0 when none
    deferreds,  \* every deferred queue created, with its worker
    life,       \* the holder of the session's lifecycle lane
    exit,       \* progress of the application's exit
    wire,       \* the input written to the terminal channels, in order
    log         \* the input written to the session's log

vars == <<budget, runtime, made, front, stream, queue, queues, lane, job,
          deferred, deferreds, life, exit, wire, log>>

input    == <<front, stream>>
writing  == <<queue, queues>>
logging  == <<deferred, deferreds, log>>
session  == <<budget, runtime, made, life, exit>>

NoRuntime == [id |-> 0, channel |-> 0, opened |-> 0, closed |-> FALSE]
NoStream == [id |-> 0, runtime |-> 0, sent |-> 0, next |-> 0, pending |-> {},
             failed |-> FALSE]
NewQueue == [items |-> <<>>, stopped |-> FALSE, at |-> "idle", batch |-> <<>>,
             back |-> <<>>, channel |-> 0, carried |-> FALSE]
NoJob    == [at |-> "none", runtime |-> 0, typed |-> 0, sent |-> 0]
NewLog   == [items |-> <<>>, open |-> TRUE]

Init ==
    /\ budget \in Budgets
    /\ runtime = NoRuntime
    /\ made = [runtime |-> 0, channel |-> 0, stream |-> 0]
    /\ front = [w \in Windows |-> 0]
    /\ stream = [w \in Windows |-> NoStream]
    /\ queue = 0 /\ queues = <<>>
    /\ lane = <<>>
    /\ job = NoJob
    /\ deferred = 0 /\ deferreds = <<>>
    /\ life = [at |-> "idle", runtime |-> 0, log |-> 0]
    /\ exit = [at |-> "running", queue |-> 0, log |-> 0]
    /\ wire = <<>> /\ log = {}

----------------------------------------------------------------------------
(* current_session_runtime_id: the registered connection, unless its       *)
(* reader has already closed it.                                           *)
Current == IF runtime.closed THEN 0 ELSE runtime.id

(* INTERACTIVE_WRITE_ACCEPTING and DEFERRED_INTERACTIVE_ACCEPTING: both    *)
(* are cleared before the exit waits for anybody.                          *)
Accepting == exit.at = "running"

(* The lane's mutex serves in the order of arrival.  The sends that bypass *)
(* the queue (send_text, run_command, one-key values, modem transfers)     *)
(* hold it too: to those who wait that is only a longer wait.              *)
Attach == 0
Holds(a) == lane # <<>> /\ Head(lane) = a
LeavesLane(a) == \E i \in DOMAIN lane : lane[i] = a /\ lane' = RemoveAt(lane, i)

(* A packet of a stream, or a payload of the paced job (stream 0).  It is   *)
(* bound to the connection that was registered when it was accepted;       *)
(* "typed" is that connection's terminal channel at that moment.           *)
Request(s, n, r, c) == [stream |-> s, seq |-> n, runtime |-> r, typed |-> c]
IsJob(r) == r.stream = 0

(* The queue new input goes to: the registered one, else a new one with    *)
(* its worker.                                                             *)
Target == IF queue = 0 THEN Len(queues) + 1 ELSE queue
WithTarget == IF queue = 0 THEN Append(queues, NewQueue) ELSE queues
Room == Capacity - (IF queue = 0 THEN 0 ELSE Len(queues[queue].items))
MayTarget == queue # 0 \/ Len(queues) < budget.queues
Enqueue(new) ==
    /\ queue' = Target
    /\ queues' = [WithTarget EXCEPT ![Target].items = @ \o new]

----------------------------------------------------------------------------
(* The connection, as the session's opens and its readers leave it.        *)

Connected ==
    /\ made.runtime < budget.runtimes
    /\ made' = [made EXCEPT !.runtime = @ + 1, !.channel = @ + 1]
    /\ runtime' = [id |-> made.runtime + 1, channel |-> made.channel + 1,
                   opened |-> made.runtime + 1, closed |-> FALSE]

OpenSession ==
    /\ life.at = "idle" /\ Current = 0 /\ Accepting
    /\ Connected
    /\ UNCHANGED <<input, writing, lane, job, logging, life, exit, wire, budget>>

(* The reconnect supervisor puts the new connection in the place of the    *)
(* lost one, which stayed registered; it does not wait for the session's   *)
(* lifecycle lane and does not touch the queues.                           *)
Reconnects ==
    /\ Current # 0
    /\ Connected
    /\ UNCHANGED <<input, writing, lane, job, logging, life, exit, wire, budget>>

ConnectionLost ==
    /\ Current # 0
    /\ runtime' = [runtime EXCEPT !.closed = TRUE]
    /\ UNCHANGED <<made, input, writing, lane, job, logging, life, exit, wire, budget>>

----------------------------------------------------------------------------
(* The window: TerminalInputStreams.prepare binds a stream, numbers the    *)
(* packets and never waits for an answer, so that a packet sent may arrive *)
(* at any later time and again after it arrived; packets of a stream the   *)
(* desktop no longer has are refused.                                      *)

BindStream(w) ==
    /\ front[w] = 0 /\ Current # 0
    /\ made.stream < budget.streams
    /\ made' = [made EXCEPT !.stream = @ + 1]
    /\ front' = [front EXCEPT ![w] = made.stream + 1]
    /\ stream' = [stream EXCEPT ![w] =
                    [NoStream EXCEPT !.id = made.stream + 1, !.runtime = Current]]
    /\ UNCHANGED <<runtime, writing, lane, job, logging, life, exit, wire, budget>>

Type(w) ==
    /\ front[w] # 0 /\ front[w] = stream[w].id /\ stream[w].sent < budget.keys
    /\ stream' = [stream EXCEPT ![w].sent = @ + 1]
    /\ UNCHANGED <<front, writing, lane, job, logging, session, wire>>

(* A reset follows an answer that was an error, an epoch of the terminal   *)
(* that ended, or a window that went away; the desktop learns of it later. *)
ResetStream(w) ==
    /\ front[w] # 0
    /\ front' = [front EXCEPT ![w] = 0]
    /\ UNCHANGED <<stream, writing, lane, job, logging, session, wire>>

CloseStream(w) ==
    /\ stream[w].id # 0 /\ front[w] # stream[w].id
    /\ stream' = [stream EXCEPT ![w] = NoStream]
    /\ UNCHANGED <<front, writing, lane, job, logging, session, wire>>

----------------------------------------------------------------------------
(* accept_text: a packet seen before is confirmed and ignored; one too far *)
(* ahead fails the stream; otherwise it waits for the numbers before it    *)
(* and everything that is now in order goes to the write queue, up to the  *)
(* first the queue refuses, which fails the stream.  STREAMS stays locked. *)

InOrder(st, n) ==
    /\ \A k \in st.next .. (st.next + n - 1) : k \in st.pending
    /\ st.next + n \notin st.pending

\* Mutant: packets are queued as they arrive.
AcceptUnordered(w, seq) ==
    /\ stream[w].id # 0 /\ stream[w].runtime = Current /\ MayTarget
    /\ Accepting /\ Room > 0
    /\ Enqueue(<<Request(stream[w].id, seq, Current, runtime.channel)>>)
    /\ UNCHANGED <<front, stream, lane, job, logging, session, wire>>

AcceptPacket(w, seq) ==
    LET st   == stream[w]
        held == [st EXCEPT !.pending = @ \cup {seq}]
        room == IF st.runtime # Current \/ ~Accepting THEN 0
                ELSE Room
        new(k) == [i \in 1..k |-> Request(st.id, st.next + i - 1, st.runtime, runtime.channel)]
    IN  /\ st.id # 0 /\ ~st.failed
        /\ st.next <= seq /\ seq \notin st.pending
        /\ \/ /\ seq - st.next >= MaxReordered
              /\ stream' = [stream EXCEPT ![w] = [st EXCEPT !.failed = TRUE, !.pending = {}]]
              /\ UNCHANGED <<queue, queues>>
           \/ /\ seq - st.next < MaxReordered
              /\ \E n \in 0..Cardinality(held.pending), k \in 0..Capacity :
                    /\ InOrder(held, n)
                    /\ k = IF n < room THEN n ELSE room
                    /\ n > 0 => MayTarget
                    /\ stream' = [stream EXCEPT ![w] =
                          [held EXCEPT !.next = @ + k,
                                       !.failed = k < n,
                                       !.pending = IF k < n THEN {}
                                                   ELSE @ \ (st.next .. (st.next + k - 1))]]
                    /\ IF n > 0 /\ st.runtime = Current /\ Accepting
                       THEN Enqueue(new(k))
                       ELSE UNCHANGED <<queue, queues>>
        /\ UNCHANGED <<front, lane, job, logging, session, wire>>

----------------------------------------------------------------------------
(* The paced sender: begin_job pins the connection, target checks it for   *)
(* each payload, and the payload waits in the queue for its confirmation.  *)

(* The job's cancellation flag is set: its sender ends, except one that    *)
(* has checked its target and only now sends.                              *)
EndJob ==
    IF job.at = "sending" THEN [job EXCEPT !.at = "late"]
    ELSE IF job.at \in {"none", "late"} THEN job
    ELSE [NoJob EXCEPT !.at = "ended"]

BeginJob ==
    /\ job.at = "none" /\ Current # 0 /\ budget.payloads > 0
    /\ job' = [job EXCEPT !.at = "ready", !.runtime = Current]
    /\ UNCHANGED <<input, writing, lane, logging, session, wire>>

JobTarget ==
    /\ job.at = "ready" /\ job.sent < budget.payloads
    /\ job' = IF Current # job.runtime THEN EndJob
              ELSE [job EXCEPT !.at = "sending", !.typed = runtime.channel]
    /\ UNCHANGED <<input, writing, lane, logging, session, wire>>

(* Then enqueue_interactive_payload_with_completion looks the queue up or  *)
(* creates it, and sends the request; nothing is locked since the target   *)
(* was checked.  A full queue refuses it.                                  *)
JobSends ==
    /\ job.at \in {"sending", "late"} /\ MayTarget
    /\ IF Accepting /\ Room > 0
       THEN /\ Enqueue(<<Request(0, job.sent + 1, job.runtime, job.typed)>>)
            /\ job' = IF job.at = "late" THEN [NoJob EXCEPT !.at = "ended"]
                      ELSE [job EXCEPT !.at = "waiting", !.sent = @ + 1]
       ELSE /\ job' = IF job.at = "late" THEN [NoJob EXCEPT !.at = "ended"] ELSE [job EXCEPT !.at = "ready"]
            /\ UNCHANGED writing
    /\ UNCHANGED <<input, lane, logging, session, wire>>

(* A payload that is not confirmed in time cancels the job; anybody may    *)
(* cancel it as well.                                                      *)
JobTimesOut ==
    /\ job.at = "waiting"
    /\ job' = EndJob
    /\ UNCHANGED <<input, writing, lane, logging, session, wire>>

CancelJob ==
    /\ job.at \in {"ready", "sending", "waiting"}
    /\ job' = EndJob
    /\ UNCHANGED <<input, writing, lane, logging, session, wire>>

----------------------------------------------------------------------------
(* The worker of a write queue.                                            *)

Live(q)     == q \in 1..Len(queues)
Worker(q)   == queues[q]
Step(q, w)  == queues' = [queues EXCEPT ![q] = w]
Idle(w)     == [w EXCEPT !.at = "idle", !.batch = <<>>, !.channel = 0, !.carried = FALSE]

(* The confirmation of a payload, or its failure: a sender that still      *)
(* waits goes on to its next payload.                                      *)
Answer(batch) ==
    IF (\E i \in DOMAIN batch : IsJob(batch[i])) /\ job.at = "waiting"
    THEN [job EXCEPT !.at = "ready"] ELSE job

(* Was this batch a payload whose job was cancelled meanwhile? *)
Cancelled(batch) == IsJob(Head(batch)) /\ job.at \in {"late", "ended"}

(* The packets that wait for the same connection as the first are merged;  *)
(* the first request that does not fit is set aside.                       *)
Mergeable(from, n) ==
    \A i \in 2..n : ~IsJob(from[i]) /\ from[i].runtime = from[1].runtime
Merged(from, n) ==
    IF IsJob(Head(from)) THEN n = 1
    ELSE /\ n <= MaxBatch /\ Mergeable(from, n)
         /\ n < Len(from) => (n = MaxBatch \/ ~Mergeable(from, n + 1))

(* The worker takes the request set aside, else the next one, and what it  *)
(* can merge with it.  A payload cancelled before is answered and skipped, *)
(* a batch typed for another connection than the registered one is         *)
(* dropped, any other waits for the outbound lane.  A queue stopped while  *)
(* the batch is gathered loses it as if it had been stopped before.        *)
WorkerTakes(q) ==
    LET w    == Worker(q)
        from == w.back \o w.items
    IN  /\ w.at = "idle" /\ ~w.stopped /\ from # <<>>
        /\ \E n \in 1..Len(from), m \in 0..1 :
            /\ Merged(from, n)
            /\ m = IF n < Len(from) /\ n < MaxBatch /\ ~IsJob(Head(from)) THEN 1 ELSE 0
            /\ LET batch == SubSeq(from, 1, n)
                   taken == [w EXCEPT !.back = SubSeq(from, n + 1, n + m),
                                      !.items = SubSeq(from, n + m + 1, Len(from))]
               IN  \/ /\ Cancelled(from) \/ Current # Head(from).runtime
                      /\ Step(q, taken)
                      /\ job' = Answer(batch) /\ UNCHANGED lane
                   \/ /\ ~Cancelled(from) /\ Current = Head(from).runtime
                      /\ Step(q, [taken EXCEPT !.batch = batch, !.at = "lane"])
                      /\ lane' = Append(lane, q) /\ UNCHANGED job
        /\ UNCHANGED <<input, queue, logging, session, wire>>

(* An idle worker whose queue was stopped ends; what still waits is        *)
(* dropped, and a sender waiting for a confirmation sees the queue closed. *)
WorkerEnds(q) ==
    LET w == Worker(q)
    IN  /\ w.at = "idle" /\ w.stopped
        /\ Step(q, [w EXCEPT !.at = "done", !.items = <<>>, !.back = <<>>])
        /\ job' = Answer(w.back \o w.items)
        /\ UNCHANGED <<input, queue, lane, logging, session, wire>>

(* acquire_outbound_lane waits a bounded time.  Under the lane a cancelled *)
(* payload is not written, and the writer is that of the connection the    *)
(* input was typed for.                                                    *)
WorkerCaptures(q) ==
    LET w == Worker(q)
    IN  /\ w.at = "lane"
        /\ \/ /\ Holds(q) /\ ~Cancelled(w.batch) /\ runtime.id = Head(w.batch).runtime
              /\ Step(q, [w EXCEPT !.at = "write", !.channel = runtime.channel])
              /\ UNCHANGED <<lane, job>>
           \/ /\ Step(q, Idle(w))
              /\ LeavesLane(q)
              /\ job' = Answer(w.batch)
        /\ UNCHANGED <<input, queue, logging, session, wire>>

(* The transport looks at the cancellation once more when it has the       *)
(* writer.  The write may fail before or after the bytes left.             *)
WorkerWrites(q) ==
    LET w == Worker(q)
    IN  /\ w.at = "write"
        /\ \/ /\ ~Cancelled(w.batch)
              /\ wire' = wire \o w.batch
              /\ Step(q, [w EXCEPT !.at = "record"])
              /\ UNCHANGED <<lane, job>>
           \/ /\ \/ UNCHANGED wire
                 \/ ~Cancelled(w.batch) /\ wire' = wire \o w.batch
              /\ Step(q, Idle(w)) /\ lane' = Tail(lane)
              /\ job' = Answer(w.batch)
        /\ UNCHANGED <<input, queue, logging, session>>

(* The written text goes to the deferred queue while the connection is     *)
(* still registered and the application is not exiting.                    *)
WorkerRecords(q) ==
    LET w       == Worker(q)
        current == runtime.id = Head(w.batch).runtime
        d       == IF deferred = 0 THEN Len(deferreds) + 1 ELSE deferred
        base    == IF deferred = 0 THEN Append(deferreds, NewLog) ELSE deferreds
    IN  /\ w.at = "record"
        /\ IF current /\ Accepting
           THEN /\ d <= budget.logs
                /\ deferred' = d
                /\ deferreds' = [base EXCEPT ![d].items = @ \o w.batch]
           ELSE UNCHANGED <<deferred, deferreds>>
        /\ Step(q, Idle(w)) /\ lane' = Tail(lane)
        /\ job' = Answer(w.batch)
        /\ UNCHANGED <<input, queue, log, session, wire>>

----------------------------------------------------------------------------
(* The worker of a deferred queue gathers what was written until a line    *)
(* ends, and writes what is left when the queue is closed.                 *)

EndsLine(r) == r.seq % 2 = 1

Drained(d) == d # 0 => deferreds[d].items = <<>>

(* The next write takes the gathered input up to the end of a line, or all *)
(* of it once the queue is closed.                                         *)
Gathered(l, n) ==
    IF \E i \in DOMAIN l.items : EndsLine(l.items[i])
    THEN EndsLine(l.items[n]) /\ \A i \in 1..(n - 1) : ~EndsLine(l.items[i])
    ELSE ~l.open /\ n = Len(l.items)

\* Mutant: a batch that was written stays with the worker.
PersistsAndKeeps(d) ==
    /\ \E n \in DOMAIN deferreds[d].items :
          /\ Gathered(deferreds[d], n)
          /\ log' = log \cup ToSet(SubSeq(deferreds[d].items, 1, n))
    /\ UNCHANGED <<input, writing, lane, job, deferred, deferreds, session, wire>>

DeferredPersists(d) ==
    /\ \E n \in DOMAIN deferreds[d].items :
          /\ Gathered(deferreds[d], n)
          /\ log' = log \cup ToSet(SubSeq(deferreds[d].items, 1, n))
          /\ deferreds' = [deferreds EXCEPT ![d].items = SubSeq(@, n + 1, Len(@))]
    /\ UNCHANGED <<input, writing, lane, job, deferred, session, wire>>

----------------------------------------------------------------------------
(* clear_interactive_write_queue: the paced jobs, the streams, then the    *)
(* write queue, whose worker is told to stop.                              *)

StopInput ==
    /\ job' = EndJob
    /\ stream' = [w \in Windows |-> NoStream]
    /\ UNCHANGED front

StopQueue ==
    /\ queue' = 0
    /\ queues' = IF queue = 0 THEN queues ELSE [queues EXCEPT ![queue].stopped = TRUE]

Go(at) == life' = [life EXCEPT !.at = at]

(* close_session_under_lifecycle_lock stops the input before it removes    *)
(* the connection.                                                         *)
CloseBegins ==
    /\ life.at = "idle" /\ runtime.id # 0 /\ Go("closeQueue")
    /\ StopInput
    /\ UNCHANGED <<writing, lane, logging, runtime, made, exit, wire, budget>>

CloseStopsQueue ==
    /\ life.at = "closeQueue" /\ Go("closeLog")
    /\ StopQueue
    /\ UNCHANGED <<input, lane, job, logging, runtime, made, exit, wire, budget>>

CloseStopsLog ==
    /\ life.at = "closeLog"
    /\ life' = [life EXCEPT !.at = "closeDrain", !.log = deferred]
    /\ deferred' = 0
    /\ deferreds' = IF deferred = 0 THEN deferreds
                    ELSE [deferreds EXCEPT ![deferred].open = FALSE]
    /\ UNCHANGED <<input, writing, lane, job, log, runtime, made, exit, wire, budget>>

(* It waits for the log a bounded time. *)
CloseRuntime ==
    /\ life.at = "closeDrain"
    /\ ~SlowDrain => Drained(life.log)
    /\ life' = [life EXCEPT !.at = "idle", !.log = 0]
    /\ runtime' = NoRuntime
    /\ UNCHANGED <<input, writing, lane, job, logging, made, exit, wire, budget>>

(* attach_tmux_inner: with the outbound lane held, a new channel is opened *)
(* and, if the connection is still the same, takes the terminal's place;   *)
(* then the queued input is dropped.                                       *)
AttachBegins ==
    /\ life.at = "idle" /\ Current # 0
    /\ made.channel - made.runtime < budget.attaches
    /\ lane' = Append(lane, Attach)
    /\ Go("attachLane")
    /\ UNCHANGED <<input, writing, job, logging, runtime, made, exit, wire, budget>>

AttachTakesLane ==
    /\ life.at = "attachLane"
    /\ IF Holds(Attach) /\ Current # 0
       THEN /\ life' = [life EXCEPT !.at = "attachOpen", !.runtime = runtime.id]
            /\ UNCHANGED lane
       ELSE /\ Go("idle")
            /\ LeavesLane(Attach)
    /\ UNCHANGED <<input, writing, job, logging, runtime, made, exit, wire, budget>>

\* Mutant: the channel is installed on whatever connection is registered.
AttachInstallsAnyway ==
    /\ life.at = "attachOpen" /\ Current # 0
    /\ made' = [made EXCEPT !.channel = @ + 1]
    /\ runtime' = [runtime EXCEPT !.channel = made.channel + 1, !.opened = life.runtime]
    /\ Go("attachStop")
    /\ UNCHANGED <<input, writing, lane, job, logging, exit, wire, budget>>

AttachInstalls ==
    /\ life.at = "attachOpen"
    /\ \/ /\ Current = life.runtime
          /\ made' = [made EXCEPT !.channel = @ + 1]
          /\ runtime' = [runtime EXCEPT !.channel = made.channel + 1, !.opened = life.runtime]
          /\ Go("attachStop") /\ UNCHANGED lane
       \/ /\ Go("idle") /\ lane' = Tail(lane)
          /\ UNCHANGED <<made, runtime>>
    /\ UNCHANGED <<input, writing, job, logging, exit, wire, budget>>

AttachStopsInput ==
    /\ life.at = "attachStop" /\ Go("attachQueue")
    /\ StopInput
    /\ UNCHANGED <<writing, lane, logging, runtime, made, exit, wire, budget>>

\* Mutant: the queued input stays for the new channel.
AttachKeepsQueue ==
    /\ life.at = "attachQueue" /\ Go("idle")
    /\ lane' = Tail(lane)
    /\ UNCHANGED <<input, writing, job, logging, runtime, made, exit, wire, budget>>

(* What a worker has taken and checked by now is not dropped: it only      *)
(* waits for the lane (carried is an auxiliary record of it).              *)
AttachEnds ==
    /\ life.at = "attachQueue" /\ Go("idle")
    /\ queue' = 0
    /\ queues' = [q \in DOMAIN queues |->
                    [queues[q] EXCEPT !.stopped = @ \/ q = queue,
                                      !.carried = @ \/ queues[q].at = "lane"]]
    /\ lane' = Tail(lane)
    /\ UNCHANGED <<input, job, logging, runtime, made, exit, wire, budget>>

----------------------------------------------------------------------------
(* shutdown_interactive_write_queues.                                      *)

ShutdownStops ==
    /\ budget.exits /\ exit.at = "running"
    /\ exit' = [exit EXCEPT !.at = "workers", !.queue = queue]
    /\ StopQueue
    /\ UNCHANGED <<input, lane, job, logging, runtime, made, life, wire, budget>>

(* It waits at most five seconds for the worker. *)
ShutdownClosesLog ==
    /\ exit.at = "workers"
    /\ exit.queue # 0 => (queues[exit.queue].at = "done" \/ lane # <<>>)
    /\ exit' = [exit EXCEPT !.at = "drain", !.log = deferred]
    /\ deferred' = 0
    /\ deferreds' = IF deferred = 0 THEN deferreds
                    ELSE [deferreds EXCEPT ![deferred].open = FALSE]
    /\ UNCHANGED <<input, writing, lane, job, log, runtime, made, life, wire, budget>>

ShutdownEnds ==
    /\ exit.at = "drain"
    /\ (~SlowDrain => Drained(exit.log))
    /\ exit' = [exit EXCEPT !.at = "done"]
    /\ UNCHANGED <<input, writing, lane, job, logging, runtime, made, life, wire, budget>>

----------------------------------------------------------------------------
WorkerStep(q) ==
    \/ WorkerTakes(q) \/ WorkerEnds(q) \/ WorkerCaptures(q)
    \/ WorkerWrites(q) \/ WorkerRecords(q)

LifeStep ==
    \/ CloseStopsQueue \/ CloseStopsLog \/ CloseRuntime
    \/ AttachTakesLane \/ AttachInstalls \/ AttachStopsInput \/ AttachEnds

JobStep ==
    \/ JobTarget \/ JobSends \/ JobTimesOut

WindowStep(w) ==
    \/ BindStream(w) \/ Type(w) \/ ResetStream(w) \/ CloseStream(w)
    \/ \E seq \in 0..(stream[w].sent - 1) : AcceptPacket(w, seq)

(* The windows are gone when the exit begins, and nobody asks for anything *)
(* new; what is under way goes on until the process ends.                  *)
Asked ==
    \/ OpenSession \/ CloseBegins \/ AttachBegins \/ BeginJob \/ CancelJob
    \/ \E w \in Windows : WindowStep(w)

Next ==
    /\ exit.at # "done"
    /\ \/ exit.at = "running" /\ Asked
       \/ Reconnects \/ ConnectionLost
       \/ LifeStep \/ JobStep
       \/ \E q \in DOMAIN queues : WorkerStep(q)
       \/ \E d \in DOMAIN deferreds : DeferredPersists(d)
       \/ ShutdownStops \/ ShutdownClosesLog \/ ShutdownEnds

Spec == Init /\ [][Next]_vars

----------------------------------------------------------------------------
(* Properties.                                                             *)

Requests == [stream : 0..budget.streams, seq : 0..(budget.keys + budget.payloads),
             runtime : 1..budget.runtimes, typed : 1..(budget.runtimes + budget.attaches)]

(* The shape of the state; a queue holds at most its capacity, a batch at  *)
(* most its limit, and only the requests of one connection; who holds the  *)
(* lane is where the lane says (outbound_events.rs, outbound_io.rs).       *)
TypeOK ==
    /\ runtime \in [id : 0..budget.runtimes, channel : 0..(budget.runtimes + budget.attaches),
                    opened : 0..budget.runtimes, closed : BOOLEAN]
    /\ \A q \in DOMAIN queues :
        LET w == queues[q]
        IN  /\ ToSet(w.items) \cup ToSet(w.batch) \cup ToSet(w.back) \subseteq Requests
            /\ Len(w.items) <= Capacity /\ Len(w.batch) <= MaxBatch /\ Len(w.back) <= 1
            /\ w.at \in {"idle", "lane", "write", "record", "done"}
            /\ \A i, j \in DOMAIN w.batch : w.batch[i].runtime = w.batch[j].runtime
    /\ \A w \in Windows : Cardinality(stream[w].pending) < MaxReordered
    /\ \A q \in DOMAIN queues :
        queues[q].at \in {"write", "record"} => Holds(q)

(* The keys of a stream reach the channels in the order they were typed    *)
(* and never twice, whatever order their calls arrived in, however often,  *)
(* and across a queue that is stopped and replaced (terminal_input_stream  *)
(* accept_inner; the worker's drain and its request set aside).            *)
KeysInOrder ==
    \A i, j \in DOMAIN wire :
        i < j /\ wire[i].stream = wire[j].stream => wire[i].seq < wire[j].seq

(* Input reaches only the terminal channel it was typed for; after a tmux  *)
(* attach exchanged the channel, only a batch that already waited for the  *)
(* lane does not (outbound_events.rs: stale keystrokes are never replayed; *)
(* tmux_runtime.rs drops the queue under the lane).                        *)
NoStaleKeys ==
    \A q \in DOMAIN queues :
        LET w == queues[q]
        IN  (w.at \in {"write", "record"} /\ ~w.carried)
                => \A i \in DOMAIN w.batch : w.batch[i].typed = w.channel

(* The terminal channel of a registered connection was opened over that    *)
(* connection, even when it was lost and replaced while a tmux attach      *)
(* opened its channel (tmux_runtime.rs).                                   *)
ChannelIsOwn == runtime.opened = runtime.id

(* The log holds nothing that was not written to the terminal, and nothing *)
(* twice, whichever deferred queue it went through; and when the exit is   *)
(* over it holds everything those queues accepted, except what a close     *)
(* that is still under way has taken over                                  *)
(* (enqueue_deferred_interactive_event, shutdown_interactive_write_queues).*)
LogIsWritten ==
    LET kept(d) == ToSet(deferreds[d].items)
    IN  /\ \A r \in log \cup UNION {kept(d) : d \in DOMAIN deferreds} :
               r \in ToSet(wire)
        /\ \A d \in DOMAIN deferreds :
               /\ kept(d) \cap log = {}
               /\ \A e \in DOMAIN deferreds \ {d} : kept(d) \cap kept(e) = {}
        /\ exit.at = "done" =>
               \A d \in DOMAIN deferreds : d # life.log => Drained(d)

----------------------------------------------------------------------------
(* Why input stays in order and at home: the inductive invariant.          *)

AnyRequests == [stream : Nat, seq : Nat, runtime : Nat, typed : Nat]
QueueRecords ==
    [items : Seq(AnyRequests), stopped : BOOLEAN,
     at : {"idle", "lane", "write", "record", "done"}, batch : Seq(AnyRequests),
     back : Seq(AnyRequests), channel : Nat, carried : BOOLEAN]
StreamRecords ==
    [id : Nat, runtime : Nat, sent : Nat, next : Nat, pending : SUBSET Nat, failed : BOOLEAN]
JobRecords ==
    [at : {"none", "ready", "sending", "waiting", "late", "ended"},
     runtime : Nat, typed : Nat, sent : Nat]
AttachSteps == {"attachLane", "attachOpen", "attachStop", "attachQueue"}
LogRecords == [items : Seq(AnyRequests), open : BOOLEAN]
LifeRecords ==
    [at : {"idle", "closeQueue", "closeLog", "closeDrain"} \cup AttachSteps,
     runtime : Nat, log : Nat]

LogTypes ==
    /\ deferred \in Nat /\ deferreds \in Seq(LogRecords)
    /\ deferred = 0 \/ deferred \in DOMAIN deferreds

InputTypes ==
    /\ runtime \in [id : Nat, channel : Nat, opened : Nat, closed : BOOLEAN]
    /\ made \in [runtime : Nat, channel : Nat, stream : Nat]
    /\ stream \in [Windows -> StreamRecords]
    /\ queue \in Nat /\ queues \in Seq(QueueRecords)
    /\ lane \in Seq(Nat) /\ wire \in Seq(AnyRequests)
    /\ job \in JobRecords /\ life \in LifeRecords
    /\ LogTypes

(* Only the newest queue may be registered; every other was stopped.       *)
NewestTakesInput ==
    /\ queue = 0 \/ queue = Len(queues)
    /\ \A q \in DOMAIN queues : queues[q].stopped <=> q # queue

(* Queues stand in the lane once and by their age, and only the first      *)
(* writes or attaches.                                                     *)
InLane(a) == \E i \in DOMAIN lane : lane[i] = a

LaneByAge ==
    /\ \A i \in DOMAIN lane : lane[i] \in 0..Len(queues)
    /\ \A i, j \in DOMAIN lane : i < j =>
          lane[i] # lane[j] /\ (Attach \in {lane[i], lane[j]} \/ lane[i] < lane[j])
    /\ \A q \in DOMAIN queues :
          /\ InLane(q) <=> queues[q].at \in {"lane", "write", "record"}
          /\ queues[q].at \in {"write", "record"} => Holds(q)
    /\ InLane(Attach) <=> life.at \in AttachSteps
    /\ life.at \in AttachSteps \ {"attachLane"} => Holds(Attach)

(* What a worker has taken is for one connection, a payload on its own.    *)
BatchesFit ==
    \A q \in DOMAIN queues :
        LET w == queues[q]
        IN  /\ w.at \in {"lane", "write", "record"} =>
                  w.batch # <<>> /\ Mergeable(w.batch, Len(w.batch))
            /\ w.at \in {"idle", "done"} => ~w.carried

(* A connection, a stream and a job are told from all that came before.    *)
NamesAreNew ==
    /\ runtime.id <= made.runtime
    /\ job.at \in {"ready", "sending", "waiting", "late"} => job.runtime \in 1..made.runtime
    /\ \A w \in Windows : stream[w].id # 0 =>
          /\ stream[w].id <= made.stream /\ stream[w].runtime \in 1..made.runtime
          /\ \A v \in Windows \ {w} : stream[v].id # stream[w].id

(* What a queue may still write, in the order in which it would.           *)
Taken(w) == IF w.at \in {"lane", "write"} THEN w.batch ELSE <<>>
Kept(w)  == IF w.stopped THEN <<>> ELSE w.back \o w.items
Due(q)   == Taken(queues[q]) \o Kept(queues[q])

(* A request has a number its stream, or the job, has already given.       *)
Numbered(r) ==
    /\ r.stream <= made.stream /\ r.runtime \in 1..made.runtime
    /\ \A w \in Windows : r.stream # 0 /\ stream[w].id = r.stream => r.seq < stream[w].next
    /\ IsJob(r) => /\ job.at # "none"
                   /\ job.at # "ended" => r.seq <= job.sent

NumbersAreGiven ==
    /\ \A i \in DOMAIN wire : Numbered(wire[i])
    /\ \A q \in DOMAIN queues : \A i \in DOMAIN Due(q) : Numbered(Due(q)[i])

(* Of one stream, what was written comes before what a queue has, and what *)
(* an older queue has before what a newer one has.                         *)
Ascends(s) ==
    \A i, j \in DOMAIN s : i < j /\ s[i].stream = s[j].stream => s[i].seq < s[j].seq
Before(s, t) ==
    \A i \in DOMAIN s, j \in DOMAIN t : s[i].stream = t[j].stream => s[i].seq < t[j].seq

QueuesInOrder ==
    /\ Ascends(wire)
    /\ \A q \in DOMAIN queues : Ascends(Due(q)) /\ Before(wire, Due(q))
    /\ \A p, q \in DOMAIN queues : p < q => Before(Due(p), Due(q))

(* Input for the registered connection was typed for its present channel,  *)
(* except for payloads of a job that has ended, and until an attach has    *)
(* dropped what was queued.                                                *)
Attached == life.at \in {"attachStop", "attachQueue"}
AtHome(r) ==
    \/ r.runtime = runtime.id => r.typed = runtime.channel
    \/ IsJob(r) /\ job.at \in {"late", "ended"}

InputAtHome ==
    /\ ChannelIsOwn /\ NoStaleKeys
    /\ life.at = "attachOpen" => life.runtime # 0
    /\ ~Attached => \A q \in DOMAIN queues :
          LET w == queues[q]
          IN  /\ w.at = "lane" /\ ~w.carried => \A i \in DOMAIN w.batch : AtHome(w.batch[i])
              /\ \A i \in DOMAIN Kept(w) : AtHome(Kept(w)[i])
    /\ job.at = "sending" /\ job.runtime = runtime.id /\ life.at # "attachStop" =>
          job.typed = runtime.channel

InputInvariant ==
    /\ InputTypes /\ NewestTakesInput /\ LaneByAge /\ BatchesFit
    /\ NamesAreNew /\ NumbersAreGiven /\ QueuesInOrder /\ InputAtHome
============================================================================
