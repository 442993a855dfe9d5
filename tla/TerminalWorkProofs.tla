------------------------ MODULE TerminalWorkProofs ------------------------
(***************************************************************************)
(* What is typed reaches the terminal once and in order, and only the      *)
(* channel it was typed for: the proofs about TerminalInput, and what they *)
(* and two smaller invariants say of the terminal as a whole.              *)
(***************************************************************************)
EXTENDS TerminalWork, SequenceTheorems, FiniteSetTheorems, TLAPS

----------------------------------------------------------------------------
(* Sequences of requests in order.                                         *)

PartOf(t, s) ==
    \E a \in Int : \A j \in DOMAIN t : a + j \in DOMAIN s /\ t[j] = s[a + j]

LEMMA ConcatFacts ==
    ASSUME NEW S, NEW s \in Seq(S), NEW t \in Seq(S)
    PROVE  /\ s \o t \in Seq(S)
           /\ Len(s) \in Nat /\ DOMAIN s = 1..Len(s)
           /\ Len(t) \in Nat /\ DOMAIN t = 1..Len(t)
           /\ DOMAIN (s \o t) = 1..(Len(s) + Len(t))
  BY ConcatProperties, LenProperties

LEMMA ConcatLeft ==
    ASSUME NEW S, NEW s \in Seq(S), NEW t \in Seq(S), NEW i \in DOMAIN s
    PROVE  i \in DOMAIN (s \o t) /\ (s \o t)[i] = s[i] /\ i <= Len(s)
<1>1. i \in 1..Len(s) /\ Len(s) \in Nat /\ Len(t) \in Nat
      /\ DOMAIN (s \o t) = 1..(Len(s) + Len(t))
  BY ConcatFacts
<1>2. i \in 1..(Len(s) + Len(t))
  BY <1>1
<1> QED
  BY <1>1, <1>2, ConcatProperties, SMTT(30)

LEMMA ConcatRight ==
    ASSUME NEW S, NEW s \in Seq(S), NEW t \in Seq(S), NEW i \in DOMAIN t
    PROVE  Len(s) + i \in DOMAIN (s \o t) /\ (s \o t)[Len(s) + i] = t[i] /\ i >= 1
<1>1. i \in 1..Len(t) /\ Len(s) \in Nat /\ Len(t) \in Nat
      /\ DOMAIN (s \o t) = 1..(Len(s) + Len(t))
  BY ConcatFacts
<1>2. Len(s) + i \in 1..(Len(s) + Len(t)) /\ ~(Len(s) + i <= Len(s)) /\ Len(s) + i - Len(s) = i
  BY <1>1
<1> QED
  BY <1>1, <1>2, ConcatProperties, SMTT(30)

LEMMA ConcatSplit ==
    ASSUME NEW S, NEW s \in Seq(S), NEW t \in Seq(S), NEW i \in DOMAIN (s \o t)
    PROVE  \/ i <= Len(s) /\ i \in DOMAIN s /\ (s \o t)[i] = s[i]
           \/ i > Len(s) /\ i - Len(s) \in DOMAIN t /\ (s \o t)[i] = t[i - Len(s)]
<1>1. i \in 1..(Len(s) + Len(t)) /\ Len(s) \in Nat /\ Len(t) \in Nat
      /\ DOMAIN s = 1..Len(s) /\ DOMAIN t = 1..Len(t)
  BY ConcatFacts
<1>2. (s \o t)[i] = IF i <= Len(s) THEN s[i] ELSE t[i - Len(s)]
  BY <1>1, ConcatProperties
<1> QED
  BY <1>1, <1>2

LEMMA AscendsPart ==
    ASSUME NEW s \in Seq(AnyRequests), NEW t \in Seq(AnyRequests), PartOf(t, s), Ascends(s)
    PROVE  Ascends(t)
<1>1. PICK a \in Int : \A j \in DOMAIN t : a + j \in DOMAIN s /\ t[j] = s[a + j]
  BY Zenon DEF PartOf
<1>2. DOMAIN t = 1..Len(t) /\ Len(t) \in Nat
  BY LenProperties
<1>3. ASSUME NEW i \in DOMAIN t, NEW j \in DOMAIN t, i < j, t[i].stream = t[j].stream
      PROVE  t[i].seq < t[j].seq
  <2>1. a + i < a + j
    BY <1>2, <1>3
  <2> QED
    BY <2>1, <1>1, <1>3 DEF Ascends
<1> QED
  BY <1>3 DEF Ascends

LEMMA BeforePart ==
    ASSUME NEW s, NEW t, NEW p, NEW q, PartOf(p, s), PartOf(q, t), Before(s, t)
    PROVE  Before(p, q)
<1>1. PICK a \in Int : \A j \in DOMAIN p : a + j \in DOMAIN s /\ p[j] = s[a + j]
  BY Zenon DEF PartOf
<1>2. PICK b \in Int : \A j \in DOMAIN q : b + j \in DOMAIN t /\ q[j] = t[b + j]
  BY Zenon DEF PartOf
<1> QED
  BY <1>1, <1>2 DEF Before

LEMMA PartOfItself ==
    ASSUME NEW s \in Seq(AnyRequests)
    PROVE  PartOf(s, s) /\ PartOf(<<>>, s)
<1>1. \A j \in DOMAIN s : 0 + j \in DOMAIN s /\ s[j] = s[0 + j]
  OBVIOUS
<1>2. 0 \in Int
  OBVIOUS
<1>3. \A j \in DOMAIN <<>> : 0 + j \in DOMAIN s /\ <<>>[j] = s[0 + j]
  OBVIOUS
<1> QED
  BY ONLY <1>1, <1>2, <1>3, Zenon DEF PartOf

LEMMA PartOfConcat ==
    ASSUME NEW s \in Seq(AnyRequests), NEW t \in Seq(AnyRequests)
    PROVE  PartOf(s, s \o t) /\ PartOf(t, s \o t)
<1>1. \A j \in DOMAIN s : 0 + j \in DOMAIN (s \o t) /\ s[j] = (s \o t)[0 + j]
  BY ConcatLeft
<1>2. \A j \in DOMAIN t : Len(s) + j \in DOMAIN (s \o t) /\ t[j] = (s \o t)[Len(s) + j]
  BY ConcatRight
<1>3. 0 \in Int /\ Len(s) \in Int
  BY LenProperties
<1> QED
  BY ONLY <1>1, <1>2, <1>3, Zenon DEF PartOf

LEMMA AscendsConcat ==
    ASSUME NEW s \in Seq(AnyRequests), NEW t \in Seq(AnyRequests)
    PROVE  Ascends(s \o t) <=> Ascends(s) /\ Ascends(t) /\ Before(s, t)
<1>1. ASSUME Ascends(s \o t) PROVE Ascends(s) /\ Ascends(t)
  BY <1>1, PartOfConcat, AscendsPart, ConcatFacts
<1>2. ASSUME Ascends(s \o t) PROVE Before(s, t)
  <2>1. ASSUME NEW i \in DOMAIN s, NEW j \in DOMAIN t, s[i].stream = t[j].stream
        PROVE  s[i].seq < t[j].seq
    <3>1. /\ i \in DOMAIN (s \o t) /\ (s \o t)[i] = s[i]
          /\ Len(s) + j \in DOMAIN (s \o t) /\ (s \o t)[Len(s) + j] = t[j]
      BY ConcatLeft, ConcatRight
    <3>2. i < Len(s) + j
      BY ConcatFacts
    <3> QED
      BY <1>2, <2>1, <3>1, <3>2 DEF Ascends
  <2> QED
    BY <2>1 DEF Before
<1>3. ASSUME Ascends(s), Ascends(t), Before(s, t) PROVE Ascends(s \o t)
  <2>1. ASSUME NEW i \in DOMAIN (s \o t), NEW j \in DOMAIN (s \o t), i < j,
               (s \o t)[i].stream = (s \o t)[j].stream
        PROVE  (s \o t)[i].seq < (s \o t)[j].seq
    <3>1. DOMAIN s = 1..Len(s) /\ Len(s) \in Nat /\ DOMAIN t = 1..Len(t) /\ Len(t) \in Nat
          /\ DOMAIN (s \o t) = 1..(Len(s) + Len(t))
      BY ConcatFacts
    <3>2. CASE j <= Len(s)
      <4>1. i \in DOMAIN s /\ j \in DOMAIN s
        BY <2>1, <3>1, <3>2
      <4>2. (s \o t)[i] = s[i] /\ (s \o t)[j] = s[j]
        BY <4>1, ConcatLeft
      <4> QED
        BY <1>3, <2>1, <4>1, <4>2 DEF Ascends
    <3>3. CASE i > Len(s)
      <4>1. i - Len(s) \in DOMAIN t /\ j - Len(s) \in DOMAIN t /\ i - Len(s) < j - Len(s)
        BY <2>1, <3>1, <3>3
      <4>2. (s \o t)[i] = t[i - Len(s)] /\ (s \o t)[j] = t[j - Len(s)]
        BY <2>1, <3>1, <3>3, ConcatSplit
      <4> QED
        BY <1>3, <2>1, <4>1, <4>2 DEF Ascends
    <3>4. CASE i <= Len(s) /\ j > Len(s)
      <4>1. i \in DOMAIN s /\ j - Len(s) \in DOMAIN t
        BY <2>1, <3>1, <3>4
      <4>2. (s \o t)[i] = s[i] /\ (s \o t)[j] = t[j - Len(s)]
        BY <2>1, <3>1, <3>4, ConcatSplit
      <4> QED
        BY <1>3, <2>1, <4>1, <4>2 DEF Before
    <3> QED
      BY <2>1, <3>1, <3>2, <3>3, <3>4
  <2> QED
    BY <2>1 DEF Ascends
<1> QED
  BY <1>1, <1>2, <1>3

LEMMA BeforeConcat ==
    ASSUME NEW s \in Seq(AnyRequests), NEW t \in Seq(AnyRequests), NEW u \in Seq(AnyRequests)
    PROVE  /\ Before(s \o t, u) <=> Before(s, u) /\ Before(t, u)
           /\ Before(u, s \o t) <=> Before(u, s) /\ Before(u, t)
<1>1. PartOf(s, s \o t) /\ PartOf(t, s \o t) /\ PartOf(u, u)
  BY PartOfConcat, PartOfItself
<1>2. ASSUME Before(s \o t, u) PROVE Before(s, u) /\ Before(t, u)
  BY <1>1, <1>2, BeforePart
<1>3. ASSUME Before(u, s \o t) PROVE Before(u, s) /\ Before(u, t)
  BY <1>1, <1>3, BeforePart
<1>4. ASSUME Before(s, u), Before(t, u) PROVE Before(s \o t, u)
  <2>1. ASSUME NEW i \in DOMAIN (s \o t), NEW j \in DOMAIN u,
               (s \o t)[i].stream = u[j].stream
        PROVE  (s \o t)[i].seq < u[j].seq
    <3>1. \/ i \in DOMAIN s /\ (s \o t)[i] = s[i]
          \/ i - Len(s) \in DOMAIN t /\ (s \o t)[i] = t[i - Len(s)]
      BY ConcatSplit
    <3> QED
      BY <1>4, <2>1, <3>1 DEF Before
  <2> QED
    BY <2>1 DEF Before
<1>5. ASSUME Before(u, s), Before(u, t) PROVE Before(u, s \o t)
  <2>1. ASSUME NEW i \in DOMAIN u, NEW j \in DOMAIN (s \o t),
               u[i].stream = (s \o t)[j].stream
        PROVE  u[i].seq < (s \o t)[j].seq
    <3>1. \/ j \in DOMAIN s /\ (s \o t)[j] = s[j]
          \/ j - Len(s) \in DOMAIN t /\ (s \o t)[j] = t[j - Len(s)]
      BY ConcatSplit
    <3> QED
      BY <1>5, <2>1, <3>1 DEF Before
  <2> QED
    BY <2>1 DEF Before
<1> QED
  BY <1>2, <1>3, <1>4, <1>5

----------------------------------------------------------------------------
(* Types.                                                                  *)

(* What the confirmation or the end of a payload leaves of the job.        *)
LEMMA AnswerFacts ==
    ASSUME job \in JobRecords, NEW batch
    PROVE  /\ Answer(batch) \in JobRecords
           /\ Answer(batch).runtime = job.runtime /\ Answer(batch).typed = job.typed
           /\ Answer(batch).sent = job.sent
           /\ \/ Answer(batch).at = job.at
              \/ job.at = "waiting" /\ Answer(batch).at = "ready"
<1>1. \/ Answer(batch) = job
      \/ job.at = "waiting" /\ Answer(batch) = [job EXCEPT !.at = "ready"]
  BY Zenon DEF Answer
<1>2. CASE Answer(batch) = job
  BY <1>2
<1>3. CASE job.at = "waiting" /\ Answer(batch) = [job EXCEPT !.at = "ready"]
  BY <1>3 DEF JobRecords
<1> QED
  BY ONLY <1>1, <1>2, <1>3

LEMMA EndJobFacts ==
    ASSUME job \in JobRecords
    PROVE  /\ EndJob \in JobRecords
           /\ job.at \in {"none", "late"} => EndJob = job
           /\ job.at = "sending" => /\ EndJob.at = "late" /\ EndJob.runtime = job.runtime
                                    /\ EndJob.typed = job.typed /\ EndJob.sent = job.sent
           /\ job.at \in {"ready", "waiting", "ended"} => EndJob.at = "ended"
  BY DEF EndJob, JobRecords, NoJob

LEMMA NoStreamType == NoStream \in StreamRecords /\ NoStream.id = 0 /\ NoStream.next = 0
  BY DEF NoStream, StreamRecords

LEMMA NewQueueType ==
    /\ NewQueue \in QueueRecords
    /\ NewQueue.items = <<>> /\ NewQueue.back = <<>> /\ NewQueue.batch = <<>>
    /\ NewQueue.at = "idle" /\ ~NewQueue.stopped /\ ~NewQueue.carried
  BY DEF NewQueue, QueueRecords

LEMMA RequestType ==
    ASSUME NEW s \in Nat, NEW n \in Nat, NEW r \in Nat, NEW c \in Nat
    PROVE  /\ Request(s, n, r, c) \in AnyRequests
           /\ Request(s, n, r, c).stream = s /\ Request(s, n, r, c).seq = n
           /\ Request(s, n, r, c).runtime = r /\ Request(s, n, r, c).typed = c
  BY DEF Request, AnyRequests

LEMMA CurrentType ==
    ASSUME InputTypes
    PROVE  Current \in Nat /\ (Current # 0 => Current = runtime.id /\ ~runtime.closed)
  BY DEF InputTypes, Current

LEMMA InitType == ASSUME Init PROVE InputTypes
<1> USE DEF Init
<1>1. runtime \in [id : Nat, channel : Nat, opened : Nat, closed : BOOLEAN]
  BY DEF NoRuntime
<1>2. made \in [runtime : Nat, channel : Nat, stream : Nat]
  OBVIOUS
<1>3. stream \in [Windows -> StreamRecords]
  BY NoStreamType
<1>4. queue \in Nat /\ queues \in Seq(QueueRecords) /\ lane \in Seq(Nat) /\ wire \in Seq(AnyRequests)
  OBVIOUS
<1>5. job \in JobRecords
  BY DEF NoJob, JobRecords
<1>6. life \in LifeRecords
  BY DEF LifeRecords, AttachSteps
<1>7. LogTypes
  BY EmptySeq DEF LogTypes
<1> QED
  BY ONLY <1>1, <1>2, <1>3, <1>4, <1>5, <1>6, <1>7 DEF InputTypes

(* What Enqueue does to the queues.                                        *)
LEMMA EnqueueFacts ==
    ASSUME InputTypes, NewestTakesInput, NEW new \in Seq(AnyRequests), Enqueue(new)
    PROVE  /\ queue' = Len(queues') /\ queue' \in Nat \ {0} /\ queues' \in Seq(QueueRecords)
           /\ DOMAIN queues \subseteq DOMAIN queues' /\ DOMAIN queues' = DOMAIN queues \cup {queue'}
           /\ \A q \in DOMAIN queues : q # queue' => queues'[q] = queues[q] /\ q < queue'
           /\ queue' \in DOMAIN queues =>
                /\ queue = queue' /\ ~queues[queue'].stopped
                /\ queues'[queue'].items = queues[queue'].items \o new
                /\ queues'[queue'].back = queues[queue'].back
                /\ queues'[queue'].batch = queues[queue'].batch
                /\ queues'[queue'].at = queues[queue'].at
                /\ queues'[queue'].stopped = queues[queue'].stopped
                /\ queues'[queue'].carried = queues[queue'].carried
                /\ queues'[queue'].channel = queues[queue'].channel
           /\ queue' \notin DOMAIN queues =>
                /\ queue = 0 /\ queue' = Len(queues) + 1
                /\ queues'[queue'].items = <<>> \o new
                /\ queues'[queue'].back = <<>> /\ queues'[queue'].at = "idle"
                /\ ~queues'[queue'].stopped /\ ~queues'[queue'].carried
<1>a. PICK L \in Nat : L = Len(queues) /\ DOMAIN queues = 1..L
  BY LenProperties DEF InputTypes
<1>0. (queue = 0 \/ queue = L) /\ queues \in Seq(QueueRecords)
  BY <1>a DEF InputTypes, NewestTakesInput
<1>1. CASE queue = 0
  <2>a. PICK n : n = L + 1
    OBVIOUS
  <2>b. PICK Q : Q = Append(queues, NewQueue)
    OBVIOUS
  <2>c. PICK R : R = [NewQueue EXCEPT !.items = @ \o new]
    BY Zenon
  <2>1. /\ Q \in Seq(QueueRecords) /\ Len(Q) = n /\ Q[n] = NewQueue
        /\ \A i \in 1..L : Q[i] = queues[i]
    BY <1>a, <1>0, <2>a, <2>b, NewQueueType, AppendProperties
  <2>2. queue' = n /\ queues' = [Q EXCEPT ![n].items = @ \o new]
    BY <1>a, <1>1, <2>a, <2>b DEF Enqueue, Target, WithTarget
  <2>3. <<>> \o new \in Seq(AnyRequests)
    BY ConcatFacts
  <2>4. R \in QueueRecords
    BY <2>3, <2>c, NewQueueType DEF QueueRecords
  <2>5. queues' = [Q EXCEPT ![n] = R]
    BY <2>1, <2>2, <2>c
  <2>6. n \in 1..Len(Q)
    BY <1>a, <1>0, <2>1, <2>a
  <2>7. /\ queues' \in Seq(QueueRecords) /\ Len(queues') = Len(Q)
        /\ \A j \in 1..Len(Q) : queues'[j] = IF j = n THEN R ELSE Q[j]
    BY <2>1, <2>4, <2>5, <2>6, ExceptSeq
  <2>8. n = L + 1
    BY <2>a
  <2>9. /\ R.items = <<>> \o new /\ R.back = <<>> /\ R.at = "idle" /\ ~R.stopped /\ ~R.carried
    BY <2>c, NewQueueType DEF QueueRecords
  <2>10. DOMAIN queues' = 1..n
    BY <2>1, <2>7, LenProperties
  <2>11. queues'[n] = R
    BY <2>6, <2>7
  <2>12. n \in Nat \ {0} /\ n \notin DOMAIN queues
    BY <1>a, <1>0, <2>8
  <2>13. DOMAIN queues' = DOMAIN queues \cup {n} /\ Len(queues') = n
    BY <1>a, <2>1, <2>7, <2>8, <2>10
  <2>14. \A q \in DOMAIN queues : q # n /\ queues'[q] = queues[q] /\ q < n
    BY <1>a, <2>1, <2>7, <2>8
  <2>15. queue' = n /\ n = Len(queues) + 1
    BY <1>a, <2>2, <2>8
  <2> QED
    BY ONLY <1>1, <2>7, <2>9, <2>11, <2>12, <2>13, <2>14, <2>15
<1>2. CASE queue # 0
  <2>a. PICK n : n = queue
    OBVIOUS
  <2>c. PICK R : R = [queues[n] EXCEPT !.items = @ \o new]
    OBVIOUS
  <2>1. n = L /\ n \in 1..L /\ n \in DOMAIN queues /\ queues[n] \in QueueRecords
    BY <1>a, <1>0, <1>2, <2>a, ElementOfSeq
  <2>2. queue' = n /\ queues' = [queues EXCEPT ![n] = R]
    BY <1>2, <2>a, <2>c DEF Enqueue, Target, WithTarget
  <2>3. queues[n].items \o new \in Seq(AnyRequests)
    BY <2>1, ConcatFacts DEF QueueRecords
  <2>4. R \in QueueRecords
    BY <2>1, <2>3, <2>c DEF QueueRecords
  <2>5. /\ R.items = queues[n].items \o new /\ R.back = queues[n].back /\ R.batch = queues[n].batch
        /\ R.at = queues[n].at /\ R.stopped = queues[n].stopped
        /\ R.carried = queues[n].carried /\ R.channel = queues[n].channel
    BY <2>1, <2>c DEF QueueRecords
  <2>6. /\ queues' \in Seq(QueueRecords) /\ Len(queues') = L
        /\ \A j \in 1..L : queues'[j] = IF j = n THEN R ELSE queues[j]
    BY <1>a, <1>0, <2>1, <2>2, <2>4, ExceptSeq
  <2>7. DOMAIN queues' = 1..L
    BY <1>a, <2>6, LenProperties
  <2>8. queues'[n] = R /\ ~queues[n].stopped
    BY <2>1, <2>6, <2>a DEF NewestTakesInput
  <2> QED
    BY <1>a, <1>0, <1>2, <2>a, <2>1, <2>2, <2>5, <2>6, <2>7, <2>8
<1> QED
  BY <1>1, <1>2

(* What a step of one worker does to the queues.                           *)
LEMMA StepFacts ==
    ASSUME queues \in Seq(QueueRecords), NEW q \in DOMAIN queues, NEW w \in QueueRecords, Step(q, w)
    PROVE  /\ queues' \in Seq(QueueRecords) /\ DOMAIN queues' = DOMAIN queues
           /\ Len(queues') = Len(queues)
           /\ queues'[q] = w /\ \A p \in DOMAIN queues : p # q => queues'[p] = queues[p]
<1>1. DOMAIN queues = 1..Len(queues)
  BY LenProperties
<1>2. queues' = [queues EXCEPT ![q] = w]
  BY DEF Step
<1>3. /\ queues' \in Seq(QueueRecords) /\ Len(queues') = Len(queues)
      /\ \A j \in 1..Len(queues) : queues'[j] = IF j = q THEN w ELSE queues[j]
  BY <1>1, <1>2, ExceptSeq
<1> QED
  BY <1>1, <1>3, LenProperties

----------------------------------------------------------------------------
(* Order and numbers.                                                      *)

LEMMA DueType ==
    ASSUME NEW w \in QueueRecords
    PROVE  Taken(w) \in Seq(AnyRequests) /\ Kept(w) \in Seq(AnyRequests)
           /\ Taken(w) \o Kept(w) \in Seq(AnyRequests)
<1>1. w.batch \in Seq(AnyRequests) /\ w.back \in Seq(AnyRequests) /\ w.items \in Seq(AnyRequests)
  BY DEF QueueRecords
<1>2. Taken(w) \in Seq(AnyRequests)
  BY <1>1, EmptySeq DEF Taken
<1>3. w.back \o w.items \in Seq(AnyRequests)
  BY <1>1, ConcatFacts
<1>4. Kept(w) \in Seq(AnyRequests)
  BY <1>3, EmptySeq DEF Kept
<1> QED
  BY <1>2, <1>4, ConcatFacts

LEMMA DuesType ==
    ASSUME queues \in Seq(QueueRecords), queues' \in Seq(QueueRecords)
    PROVE  /\ \A q \in DOMAIN queues : queues[q] \in QueueRecords /\ Due(q) \in Seq(AnyRequests)
           /\ \A q \in DOMAIN queues' : queues'[q] \in QueueRecords /\ Due(q)' \in Seq(AnyRequests)
  BY DueType, LenProperties, ElementOfSeq DEF Due

\* Nothing is written, and the queues have at most a part of what they had.
Thinned ==
    /\ wire' = wire /\ DOMAIN queues' = DOMAIN queues
    /\ \A q \in DOMAIN queues : PartOf(Due(q)', Due(q))

LEMMA ThinnedKeepsOrder ==
    ASSUME InputTypes, queues' \in Seq(QueueRecords), QueuesInOrder, Thinned
    PROVE  QueuesInOrder'
<1>1. /\ \A q \in DOMAIN queues : Due(q) \in Seq(AnyRequests)
      /\ \A q \in DOMAIN queues' : Due(q)' \in Seq(AnyRequests)
      /\ wire \in Seq(AnyRequests) /\ PartOf(wire, wire)
  BY DuesType, PartOfItself DEF InputTypes
<1>2. wire' = wire /\ DOMAIN queues' = DOMAIN queues
      /\ \A q \in DOMAIN queues : PartOf(Due(q)', Due(q))
  BY DEF Thinned
<1>3. Ascends(wire)'
  BY <1>2 DEF QueuesInOrder, Ascends
<1>4. ASSUME NEW q \in DOMAIN queues PROVE Ascends(Due(q)') /\ Before(wire, Due(q)')
  BY <1>1, <1>2, AscendsPart, BeforePart DEF QueuesInOrder
<1>5. ASSUME NEW p \in DOMAIN queues, NEW q \in DOMAIN queues, p < q PROVE Before(Due(p)', Due(q)')
  BY <1>1, <1>2, <1>5, BeforePart DEF QueuesInOrder
<1> QED
  BY <1>2, <1>3, <1>4, <1>5 DEF QueuesInOrder, Ascends, Before

\* Streams, connections and the job only go on.
NumbersGrow ==
    /\ made'.stream >= made.stream /\ made'.runtime >= made.runtime
    /\ \A w \in Windows :
          \/ stream'[w].id = 0 \/ stream'[w].id > made.stream
          \/ stream'[w].id = stream[w].id /\ stream'[w].next >= stream[w].next
    /\ job.at # "none" => job'.at # "none"
    /\ job.at # "none" /\ job'.at # "ended" => job.at # "ended" /\ job'.sent >= job.sent

LEMMA NumberStays ==
    ASSUME InputTypes, InputTypes', NumbersGrow, NEW r \in AnyRequests, Numbered(r)
    PROVE  Numbered(r)'
<1>1. r.stream \in Nat /\ r.seq \in Nat /\ r.runtime \in Nat
  BY DEF AnyRequests
<1>2. /\ made.stream \in Nat /\ made'.stream \in Nat /\ made.runtime \in Nat /\ made'.runtime \in Nat
      /\ job.sent \in Nat /\ job'.sent \in Nat
      /\ \A w \in Windows : stream[w].next \in Nat /\ stream'[w].next \in Nat
                            /\ stream'[w].id \in Nat
  BY DEF InputTypes, JobRecords, StreamRecords
<1>3. r.stream <= made'.stream /\ r.runtime \in 1..made'.runtime
  BY <1>1, <1>2 DEF Numbered, NumbersGrow
<1>4. ASSUME NEW w \in Windows, r.stream # 0, stream'[w].id = r.stream
      PROVE  r.seq < stream'[w].next
  <2>1. stream[w].id = r.stream /\ stream'[w].next >= stream[w].next
    BY <1>1, <1>2, <1>4 DEF Numbered, NumbersGrow
  <2> QED
    BY <1>1, <1>2, <1>4, <2>1 DEF Numbered
<1>5. ASSUME IsJob(r) PROVE job'.at # "none" /\ (job'.at # "ended" => r.seq <= job'.sent)
  <2>1. job.at # "none" /\ (job.at # "ended" => r.seq <= job.sent)
    BY <1>5 DEF Numbered
  <2>2. job'.at # "ended" => job.at # "ended" /\ job'.sent >= job.sent
    BY <2>1 DEF NumbersGrow
  <2> QED
    BY <1>1, <1>2, <2>1, <2>2 DEF NumbersGrow
<1> QED
  BY <1>3, <1>4, <1>5 DEF Numbered, IsJob

LEMMA ThinnedKeepsNumbers ==
    ASSUME InputTypes, InputTypes', NumbersAreGiven, NumbersGrow, Thinned
    PROVE  NumbersAreGiven'
<1>1. /\ \A q \in DOMAIN queues : Due(q) \in Seq(AnyRequests)
      /\ wire \in Seq(AnyRequests)
  BY DuesType DEF InputTypes
<1>2. ASSUME NEW i \in DOMAIN wire' PROVE Numbered(wire[i])'
  <2>1. wire'[i] = wire[i] /\ i \in DOMAIN wire
    BY <1>2 DEF Thinned
  <2>2. PICK r : r = wire[i]
    OBVIOUS
  <2>3. r \in AnyRequests /\ Numbered(r)
    BY <1>1, <2>1, <2>2, LenProperties, ElementOfSeq DEF NumbersAreGiven
  <2>4. Numbered(r)'
    BY <2>3, NumberStays
  <2> QED
    BY <2>1, <2>2, <2>4 DEF Numbered
<1>3. ASSUME NEW q \in DOMAIN queues', NEW i \in DOMAIN (Due(q)') PROVE Numbered(Due(q)[i])'
  <2>1. q \in DOMAIN queues /\ PartOf(Due(q)', Due(q))
    BY DEF Thinned
  <2>2. PICK a \in Int : \A j \in DOMAIN (Due(q)') : a + j \in DOMAIN Due(q) /\ Due(q)'[j] = Due(q)[a + j]
    BY <2>1, Zenon DEF PartOf
  <2>3. PICK r : r = Due(q)[a + i]
    OBVIOUS
  <2>4. r \in AnyRequests /\ Numbered(r)
    BY <1>1, <2>1, <2>2, <2>3, LenProperties, ElementOfSeq DEF NumbersAreGiven
  <2>5. Numbered(r)'
    BY <2>4, NumberStays
  <2> QED
    BY <2>2, <2>3, <2>5 DEF Numbered
<1> QED
  BY <1>2, <1>3 DEF NumbersAreGiven

\* Requests join the end of what the newest queue has.
Joined(t, new) ==
    /\ wire' = wire /\ DOMAIN queues' = DOMAIN queues \cup {t}
    /\ \A q \in DOMAIN queues : q # t => Due(q)' = Due(q) /\ q < t
    /\ Due(t)' = (IF t \in DOMAIN queues THEN Due(t) ELSE <<>>) \o new

LEMMA JoinedKeepsOrder ==
    ASSUME InputTypes, queues' \in Seq(QueueRecords), QueuesInOrder,
           NEW t \in Nat, NEW new \in Seq(AnyRequests), Joined(t, new),
           Ascends(new), Before(wire, new), \A q \in DOMAIN queues : Before(Due(q), new)
    PROVE  QueuesInOrder'
<1>1. /\ \A q \in DOMAIN queues : Due(q) \in Seq(AnyRequests)
      /\ \A q \in DOMAIN queues' : Due(q)' \in Seq(AnyRequests)
      /\ wire \in Seq(AnyRequests) /\ DOMAIN queues = 1..Len(queues) /\ Len(queues) \in Nat
  BY DuesType, LenProperties DEF InputTypes
<1>2. PICK old : old = IF t \in DOMAIN queues THEN Due(t) ELSE <<>>
  OBVIOUS
<1>3. old \in Seq(AnyRequests) /\ Due(t)' = old \o new
  BY <1>1, <1>2, EmptySeq DEF Joined
<1>4. Ascends(old) /\ Before(wire, old) /\ Before(old, new)
      /\ \A q \in DOMAIN queues : q # t => Before(Due(q), old)
  <2>1. CASE t \in DOMAIN queues
    BY <1>2, <2>1, Zenon DEF QueuesInOrder, Joined
  <2>2. CASE t \notin DOMAIN queues
    BY <1>2, <2>2, EmptySeq DEF Ascends, Before
  <2> QED
    BY <2>1, <2>2
<1>5. Ascends(old \o new) /\ Before(wire, old \o new)
  BY <1>1, <1>3, <1>4, AscendsConcat, BeforeConcat
<1>6. ASSUME NEW q \in DOMAIN queues, q # t PROVE Before(Due(q), old \o new)
  BY <1>1, <1>3, <1>4, <1>6, BeforeConcat
<1>7. Ascends(wire)'
  BY DEF QueuesInOrder, Ascends, Joined
<1>8. ASSUME NEW q \in DOMAIN queues' PROVE Ascends(Due(q)') /\ Before(wire, Due(q)')
  <2>1. CASE q = t
    BY <1>3, <1>5, <2>1
  <2>2. CASE q # t
    BY <2>2 DEF QueuesInOrder, Joined
  <2> QED
    BY <2>1, <2>2
<1>9. ASSUME NEW p \in DOMAIN queues', NEW q \in DOMAIN queues', p < q
      PROVE  Before(Due(p)', Due(q)')
  <2>1. p # t
    <3>1. CASE q = t
      BY <1>9, <3>1
    <3>2. CASE q # t
      BY <1>1, <1>9, <3>2 DEF Joined
    <3> QED
      BY <3>1, <3>2
  <2>2. p \in DOMAIN queues /\ Due(p)' = Due(p)
    BY <2>1 DEF Joined
  <2>3. CASE q = t
    BY <1>3, <1>6, <2>1, <2>2, <2>3
  <2>4. CASE q # t
    BY <1>9, <2>2, <2>4 DEF QueuesInOrder, Joined
  <2> QED
    BY <2>3, <2>4
<1>10. wire' = wire
  BY DEF Joined
<1> QED
  BY <1>7, <1>8, <1>9, <1>10 DEF QueuesInOrder, Ascends, Before

LEMMA JoinedKeepsNumbers ==
    ASSUME InputTypes, InputTypes', NumbersAreGiven, NumbersGrow,
           NEW t \in Nat, NEW new \in Seq(AnyRequests), Joined(t, new),
           \A i \in DOMAIN new : Numbered(new[i])'
    PROVE  NumbersAreGiven'
<1>1. /\ \A q \in DOMAIN queues : Due(q) \in Seq(AnyRequests)
      /\ wire \in Seq(AnyRequests)
  BY DuesType DEF InputTypes
<1>2. ASSUME NEW i \in DOMAIN wire' PROVE Numbered(wire[i])'
  <2>1. wire'[i] = wire[i] /\ i \in DOMAIN wire
    BY <1>2 DEF Joined
  <2>2. PICK r : r = wire[i]
    OBVIOUS
  <2>3. r \in AnyRequests /\ Numbered(r)
    BY <1>1, <2>1, <2>2, LenProperties, ElementOfSeq DEF NumbersAreGiven
  <2>4. Numbered(r)'
    BY <2>3, NumberStays
  <2> QED
    BY <2>1, <2>2, <2>4 DEF Numbered
<1>3. ASSUME NEW q \in DOMAIN queues, NEW i \in DOMAIN Due(q) PROVE Numbered(Due(q)[i]) /\ Due(q)[i] \in AnyRequests
  BY <1>1, LenProperties, ElementOfSeq DEF NumbersAreGiven
<1>4. ASSUME NEW q \in DOMAIN queues, NEW i \in DOMAIN Due(q), NEW r, r = Due(q)[i] PROVE Numbered(r)'
  BY <1>3, <1>4, NumberStays
<1>5. ASSUME NEW q \in DOMAIN queues', NEW i \in DOMAIN (Due(q)') PROVE Numbered(Due(q)[i])'
  <2>1. PICK r : r = Due(q)'[i]
    OBVIOUS
  <2>2. CASE q # t
    <3>1. q \in DOMAIN queues /\ Due(q)' = Due(q)
      BY <2>2 DEF Joined
    <3>2. Numbered(r)'
      BY <1>4, <2>1, <3>1
    <3> QED
      BY <2>1, <3>2 DEF Numbered
  <2>3. CASE q = t
    <3>1. PICK old : old = IF t \in DOMAIN queues THEN Due(t) ELSE <<>>
      OBVIOUS
    <3>2. old \in Seq(AnyRequests) /\ Due(q)' = old \o new
      BY <1>1, <2>3, <3>1, EmptySeq DEF Joined
    <3>3. \/ i \in DOMAIN old /\ r = old[i]
          \/ i - Len(old) \in DOMAIN new /\ r = new[i - Len(old)]
      BY <2>1, <3>2, ConcatSplit
    <3>4. CASE i \in DOMAIN old /\ r = old[i]
      <4>1. t \in DOMAIN queues /\ i \in DOMAIN Due(t) /\ r = Due(t)[i]
        BY <3>1, <3>4, EmptySeq
      <4>2. Numbered(r)'
        BY <1>4, <4>1
      <4> QED
        BY <2>1, <4>2 DEF Numbered
    <3>5. CASE i - Len(old) \in DOMAIN new /\ r = new[i - Len(old)]
      <4>1. PICK k : k = i - Len(old)
        OBVIOUS
      <4>2. Numbered(new[k])'
        BY <3>5, <4>1
      <4>3. r = new[k]
        BY <3>5, <4>1
      <4> QED
        BY <2>1, <4>2, <4>3 DEF Numbered
    <3> QED
      BY <3>3, <3>4, <3>5
  <2> QED
    BY <2>2, <2>3
<1> QED
  BY <1>2, <1>5 DEF NumbersAreGiven

\* A queue before which no other has anything writes the first of what it has.
Sent(q, first, rest) ==
    /\ wire' = wire \o first /\ DOMAIN queues' = DOMAIN queues
    /\ Due(q) = first \o rest /\ Due(q)' = rest
    /\ \A p \in DOMAIN queues : p # q => Due(p)' = Due(p)
    /\ \A p \in DOMAIN queues : p < q => Due(p) = <<>>

LEMMA SentKeepsOrder ==
    ASSUME InputTypes, queues' \in Seq(QueueRecords), QueuesInOrder,
           NEW q \in DOMAIN queues,
           NEW first \in Seq(AnyRequests), NEW rest \in Seq(AnyRequests), Sent(q, first, rest)
    PROVE  QueuesInOrder'
<1>1. /\ \A p \in DOMAIN queues : Due(p) \in Seq(AnyRequests)
      /\ wire \in Seq(AnyRequests) /\ DOMAIN queues = 1..Len(queues) /\ Len(queues) \in Nat
  BY DuesType, LenProperties DEF InputTypes
<1>2. wire' = wire \o first /\ Due(q)' = rest /\ Due(q) = first \o rest /\ DOMAIN queues' = DOMAIN queues
      /\ \A p \in DOMAIN queues : (p # q => Due(p)' = Due(p)) /\ (p < q => Due(p) = <<>>)
  BY DEF Sent
<1>3. /\ Ascends(first) /\ Ascends(rest) /\ Before(first, rest)
      /\ Before(wire, first) /\ Before(wire, rest)
  <2>1. Ascends(first \o rest) /\ Before(wire, first \o rest)
    BY <1>2 DEF QueuesInOrder
  <2> QED
    BY <1>1, <2>1, AscendsConcat, BeforeConcat
<1>4. Ascends(wire \o first) /\ Before(wire \o first, rest)
  BY <1>1, <1>3, AscendsConcat, BeforeConcat DEF QueuesInOrder
<1>5. ASSUME NEW p \in DOMAIN queues, p # q
      PROVE  Ascends(Due(p)) /\ Before(wire \o first, Due(p))
             /\ (p < q => Before(Due(p), rest)) /\ (q < p => Before(rest, Due(p)))
  <2>1. Before(wire, Due(p)) /\ Ascends(Due(p))
    BY DEF QueuesInOrder
  <2>2. CASE p < q
    <3>1. Due(p) = <<>>
      BY <1>2, <2>2
    <3>2. Before(first, Due(p)) /\ Before(Due(p), rest)
      BY <3>1 DEF Before
    <3> QED
      BY <1>1, <2>1, <2>2, <3>2, BeforeConcat
  <2>3. CASE q < p
    <3>1. Before(first \o rest, Due(p))
      BY <1>2, <2>3 DEF QueuesInOrder
    <3>2. Before(first, Due(p)) /\ Before(rest, Due(p))
      BY <1>1, <3>1, BeforeConcat
    <3> QED
      BY <1>1, <2>1, <2>3, <3>2, BeforeConcat
  <2> QED
    BY <1>1, <1>5, <2>2, <2>3
<1>6. ASSUME NEW p \in DOMAIN queues
      PROVE  Ascends(Due(p)') /\ Before(wire', Due(p)')
  BY <1>2, <1>3, <1>4, <1>5
<1>7. ASSUME NEW o \in DOMAIN queues, NEW p \in DOMAIN queues, o < p
      PROVE  Before(Due(o)', Due(p)')
  <2>1. CASE o = q
    <3>1. Due(o)' = rest /\ p # q /\ q < p
      BY <1>1, <1>2, <1>7, <2>1
    <3>2. Due(p)' = Due(p) /\ Before(rest, Due(p))
      BY <1>2, <1>5, <3>1
    <3> QED
      BY <3>1, <3>2
  <2>2. CASE p = q
    BY <1>2, <1>5, <1>7, <2>2
  <2>3. CASE o # q /\ p # q
    BY <1>2, <1>7, <2>3 DEF QueuesInOrder
  <2> QED
    BY <2>1, <2>2, <2>3
<1>8. Ascends(wire')
  BY <1>2, <1>4
<1> QED
  BY <1>2, <1>6, <1>7, <1>8 DEF QueuesInOrder, Ascends, Before

LEMMA SentKeepsNumbers ==
    ASSUME InputTypes, InputTypes', NumbersAreGiven, NumbersGrow,
           NEW q \in DOMAIN queues,
           NEW first \in Seq(AnyRequests), NEW rest \in Seq(AnyRequests), Sent(q, first, rest)
    PROVE  NumbersAreGiven'
<1>1. /\ \A p \in DOMAIN queues : Due(p) \in Seq(AnyRequests)
      /\ wire \in Seq(AnyRequests)
  BY DuesType DEF InputTypes
<1>2. ASSUME NEW p \in DOMAIN queues, NEW i \in DOMAIN Due(p) PROVE Numbered(Due(p)[i]) /\ Due(p)[i] \in AnyRequests
  BY <1>1, LenProperties, ElementOfSeq DEF NumbersAreGiven
<1>3. ASSUME NEW p \in DOMAIN queues, NEW i \in DOMAIN Due(p), NEW r, r = Due(p)[i] PROVE Numbered(r)'
  BY <1>2, <1>3, NumberStays
<1>4. ASSUME NEW i \in DOMAIN wire, NEW r, r = wire[i] PROVE Numbered(r)'
  <2>1. Numbered(r) /\ r \in AnyRequests
    BY <1>1, <1>4, LenProperties, ElementOfSeq DEF NumbersAreGiven
  <2> QED
    BY <2>1, NumberStays
<1>5. Due(q) = first \o rest /\ Due(q)' = rest /\ wire' = wire \o first
  BY DEF Sent
<1>6. ASSUME NEW i \in DOMAIN wire' PROVE Numbered(wire[i])'
  <2>1. PICK r : r = wire'[i]
    OBVIOUS
  <2>2. \/ i \in DOMAIN wire /\ r = wire[i]
        \/ i - Len(wire) \in DOMAIN first /\ r = first[i - Len(wire)]
    BY <1>1, <1>5, <2>1, ConcatSplit
  <2>3. CASE i \in DOMAIN wire /\ r = wire[i]
    <3>1. Numbered(r)'
      BY <1>4, <2>3
    <3> QED
      BY <2>1, <3>1 DEF Numbered
  <2>4. CASE i - Len(wire) \in DOMAIN first /\ r = first[i - Len(wire)]
    <3>1. PICK k : k = i - Len(wire)
      OBVIOUS
    <3>2. k \in DOMAIN Due(q) /\ r = Due(q)[k]
      BY <1>5, <2>4, <3>1, ConcatLeft
    <3>3. Numbered(r)'
      BY <1>3, <3>2
    <3> QED
      BY <2>1, <3>3 DEF Numbered
  <2> QED
    BY <2>2, <2>3, <2>4
<1>7. ASSUME NEW p \in DOMAIN queues', NEW i \in DOMAIN (Due(p)') PROVE Numbered(Due(p)[i])'
  <2>1. PICK r : r = Due(p)'[i]
    OBVIOUS
  <2>2. p \in DOMAIN queues
    BY DEF Sent
  <2>3. CASE p # q
    <3>1. Due(p)' = Due(p)
      BY <2>2, <2>3 DEF Sent
    <3>2. Numbered(r)'
      BY <1>3, <2>1, <2>2, <3>1
    <3> QED
      BY <2>1, <3>2 DEF Numbered
  <2>4. CASE p = q
    <3>1. PICK k : k = Len(first) + i
      OBVIOUS
    <3>2. k \in DOMAIN Due(q) /\ r = Due(q)[k]
      BY <1>5, <2>1, <2>4, <3>1, ConcatRight
    <3>3. Numbered(r)'
      BY <1>3, <3>2
    <3> QED
      BY <2>1, <3>3 DEF Numbered
  <2> QED
    BY <2>3, <2>4
<1> QED
  BY <1>6, <1>7 DEF NumbersAreGiven

----------------------------------------------------------------------------
(* The lane.                                                               *)

In(l, a) == \E i \in DOMAIN l : l[i] = a
ByAge(l) ==
    \A i, j \in DOMAIN l : i < j => l[i] # l[j] /\ (Attach \in {l[i], l[j]} \/ l[i] < l[j])

LEMMA LaneAppend ==
    ASSUME NEW l \in Seq(Nat), ByAge(l), NEW a \in Nat, ~In(l, a),
           a = Attach \/ \A i \in DOMAIN l : l[i] < a
    PROVE  /\ Append(l, a) \in Seq(Nat) /\ ByAge(Append(l, a))
           /\ \A b : In(Append(l, a), b) <=> (b = a \/ In(l, b))
           /\ l # <<>> => Append(l, a) # <<>> /\ Head(Append(l, a)) = Head(l)
<1>1. PICK m : m = Append(l, a)
  OBVIOUS
<1>2. PICK n \in Nat : n = Len(l) /\ DOMAIN l = 1..n
  BY LenProperties
<1>3. /\ m \in Seq(Nat) /\ m # <<>> /\ Len(m) = n + 1 /\ m[n + 1] = a
      /\ \A i \in 1..n : m[i] = l[i]
  BY <1>1, <1>2, AppendProperties
<1>4. DOMAIN m = 1..(n + 1)
  BY <1>3, LenProperties
<1>5. ByAge(m)
  <2>1. ASSUME NEW i \in DOMAIN m, NEW j \in DOMAIN m, i < j
        PROVE  m[i] # m[j] /\ (Attach \in {m[i], m[j]} \/ m[i] < m[j])
    <3>a. i \in 1..(n + 1) /\ j \in 1..(n + 1)
      BY <1>4
    <3>b. i \in 1..n
      BY <2>1, <3>a
    <3>1. i \in DOMAIN l /\ m[i] = l[i]
      BY <1>2, <1>3, <3>b
    <3>2. CASE j = n + 1
      BY <1>3, <3>1, <3>2 DEF In
    <3>3. CASE j # n + 1
      <4>a. j \in 1..n
        BY <3>3, <3>a
      <4>1. j \in DOMAIN l /\ m[j] = l[j]
        BY <1>2, <1>3, <4>a
      <4> QED
        BY <2>1, <3>1, <4>1 DEF ByAge
    <3> QED
      BY <3>2, <3>3
  <2> QED
    BY <2>1 DEF ByAge
<1>6. ASSUME NEW b PROVE In(m, b) <=> (b = a \/ In(l, b))
  <2>1. ASSUME In(m, b), b # a PROVE In(l, b)
    <3>1. PICK i \in DOMAIN m : m[i] = b
      BY <2>1 DEF In
    <3>2. i \in DOMAIN l /\ l[i] = b
      BY <1>2, <1>3, <1>4, <2>1, <3>1
    <3> QED
      BY <3>2 DEF In
  <2>2. ASSUME In(l, b) PROVE In(m, b)
    <3>1. PICK i \in DOMAIN l : l[i] = b
      BY <2>2 DEF In
    <3>2. i \in DOMAIN m /\ m[i] = b
      BY <1>2, <1>3, <1>4, <3>1
    <3> QED
      BY <3>2 DEF In
  <2>3. In(m, a)
    <3>1. n + 1 \in DOMAIN m
      BY <1>4
    <3> QED
      BY <1>3, <3>1 DEF In
  <2> QED
    BY <2>1, <2>2, <2>3
<1>7. l # <<>> => Head(m) = Head(l)
  BY <1>1, HeadTailAppend
<1> QED
  BY <1>1, <1>3, <1>5, <1>6, <1>7

\* What is left when one of the lane leaves it, wherever it stood.
LEMMA LaneRemove ==
    ASSUME NEW l \in Seq(Nat), ByAge(l), NEW k \in 1..Len(l)
    PROVE  /\ RemoveAt(l, k) \in Seq(Nat) /\ ByAge(RemoveAt(l, k))
           /\ \A b : In(RemoveAt(l, k), b) <=> (b # l[k] /\ In(l, b))
           /\ k # 1 => RemoveAt(l, k) # <<>> /\ Head(RemoveAt(l, k)) = Head(l)
<1>1. PICK m : m = RemoveAt(l, k)
  OBVIOUS
<1>2. PICK n \in Nat : n = Len(l) /\ DOMAIN l = 1..n
  BY LenProperties
<1>3. PICK s : s = SubSeq(l, 1, k - 1)
  OBVIOUS
<1>4. PICK t : t = SubSeq(l, k + 1, n)
  OBVIOUS
<1>a. k \in 1..n
  BY <1>2
<1>5. /\ k \in 1..n /\ k \in Nat /\ k - 1 \in Nat /\ n - k \in Nat /\ n \in Nat
  BY <1>2, <1>a
<1>6. \A i \in 1..n : l[i] \in Nat
  BY <1>2, ElementOfSeq
<1>7. s \in Seq(Nat) /\ Len(s) = k - 1 /\ \A i \in 1..(k - 1) : s[i] = l[i]
  <2>1. \A i \in 1..(k - 1) : l[i] \in Nat
    BY <1>5, <1>6
  <2>2. /\ s \in Seq(Nat) /\ Len(s) = IF 1 <= k - 1 THEN k - 1 - 1 + 1 ELSE 0
        /\ \A i \in 1 .. (k - 1) - 1 + 1 : s[i] = l[1 + i - 1]
    BY <1>3, <1>5, <2>1, SubSeqProperties
  <2>3. ASSUME NEW i \in 1..(k - 1) PROVE s[i] = l[i]
    <3>1. i \in 1..(k - 1) - 1 + 1 /\ 1 + i - 1 = i
      BY <1>5
    <3> QED
      BY <2>2, <3>1
  <2>a. IF 1 <= k - 1 THEN k - 1 - 1 + 1 = k - 1 ELSE 0 = k - 1
    BY <1>5
  <2>4. Len(s) = k - 1
    BY <2>a, <2>2
  <2> QED
    BY <2>2, <2>3, <2>4
<1>8. t \in Seq(Nat) /\ Len(t) = n - k /\ \A i \in 1..(n - k) : t[i] = l[k + i]
  <2>1. PICK h \in Nat : h = k + 1
    BY <1>5
  <2>2. ASSUME NEW i \in h..n PROVE l[i] \in Nat
    <3>1. i \in 1..n
      BY <1>5, <2>1
    <3> QED
      BY <1>6, <3>1
  <2>3. t = SubSeq(l, h, n) /\ h \in Int /\ n \in Int
    BY <1>4, <2>1
  <2>4. /\ t \in Seq(Nat) /\ Len(t) = IF h <= n THEN n - h + 1 ELSE 0
        /\ \A i \in 1 .. n - h + 1 : t[i] = l[h + i - 1]
    BY <2>2, <2>3, SubSeqProperties
  <2>a. IF h <= n THEN n - h + 1 = n - k ELSE 0 = n - k
    BY <1>5, <2>1
  <2>5. Len(t) = n - k
    BY <2>a, <2>4
  <2>6. ASSUME NEW i \in 1..(n - k) PROVE t[i] = l[k + i]
    <3>1. i \in 1..(n - h + 1) /\ h + i - 1 = k + i
      BY <1>5, <2>1
    <3> QED
      BY <2>4, <3>1
  <2> QED
    BY <2>4, <2>5, <2>6
<1>9. m = s \o t
  BY <1>1, <1>2, <1>3, <1>4 DEF RemoveAt
<1>10. m \in Seq(Nat) /\ Len(m) = n - 1 /\ DOMAIN m = 1..(n - 1)
       /\ \A i \in 1..(n - 1) : m[i] = IF i < k THEN l[i] ELSE l[i + 1]
  <2>1. m \in Seq(Nat) /\ Len(m) = Len(s) + Len(t)
        /\ \A i \in 1..(Len(s) + Len(t)) : m[i] = IF i <= Len(s) THEN s[i] ELSE t[i - Len(s)]
    BY <1>7, <1>8, <1>9, ConcatProperties
  <2>2. Len(s) + Len(t) = n - 1
    BY <1>5, <1>7, <1>8
  <2>3. ASSUME NEW i \in 1..(n - 1) PROVE m[i] = IF i < k THEN l[i] ELSE l[i + 1]
    <3>1. CASE i < k
      <4>1. i <= Len(s) /\ i \in 1..(k - 1)
        BY <1>5, <1>7, <3>1
      <4> QED
        BY <1>7, <2>1, <2>2, <3>1, <4>1
    <3>2. CASE ~(i < k)
      <4>a. PICK h \in Nat : h = Len(s) /\ h = k - 1
        BY <1>5, <1>7
      <4>1. ~(i <= h) /\ i - h \in 1..(n - k) /\ k + (i - h) = i + 1
        BY <1>5, <4>a, <3>2
      <4>2. m[i] = t[i - h]
        BY <2>1, <2>2, <4>a, <4>1
      <4>3. t[i - h] = l[k + (i - h)]
        BY <1>8, <4>1
      <4> QED
        BY <3>2, <4>1, <4>2, <4>3
    <3> QED
      BY <3>1, <3>2
  <2>4. DOMAIN m = 1..Len(m)
    BY <2>1, LenProperties
  <2> QED
    BY <2>1, <2>2, <2>3, <2>4
<1>11. ByAge(m)
  <2>1. ASSUME NEW i \in DOMAIN m, NEW j \in DOMAIN m, i < j
        PROVE  m[i] # m[j] /\ (Attach \in {m[i], m[j]} \/ m[i] < m[j])
    <3>1. PICK x : x = IF i < k THEN i ELSE i + 1
      OBVIOUS
    <3>2. PICK y : y = IF j < k THEN j ELSE j + 1
      OBVIOUS
    <3>a. i \in 1..(n - 1) /\ j \in 1..(n - 1)
      BY <1>10
    <3>b. x \in 1..n /\ y \in 1..n
      <4>a. \A e \in 1..(n - 1) : e \in 1..n /\ e + 1 \in 1..n
        BY <1>5
      <4>1. i \in 1..n /\ i + 1 \in 1..n /\ j \in 1..n /\ j + 1 \in 1..n
        BY ONLY <4>a, <3>a
      <4> QED
        BY <3>1, <3>2, <4>1
    <3>c. x < y
      BY <1>5, <2>1, <3>1, <3>2, <3>a
    <3>3. x \in DOMAIN l /\ y \in DOMAIN l /\ x < y /\ m[i] = l[x] /\ m[j] = l[y]
      BY <1>2, <1>10, <3>1, <3>2, <3>a, <3>b, <3>c
    <3> QED
      BY <3>3 DEF ByAge
  <2> QED
    BY <2>1 DEF ByAge
<1>12. ASSUME NEW i \in DOMAIN l, i # k PROVE l[i] # l[k]
  BY <1>2, <1>12 DEF ByAge
<1>13. ASSUME NEW b PROVE In(m, b) <=> (b # l[k] /\ In(l, b))
  <2>1. ASSUME In(m, b) PROVE b # l[k] /\ In(l, b)
    <3>1. PICK i \in DOMAIN m : m[i] = b
      BY <2>1 DEF In
    <3>2. PICK x : x = IF i < k THEN i ELSE i + 1
      OBVIOUS
    <3>a. i \in 1..(n - 1)
      BY <1>10
    <3>b. x \in 1..n /\ x # k
      BY <1>5, <3>2, <3>a
    <3>3. x \in DOMAIN l /\ x # k /\ l[x] = b
      BY <1>2, <1>10, <3>1, <3>2, <3>a, <3>b
    <3> QED
      BY <1>12, <3>3 DEF In
  <2>2. ASSUME b # l[k], In(l, b) PROVE In(m, b)
    <3>1. PICK x \in DOMAIN l : l[x] = b
      BY <2>2 DEF In
    <3>2. PICK i : i = IF x < k THEN x ELSE x - 1
      OBVIOUS
    <3>a. x \in 1..n /\ x # k /\ x \in Nat
      BY <1>2, <2>2, <3>1
    <3>c. i \in 1..(n - 1)
      <4>1. CASE x < k
        <5>1. i = x /\ x \in 1..(n - 1)
          BY <1>5, <3>2, <3>a, <4>1
        <5> QED
          BY <5>1
      <4>2. CASE ~(x < k)
        <5>a. \A e \in 1..n : e # k /\ ~(e < k) => e - 1 \in 1..(n - 1)
          BY <1>5
        <5>1. i = x - 1 /\ x - 1 \in 1..(n - 1)
          BY ONLY <5>a, <3>2, <3>a, <4>2
        <5> QED
          BY <5>1
      <4> QED
        BY <4>1, <4>2
    <3>b. i \in 1..(n - 1) /\ x = IF i < k THEN i ELSE i + 1
      <4>1. CASE x < k
        BY <3>2, <3>c, <4>1
      <4>2. CASE ~(x < k)
        <5>1. i = x - 1 /\ ~(i < k)
          BY <1>5, <3>2, <3>a, <4>2
        <5> QED
          BY <3>a, <3>c, <5>1
      <4> QED
        BY <4>1, <4>2
    <3>3. i \in DOMAIN m /\ m[i] = b
      BY <1>10, <3>1, <3>b
    <3> QED
      BY <3>3 DEF In
  <2> QED
    BY <2>1, <2>2
<1>14. ASSUME k # 1 PROVE m # <<>> /\ Head(m) = Head(l)
  <2>a. 1 \in 1..(n - 1) /\ 1 < k
    BY <1>5, <1>14
  <2>1. 1 \in DOMAIN m /\ m[1] = l[1]
    BY <1>10, <2>a
  <2>2. m # <<>>
    BY <2>1
  <2>3. Head(m) = m[1] /\ Head(l) = l[1]
    OBVIOUS
  <2> QED
    BY <2>1, <2>2, <2>3
<1> QED
  BY <1>1, <1>10, <1>11, <1>13, <1>14

LEMMA LaneTail ==
    ASSUME NEW l \in Seq(Nat), ByAge(l), l # <<>>
    PROVE  /\ Tail(l) \in Seq(Nat) /\ ByAge(Tail(l))
           /\ \A b : In(Tail(l), b) <=> (b # Head(l) /\ In(l, b))
<1>1. PICK n \in Nat : n = Len(l) /\ DOMAIN l = 1..n
  BY LenProperties
<1>2. n # 0
  BY <1>1, EmptySeq
<1>3. /\ Tail(l) \in Seq(Nat) /\ Len(Tail(l)) = n - 1
      /\ \A i \in 1..(n - 1) : Tail(l)[i] = l[i + 1]
  BY <1>1, HeadTailProperties
<1>4. PICK m : m = Tail(l)
  OBVIOUS
<1>5. DOMAIN m = 1..(n - 1) /\ \A i \in 1..(n - 1) : m[i] = l[i + 1]
  BY <1>3, <1>4, LenProperties
<1>6. Head(l) = l[1] /\ 1 \in DOMAIN l
  BY <1>1, <1>2
<1>7. ByAge(m)
  <2>1. ASSUME NEW i \in DOMAIN m, NEW j \in DOMAIN m, i < j
        PROVE  m[i] # m[j] /\ (Attach \in {m[i], m[j]} \/ m[i] < m[j])
    <3>1. i + 1 \in DOMAIN l /\ j + 1 \in DOMAIN l /\ i + 1 < j + 1
          /\ m[i] = l[i + 1] /\ m[j] = l[j + 1]
      <4>1. i \in 1..(n - 1) /\ j \in 1..(n - 1)
        BY <1>5
      <4>2. i + 1 \in 1..n /\ j + 1 \in 1..n /\ i + 1 < j + 1
        BY <2>1, <4>1
      <4> QED
        BY <1>1, <1>5, <4>1, <4>2
    <3> QED
      BY <3>1 DEF ByAge
  <2> QED
    BY <2>1 DEF ByAge
<1>8. ASSUME NEW b PROVE In(m, b) <=> (b # Head(l) /\ In(l, b))
  <2>1. ASSUME In(m, b) PROVE b # Head(l) /\ In(l, b)
    <3>1. PICK i \in DOMAIN m : m[i] = b
      BY <2>1 DEF In
    <3>2. i + 1 \in DOMAIN l /\ 1 < i + 1 /\ l[i + 1] = b
      BY <1>1, <1>2, <1>5, <3>1
    <3>3. l[1] # l[i + 1]
      BY <1>6, <3>2 DEF ByAge
    <3> QED
      BY <1>6, <3>2, <3>3 DEF In
  <2>2. ASSUME b # Head(l), In(l, b) PROVE In(m, b)
    <3>1. PICK x \in DOMAIN l : l[x] = b
      BY <2>2 DEF In
    <3>2. x - 1 \in DOMAIN m /\ m[x - 1] = b
      BY <1>1, <1>2, <1>5, <1>6, <2>2, <3>1
    <3> QED
      BY <3>2 DEF In
  <2> QED
    BY <2>1, <2>2
<1> QED
  BY <1>3, <1>4, <1>7, <1>8

----------------------------------------------------------------------------
(* What a step leaves as it is.                                            *)

LEMMA QuietQueues ==
    ASSUME InputInvariant, InputTypes', UNCHANGED <<queue, queues, wire>>, NumbersGrow
    PROVE  NewestTakesInput' /\ BatchesFit' /\ NumbersAreGiven' /\ QueuesInOrder'
<1> USE DEF InputInvariant
<1>1. queue' = queue /\ queues' = queues /\ wire' = wire
  OBVIOUS
<1>2. queues \in Seq(QueueRecords)
  BY DEF InputTypes
<1>3. NewestTakesInput' /\ BatchesFit'
  BY <1>1 DEF NewestTakesInput, BatchesFit
<1>4. Thinned
  <2>1. ASSUME NEW q \in DOMAIN queues PROVE PartOf(Due(q)', Due(q))
    <3>1. Due(q)' = Due(q) /\ Due(q) \in Seq(AnyRequests)
      BY <1>1, <1>2, DuesType DEF Due
    <3> QED
      BY <3>1, PartOfItself
  <2> QED
    BY <1>1, <2>1 DEF Thinned
<1>5. QueuesInOrder'
  BY <1>1, <1>2, <1>4, ThinnedKeepsOrder
<1>6. NumbersAreGiven'
  BY <1>4, ThinnedKeepsNumbers
<1> QED
  BY <1>3, <1>5, <1>6

LEMMA LaneForm ==
    LaneByAge <=>
      /\ \A i \in DOMAIN lane : lane[i] \in 0..Len(queues)
      /\ ByAge(lane)
      /\ \A q \in DOMAIN queues :
            /\ In(lane, q) <=> queues[q].at \in {"lane", "write", "record"}
            /\ queues[q].at \in {"write", "record"} => Holds(q)
      /\ In(lane, Attach) <=> life.at \in AttachSteps
      /\ life.at \in AttachSteps \ {"attachLane"} => Holds(Attach)
  BY Zenon DEF LaneByAge, ByAge, In, InLane

\* What is in the lane, as the lane alone says.
LEMMA LaneMembers ==
    ASSUME InputTypes, LaneByAge
    PROVE  \A a : In(lane, a) => a = Attach \/ a \in DOMAIN queues
<1>1. PICK L \in Nat : L = Len(queues) /\ DOMAIN queues = 1..L
  BY LenProperties DEF InputTypes
<1>2. \A i \in DOMAIN lane : lane[i] \in 0..L
  BY <1>1 DEF LaneByAge
<1>3. ASSUME NEW i \in DOMAIN lane PROVE lane[i] = 0 \/ lane[i] \in 1..L
  BY <1>1, <1>2
<1> QED
  BY <1>1, <1>3 DEF In, Attach

LEMMA QuietLane ==
    ASSUME InputInvariant, UNCHANGED <<queues, lane>>,
           life.at \in AttachSteps <=> life'.at \in AttachSteps,
           life'.at \in AttachSteps \ {"attachLane"} => Holds(Attach)
    PROVE  LaneByAge'
<1>1. queues' = queues /\ lane' = lane
  OBVIOUS
<1>2. LaneByAge
  BY DEF InputInvariant
<1>3. \A a : (In(lane, a)' <=> In(lane, a)) /\ (Holds(a)' <=> Holds(a))
  BY <1>1 DEF In, Holds
<1>4. /\ \A i \in DOMAIN lane' : lane'[i] \in 0..Len(queues')
      /\ \A i, j \in DOMAIN lane' : i < j =>
            lane'[i] # lane'[j] /\ (Attach \in {lane'[i], lane'[j]} \/ lane'[i] < lane'[j])
  BY ONLY <1>1, <1>2, Zenon DEF LaneByAge
<1>5. \A q \in DOMAIN queues' :
          /\ InLane(q)' <=> queues'[q].at \in {"lane", "write", "record"}
          /\ queues'[q].at \in {"write", "record"} => Holds(q)'
  BY ONLY <1>1, <1>2, ZenonT(40) DEF LaneByAge, InLane, Holds
<1>6. InLane(Attach)' <=> life'.at \in AttachSteps
  <2>1. InLane(Attach) <=> life.at \in AttachSteps
    BY <1>2, Zenon DEF LaneByAge
  <2>2. InLane(Attach)' <=> InLane(Attach)
    BY <1>1 DEF InLane
  <2> QED
    BY <2>1, <2>2
<1>7. life'.at \in AttachSteps \ {"attachLane"} => Holds(Attach)'
  BY <1>3
<1> QED
  BY ONLY <1>4, <1>5, <1>6, <1>7, Zenon DEF LaneByAge

RuntimeGoesOn ==
    \/ runtime'.id = 0 \/ runtime'.id > made.runtime
    \/ runtime'.id = runtime.id /\ runtime'.channel = runtime.channel
JobGoesOn == job.at \in {"late", "ended"} => job'.at \in {"late", "ended"}

LEMMA AtHomeStays ==
    ASSUME InputTypes, InputTypes', RuntimeGoesOn, JobGoesOn,
           NEW r \in AnyRequests, Numbered(r), AtHome(r)
    PROVE  AtHome(r)'
<1>1. r.runtime \in 1..made.runtime /\ made.runtime \in Nat /\ runtime.id \in Nat /\ runtime'.id \in Nat
      /\ r.runtime \in Nat
  BY DEF Numbered, InputTypes, AnyRequests
<1>2. CASE runtime'.id = r.runtime
  <2>1. runtime'.id = runtime.id /\ runtime'.channel = runtime.channel
    BY <1>1, <1>2 DEF RuntimeGoesOn
  <2> QED
    BY <2>1 DEF AtHome, JobGoesOn, IsJob
<1>3. CASE runtime'.id # r.runtime
  BY <1>3 DEF AtHome
<1> QED
  BY <1>2, <1>3

\* The condition on a payload whose target was checked.
TargetIsCurrent ==
    job.at = "sending" /\ job.runtime = runtime.id /\ life.at # "attachStop"
        => job.typed = runtime.channel

LEMMA HomeStays ==
    ASSUME InputInvariant, InputTypes', UNCHANGED queues, Attached' \/ RuntimeGoesOn, JobGoesOn,
           Attached => Attached', ChannelIsOwn',
           life'.at = "attachOpen" => life'.runtime # 0, TargetIsCurrent'
    PROVE  InputAtHome'
<1> USE DEF InputInvariant
<1>1. queues \in Seq(QueueRecords) /\ queues' = queues
  BY DEF InputTypes
<1>2. NoStaleKeys'
  BY <1>1 DEF InputAtHome, NoStaleKeys
<1>3. ASSUME ~Attached', NEW q \in DOMAIN queues, NEW r \in AnyRequests,
             NEW i \in DOMAIN Due(q), r = Due(q)[i], AtHome(r)
      PROVE  AtHome(r)'
  BY <1>3, AtHomeStays DEF NumbersAreGiven
<1>4. ASSUME ~Attached', NEW q \in DOMAIN queues,
             queues[q].at = "lane", ~queues[q].carried, NEW i \in DOMAIN queues[q].batch
      PROVE  AtHome(queues[q].batch[i])'
  <2>1. AtHome(queues[q].batch[i])
    BY <1>4 DEF InputAtHome
  <2>2. queues[q] \in QueueRecords
    BY <1>1, DuesType
  <2>3. Taken(queues[q]) = queues[q].batch /\ Taken(queues[q]) \in Seq(AnyRequests)
        /\ Kept(queues[q]) \in Seq(AnyRequests)
    BY <1>4, <2>2, DueType DEF Taken
  <2>4. i \in DOMAIN Due(q) /\ Due(q)[i] = queues[q].batch[i]
    BY <2>3, ConcatLeft DEF Due
  <2>5. PICK r : r = queues[q].batch[i]
    OBVIOUS
  <2>6. r \in AnyRequests
    BY <2>3, <2>5, LenProperties, ElementOfSeq
  <2>7. AtHome(r)'
    BY <1>3, <1>4, <2>1, <2>4, <2>5, <2>6
  <2> QED
    BY <1>1, <2>5, <2>7 DEF AtHome
<1>5. ASSUME ~Attached', NEW q \in DOMAIN queues, NEW i \in DOMAIN Kept(queues[q])
      PROVE  AtHome(Kept(queues[q])[i])'
  <2>1. AtHome(Kept(queues[q])[i])
    BY <1>5 DEF InputAtHome
  <2>2. Taken(queues[q]) \in Seq(AnyRequests) /\ Kept(queues[q]) \in Seq(AnyRequests)
    BY <1>1, DuesType, DueType
  <2>3. PICK k : k = Len(Taken(queues[q])) + i
    OBVIOUS
  <2>4. k \in DOMAIN Due(q) /\ Due(q)[k] = Kept(queues[q])[i]
    BY <2>2, <2>3, ConcatRight DEF Due
  <2>5. PICK r : r = Kept(queues[q])[i]
    OBVIOUS
  <2>6. r \in AnyRequests
    BY <2>2, <2>5, LenProperties, ElementOfSeq
  <2>7. AtHome(r)'
    BY <1>3, <1>5, <2>1, <2>4, <2>5, <2>6
  <2>8. (Kept(queues[q])[i])' = r
    BY <1>1, <2>5
  <2> QED
    BY <2>7, <2>8 DEF AtHome
<1> QED
  BY <1>1, <1>2, <1>4, <1>5 DEF InputAtHome, TargetIsCurrent
----------------------------------------------------------------------------
(* The steps that leave the queues and what was written as they are.       *)

LEMMA QuietStep ==
    ASSUME InputInvariant, InputTypes', UNCHANGED <<queue, queues, wire>>, NumbersGrow,
           LaneByAge', NamesAreNew', Attached' \/ RuntimeGoesOn, JobGoesOn,
           Attached => Attached', ChannelIsOwn',
           life'.at = "attachOpen" => life'.runtime # 0, TargetIsCurrent'
    PROVE  InputInvariant'
  BY QuietQueues, HomeStays, Zenon DEF InputInvariant

LEMMA SameLane ==
    ASSUME InputInvariant, UNCHANGED <<queues, lane>>, life'.at = life.at
    PROVE  LaneByAge'
<1>1. life.at \in AttachSteps \ {"attachLane"} => Holds(Attach)
  BY Zenon DEF InputInvariant, LaneByAge
<1> QED
  BY <1>1, QuietLane

LEMMA SameLog ==
    ASSUME InputInvariant, UNCHANGED logging
    PROVE  LogTypes'
  BY DEF InputInvariant, InputTypes, LogTypes, logging

LEMMA SameHome ==
    ASSUME InputInvariant
    PROVE  TargetIsCurrent /\ ChannelIsOwn /\ (life.at = "attachOpen" => life.runtime # 0)
  BY DEF InputInvariant, InputAtHome, TargetIsCurrent

LEMMA ConnectedStep ==
    ASSUME InputInvariant, OpenSession \/ Reconnects
    PROVE  InputInvariant'
<1>1. Connected /\ UNCHANGED <<input, writing, lane, job, logging, life, exit, wire, budget>>
  BY Zenon DEF OpenSession, Reconnects
<1>2. /\ UNCHANGED <<front, stream, queue, queues, lane, job, life, wire>>
      /\ made' = [made EXCEPT !.runtime = @ + 1, !.channel = @ + 1]
      /\ runtime' = [id |-> made.runtime + 1, channel |-> made.channel + 1,
                     opened |-> made.runtime + 1, closed |-> FALSE]
  BY <1>1 DEF Connected, input, writing
<1>3. /\ made \in [runtime : Nat, channel : Nat, stream : Nat]
      /\ stream \in [Windows -> StreamRecords] /\ job \in JobRecords
  BY DEF InputInvariant, InputTypes
<1>4. /\ made'.runtime = made.runtime + 1 /\ made'.stream = made.stream
      /\ runtime'.id = made.runtime + 1 /\ runtime'.opened = made.runtime + 1
      /\ made' \in [runtime : Nat, channel : Nat, stream : Nat]
      /\ runtime' \in [id : Nat, channel : Nat, opened : Nat, closed : BOOLEAN]
  <2>1. made.runtime + 1 \in Nat /\ made.channel + 1 \in Nat
    BY <1>3
  <2>2. made'.runtime = made.runtime + 1 /\ made'.stream = made.stream
    BY <1>2, <1>3
  <2>3. made' \in [runtime : Nat, channel : Nat, stream : Nat]
    BY <1>2, <1>3, <2>1
  <2>4. runtime' \in [id : Nat, channel : Nat, opened : Nat, closed : BOOLEAN]
    BY <1>2, <2>1
  <2> QED
    BY <1>2, <2>2, <2>3, <2>4
<1>5. InputTypes'
  BY <1>1, <1>2, <1>4, SameLog DEF InputInvariant, InputTypes
<1>6. NumbersGrow
  BY <1>2, <1>3, <1>4 DEF NumbersGrow, StreamRecords, JobRecords
<1>7. LaneByAge'
  BY <1>2, SameLane
<1>8. NamesAreNew'
  BY <1>2, <1>3, <1>4 DEF InputInvariant, NamesAreNew, StreamRecords, JobRecords
<1>9. RuntimeGoesOn /\ ChannelIsOwn' /\ JobGoesOn
  BY <1>2, <1>3, <1>4 DEF RuntimeGoesOn, ChannelIsOwn, JobGoesOn
<1>10. TargetIsCurrent'
  BY <1>2, <1>3, <1>4 DEF InputInvariant, NamesAreNew, TargetIsCurrent, JobRecords
<1>11. (Attached => Attached') /\ (life'.at = "attachOpen" => life'.runtime # 0)
  BY <1>2, SameHome DEF Attached
<1> QED
  BY <1>2, <1>5, <1>6, <1>7, <1>8, <1>9, <1>10, <1>11, QuietStep

LEMMA ConnectionLostStep ==
    ASSUME InputInvariant, ConnectionLost
    PROVE  InputInvariant'
<1>1. /\ UNCHANGED <<made, front, stream, queue, queues, lane, job, life, wire, logging>>
      /\ runtime' = [runtime EXCEPT !.closed = TRUE]
  BY DEF ConnectionLost, input, writing
<1>2. /\ made \in [runtime : Nat, channel : Nat, stream : Nat]
      /\ stream \in [Windows -> StreamRecords] /\ job \in JobRecords
      /\ runtime \in [id : Nat, channel : Nat, opened : Nat, closed : BOOLEAN]
  BY DEF InputInvariant, InputTypes
<1>3. /\ runtime'.id = runtime.id /\ runtime'.opened = runtime.opened
      /\ runtime'.channel = runtime.channel
      /\ runtime' \in [id : Nat, channel : Nat, opened : Nat, closed : BOOLEAN]
  <2>1. /\ runtime'.id = runtime.id /\ runtime'.opened = runtime.opened
        /\ runtime'.channel = runtime.channel
    BY <1>1, <1>2
  <2>2. runtime' \in [id : Nat, channel : Nat, opened : Nat, closed : BOOLEAN]
    BY <1>1, <1>2
  <2> QED
    BY <2>1, <2>2
<1>4. InputTypes'
  BY <1>1, <1>3, SameLog DEF InputInvariant, InputTypes
<1>5. NumbersGrow
  BY <1>1, <1>2 DEF NumbersGrow, StreamRecords, JobRecords
<1>6. LaneByAge'
  BY <1>1, SameLane
<1>7. NamesAreNew'
  BY <1>1, <1>3 DEF InputInvariant, NamesAreNew
<1>8. RuntimeGoesOn /\ ChannelIsOwn' /\ JobGoesOn /\ TargetIsCurrent'
  BY <1>1, <1>3, SameHome DEF RuntimeGoesOn, ChannelIsOwn, JobGoesOn, TargetIsCurrent
<1>9. (Attached => Attached') /\ (life'.at = "attachOpen" => life'.runtime # 0)
  BY <1>1, SameHome DEF Attached
<1> QED
  BY <1>1, <1>4, <1>5, <1>6, <1>7, <1>8, <1>9, QuietStep

LEMMA BindStreamStep ==
    ASSUME InputInvariant, NEW w \in Windows, BindStream(w)
    PROVE  InputInvariant'
<1>1. /\ UNCHANGED <<runtime, queue, queues, lane, job, life, wire, logging>>
      /\ Current # 0
      /\ made' = [made EXCEPT !.stream = @ + 1]
      /\ stream' = [stream EXCEPT ![w] =
                      [NoStream EXCEPT !.id = made.stream + 1, !.runtime = Current]]
  BY DEF BindStream, writing
<1>2. /\ made \in [runtime : Nat, channel : Nat, stream : Nat]
      /\ stream \in [Windows -> StreamRecords] /\ job \in JobRecords
      /\ runtime \in [id : Nat, channel : Nat, opened : Nat, closed : BOOLEAN]
  BY DEF InputInvariant, InputTypes
<1>3. Current \in Nat /\ Current = runtime.id
  BY <1>1, CurrentType DEF InputInvariant
<1>4. PICK st : st = [NoStream EXCEPT !.id = made.stream + 1, !.runtime = Current]
  OBVIOUS
<1>5. /\ st \in StreamRecords /\ st.id = made.stream + 1 /\ st.runtime = runtime.id /\ st.next = 0
  <2>1. made.stream + 1 \in Nat
    BY <1>2
  <2>2. /\ st.id = made.stream + 1 /\ st.runtime = Current /\ st.next = 0
    BY <1>4, NoStreamType DEF StreamRecords
  <2>3. st \in StreamRecords
    BY <1>3, <1>4, <2>1, NoStreamType DEF StreamRecords
  <2> QED
    BY <1>3, <2>2, <2>3
<1>6. /\ stream'[w] = st /\ \A v \in Windows : v # w => stream'[v] = stream[v]
      /\ stream' \in [Windows -> StreamRecords]
  BY <1>1, <1>2, <1>4, <1>5
<1>7. /\ made'.runtime = made.runtime /\ made'.stream = made.stream + 1
      /\ made' \in [runtime : Nat, channel : Nat, stream : Nat]
  BY <1>1, <1>2
<1>8. InputTypes'
  BY <1>1, <1>6, <1>7, SameLog DEF InputInvariant, InputTypes
<1>9. \A v \in Windows : stream[v].next \in Nat /\ stream[v].id \in Nat
  BY <1>2 DEF StreamRecords
<1>10. NumbersGrow
  BY <1>1, <1>2, <1>5, <1>6, <1>7, <1>9 DEF NumbersGrow, JobRecords
<1>11. NamesAreNew'
  <2>1. \A v \in Windows : stream[v].id <= made.stream
    BY <1>2, <1>9 DEF InputInvariant, NamesAreNew
  <2>2. runtime.id \in 1..made.runtime
    BY <1>1, <1>2, <1>3 DEF InputInvariant, NamesAreNew
  <2>3. ASSUME NEW v \in Windows, stream'[v].id # 0
        PROVE  /\ stream'[v].id <= made'.stream /\ stream'[v].runtime \in 1..made'.runtime
               /\ \A u \in Windows \ {v} : stream'[u].id # stream'[v].id
    <3>1. CASE v = w
      BY <1>2, <1>5, <1>6, <1>7, <1>9, <2>1, <2>2, <3>1
    <3>2. CASE v # w
      <4>1. stream[v].id # 0 /\ stream'[v] = stream[v]
        BY <1>6, <2>3, <3>2
      <4>2. /\ stream[v].id <= made.stream /\ stream[v].runtime \in 1..made.runtime
            /\ \A u \in Windows \ {v} : stream[u].id # stream[v].id
        BY <4>1 DEF InputInvariant, NamesAreNew
      <4>3. stream'[w].id = made.stream + 1 /\ stream'[w].id # stream[v].id
        BY <1>2, <1>5, <1>6, <1>9, <4>2
      <4> QED
        BY <1>2, <1>6, <1>7, <1>9, <4>1, <4>2, <4>3
    <3> QED
      BY <3>1, <3>2
  <2> QED
    BY <1>1, <1>7, <2>3 DEF InputInvariant, NamesAreNew
<1>12. RuntimeGoesOn /\ ChannelIsOwn' /\ JobGoesOn /\ TargetIsCurrent'
  BY <1>1, SameHome DEF RuntimeGoesOn, ChannelIsOwn, JobGoesOn, TargetIsCurrent
<1>13. (Attached => Attached') /\ (life'.at = "attachOpen" => life'.runtime # 0)
  BY <1>1, SameHome DEF Attached
<1> QED
  BY <1>1, <1>8, <1>10, SameLane, <1>11, <1>12, <1>13, QuietStep
----------------------------------------------------------------------------
(* The job and the streams go on, or end.                                  *)

JobKeeps ==
    /\ JobGoesOn
    /\ job.at # "none" => job'.at # "none"
    /\ job.at # "none" /\ job'.at # "ended" => job.at # "ended" /\ job'.sent >= job.sent
    /\ job'.at \in {"ready", "sending", "waiting", "late"} => job'.runtime \in 1..made.runtime
    /\ job'.at = "sending" =>
          \/ job'.typed = runtime.channel
          \/ job.at = "sending" /\ job'.runtime = job.runtime /\ job'.typed = job.typed

LEMMA JobSame ==
    ASSUME InputInvariant, job' = job
    PROVE  JobKeeps
<1>1. job.sent \in Nat
  BY DEF InputInvariant, InputTypes, JobRecords
<1> QED
  BY <1>1 DEF JobKeeps, JobGoesOn, InputInvariant, NamesAreNew

LEMMA JobAnswered ==
    ASSUME InputInvariant, NEW batch, job' = Answer(batch)
    PROVE  JobKeeps /\ job' \in JobRecords
<1>1. job \in JobRecords /\ job.sent \in Nat
  BY DEF InputInvariant, InputTypes, JobRecords
<1>2. /\ job' \in JobRecords
      /\ job'.runtime = job.runtime /\ job'.typed = job.typed /\ job'.sent = job.sent
      /\ job'.at = job.at \/ (job.at = "waiting" /\ job'.at = "ready")
  BY <1>1, AnswerFacts
<1>3. job.at \in {"ready", "sending", "waiting", "late"} => job.runtime \in 1..made.runtime
  BY DEF InputInvariant, NamesAreNew
<1> QED
  BY <1>1, <1>2, <1>3 DEF JobKeeps, JobGoesOn

LEMMA JobEnds ==
    ASSUME InputInvariant, job' = EndJob
    PROVE  JobKeeps /\ job' \in JobRecords /\ job'.at # "sending"
<1>1. job \in JobRecords /\ job.sent \in Nat
  BY DEF InputInvariant, InputTypes, JobRecords
<1>2. job.at \in {"none", "ready", "sending", "waiting", "late", "ended"}
  BY <1>1 DEF JobRecords
<1>3. job.at \in {"ready", "sending", "waiting", "late"} => job.runtime \in 1..made.runtime
  BY DEF InputInvariant, NamesAreNew
<1>4. job' \in JobRecords
  BY <1>1, EndJobFacts
<1>5. CASE job.at \in {"none", "late"}
  <2>1. job' = job
    BY <1>1, <1>5, EndJobFacts
  <2> QED
    BY <1>4, <1>5, <2>1, JobSame
<1>6. CASE job.at = "sending"
  <2>1. job'.at = "late" /\ job'.runtime = job.runtime /\ job'.sent = job.sent
    BY <1>1, <1>6, EndJobFacts
  <2> QED
    BY <1>1, <1>3, <1>4, <1>6, <2>1 DEF JobKeeps, JobGoesOn
<1>7. CASE job.at \in {"ready", "waiting", "ended"}
  <2>1. job'.at = "ended"
    BY <1>1, <1>7, EndJobFacts
  <2> QED
    BY <1>4, <2>1 DEF JobKeeps, JobGoesOn
<1> QED
  BY <1>2, <1>5, <1>6, <1>7

StreamsKeep ==
    \A w \in Windows :
        \/ stream'[w].id = 0
        \/ /\ stream'[w].id = stream[w].id /\ stream'[w].runtime = stream[w].runtime
           /\ stream'[w].next >= stream[w].next

LEMMA StreamsSame ==
    ASSUME InputInvariant, stream' = stream
    PROVE  StreamsKeep
<1>1. \A w \in Windows : stream[w].next \in Nat
  BY DEF InputInvariant, InputTypes, StreamRecords
<1> QED
  BY <1>1 DEF StreamsKeep

LEMMA StreamsEnd ==
    ASSUME stream' = [w \in Windows |-> NoStream]
    PROVE  StreamsKeep /\ stream' \in [Windows -> StreamRecords]
  BY NoStreamType DEF StreamsKeep

AttachKeeps ==
    /\ life'.at = "attachOpen" => life'.runtime # 0
    /\ life.at # "attachStop" \/ life'.at = "attachStop" \/ job'.at # "sending"

LEMMA AttachSame ==
    ASSUME InputInvariant, life' = life
    PROVE  AttachKeeps
  BY SameHome DEF AttachKeeps

LEMMA SteadyFacts ==
    ASSUME InputInvariant, InputTypes', UNCHANGED <<made, runtime>>,
           JobKeeps, StreamsKeep, AttachKeeps
    PROVE  /\ NumbersGrow /\ NamesAreNew' /\ RuntimeGoesOn /\ JobGoesOn
           /\ ChannelIsOwn' /\ TargetIsCurrent' /\ (life'.at = "attachOpen" => life'.runtime # 0)
<1>1. made' = made /\ runtime' = runtime /\ made.stream \in Nat /\ made.runtime \in Nat
  BY DEF InputInvariant, InputTypes
<1>2. NumbersGrow
  BY <1>1 DEF NumbersGrow, StreamsKeep, JobKeeps
<1>3. NamesAreNew'
  <2>1. runtime'.id <= made'.runtime
    BY <1>1 DEF InputInvariant, NamesAreNew
  <2>2. job'.at \in {"ready", "sending", "waiting", "late"} => job'.runtime \in 1..made'.runtime
    BY <1>1 DEF JobKeeps
  <2>3. ASSUME NEW w \in Windows, stream'[w].id # 0
        PROVE  /\ stream'[w].id <= made'.stream /\ stream'[w].runtime \in 1..made'.runtime
               /\ \A v \in Windows \ {w} : stream'[v].id # stream'[w].id
    <3>1. stream'[w].id = stream[w].id /\ stream'[w].runtime = stream[w].runtime
      BY <2>3 DEF StreamsKeep
    <3>2. /\ stream[w].id <= made.stream /\ stream[w].runtime \in 1..made.runtime
          /\ \A v \in Windows \ {w} : stream[v].id # stream[w].id
      BY <2>3, <3>1 DEF InputInvariant, NamesAreNew
    <3>3. ASSUME NEW v \in Windows \ {w} PROVE stream'[v].id # stream'[w].id
      BY <2>3, <3>1, <3>2 DEF StreamsKeep
    <3> QED
      BY <1>1, <3>1, <3>2, <3>3
  <2> QED
    BY <2>1, <2>2, <2>3 DEF NamesAreNew
<1>4. RuntimeGoesOn /\ ChannelIsOwn'
  BY <1>1, SameHome DEF RuntimeGoesOn, ChannelIsOwn
<1>5. TargetIsCurrent'
  BY <1>1, SameHome DEF TargetIsCurrent, JobKeeps, AttachKeeps
<1> QED
  BY <1>2, <1>3, <1>4, <1>5 DEF JobKeeps, AttachKeeps

LEMMA SteadyStep ==
    ASSUME InputInvariant, InputTypes', UNCHANGED <<made, runtime, queue, queues, wire>>,
           JobKeeps, StreamsKeep, AttachKeeps, LaneByAge', Attached => Attached'
    PROVE  InputInvariant'
  BY SteadyFacts, QuietStep

----------------------------------------------------------------------------
LEMMA WindowSteps ==
    ASSUME InputInvariant, NEW w \in Windows,
           Type(w) \/ ResetStream(w) \/ CloseStream(w)
    PROVE  InputInvariant'
<1>1. UNCHANGED <<writing, lane, job, logging, session, wire>>
  BY Zenon DEF Type, ResetStream, CloseStream
<1>2. UNCHANGED <<runtime, made, queue, queues, lane, job, life, wire>>
  BY <1>1 DEF writing, session
<1>3. stream \in [Windows -> StreamRecords]
  BY DEF InputInvariant, InputTypes
<1>4. StreamsKeep /\ stream' \in [Windows -> StreamRecords]
  <2>1. CASE Type(w)
    <3>1. stream' = [stream EXCEPT ![w].sent = @ + 1]
      BY <2>1 DEF Type
    <3>2. PICK st : st = [stream[w] EXCEPT !.sent = @ + 1]
      OBVIOUS
    <3>3. /\ st \in StreamRecords /\ st.id = stream[w].id /\ st.runtime = stream[w].runtime
          /\ st.next = stream[w].next
      BY <1>3, <3>2 DEF StreamRecords
    <3>4. stream' = [stream EXCEPT ![w] = st]
      BY <3>1, <3>2
    <3>5. \A v \in Windows : stream[v].next \in Nat
      BY <1>3 DEF StreamRecords
    <3> QED
      BY <1>3, <3>3, <3>4, <3>5 DEF StreamsKeep
  <2>2. CASE ResetStream(w)
    BY <1>3, <2>2, StreamsSame DEF ResetStream
  <2>3. CASE CloseStream(w)
    <3>1. stream' = [stream EXCEPT ![w] = NoStream]
      BY <2>3 DEF CloseStream
    <3>2. \A v \in Windows : stream[v].next \in Nat
      BY <1>3 DEF StreamRecords
    <3> QED
      BY <1>3, <3>1, <3>2, NoStreamType DEF StreamsKeep
  <2> QED
    BY <2>1, <2>2, <2>3
<1>5. InputTypes'
  BY <1>1, <1>2, <1>4, SameLog DEF InputInvariant, InputTypes
<1> QED
  BY <1>2, <1>4, <1>5, JobSame, AttachSame, SameLane, SteadyStep DEF Attached

LEMMA QuietJobSteps ==
    ASSUME InputInvariant, BeginJob \/ JobTarget \/ JobTimesOut \/ CancelJob
    PROVE  InputInvariant'
<1>1. UNCHANGED <<input, writing, lane, logging, session, wire>>
  BY Zenon DEF BeginJob, JobTarget, JobTimesOut, CancelJob
<1>2. UNCHANGED <<runtime, made, stream, queue, queues, lane, life, wire>>
  BY <1>1 DEF writing, session, input
<1>3. /\ job \in JobRecords /\ job.sent \in Nat /\ job.runtime \in Nat
      /\ runtime.channel \in Nat /\ runtime.id \in Nat /\ made.runtime \in Nat
  BY DEF InputInvariant, InputTypes, JobRecords
<1>4. Current # 0 => Current = runtime.id /\ Current \in 1..made.runtime
  BY <1>3, CurrentType DEF InputInvariant, NamesAreNew
<1>5. job' \in JobRecords /\ JobKeeps
  <2>1. CASE job' = EndJob
    BY <2>1, JobEnds
  <2>2. CASE BeginJob
    <3>1. job.at = "none" /\ Current # 0 /\ job' = [job EXCEPT !.at = "ready", !.runtime = Current]
      BY <2>2 DEF BeginJob
    <3>2. job'.at = "ready" /\ job'.runtime = Current /\ job' \in JobRecords
      BY <1>3, <1>4, <3>1 DEF JobRecords
    <3> QED
      BY <1>4, <3>1, <3>2 DEF JobKeeps, JobGoesOn
  <2>3. CASE JobTarget /\ job' # EndJob
    <3>1. job.at = "ready" /\ job' = [job EXCEPT !.at = "sending", !.typed = runtime.channel]
      BY <2>3 DEF JobTarget
    <3>2. /\ job'.at = "sending" /\ job'.typed = runtime.channel /\ job'.sent = job.sent
          /\ job'.runtime = job.runtime /\ job' \in JobRecords
      BY <1>3, <3>1 DEF JobRecords
    <3>3. job.runtime \in 1..made.runtime
      BY <3>1 DEF InputInvariant, NamesAreNew
    <3> QED
      BY <1>3, <3>1, <3>2, <3>3 DEF JobKeeps, JobGoesOn
  <2>4. CASE JobTimesOut \/ CancelJob
    BY <2>1, <2>4 DEF JobTimesOut, CancelJob
  <2> QED
    BY <2>1, <2>2, <2>3, <2>4
<1>6. InputTypes'
  BY <1>1, <1>2, <1>5, SameLog DEF InputInvariant, InputTypes
<1> QED
  BY <1>2, <1>5, <1>6, StreamsSame, AttachSame, SameLane, SteadyStep DEF Attached

\* The log is closed, or some of it is written.
LEMMA LogCloses ==
    ASSUME InputInvariant, deferred' = 0,
           deferreds' = IF deferred = 0 THEN deferreds
                        ELSE [deferreds EXCEPT ![deferred].open = FALSE]
    PROVE  LogTypes'
<1>1. LogTypes /\ deferreds \in Seq(LogRecords)
  BY DEF InputInvariant, InputTypes, LogTypes
<1>2. CASE deferred = 0
  BY <1>1, <1>2 DEF LogTypes
<1>3. CASE deferred # 0
  <2>1. PICK d : d = deferred
    OBVIOUS
  <2>2. PICK l : l = [deferreds[d] EXCEPT !.open = FALSE]
    OBVIOUS
  <2>3. d \in DOMAIN deferreds /\ d \in 1..Len(deferreds) /\ deferreds[d] \in LogRecords
    BY <1>1, <1>3, <2>1, LenProperties, ElementOfSeq DEF LogTypes
  <2>4. l \in LogRecords /\ deferreds' = [deferreds EXCEPT ![d] = l]
    BY <1>3, <2>1, <2>2, <2>3 DEF LogRecords
  <2>5. deferreds' \in Seq(LogRecords)
    BY ONLY <1>1, <2>3, <2>4, ExceptSeq
  <2> QED
    BY <2>5 DEF LogTypes
<1> QED
  BY <1>2, <1>3

LEMMA LogPersists ==
    ASSUME InputInvariant, NEW d \in DOMAIN deferreds, DeferredPersists(d)
    PROVE  LogTypes'
<1>1. deferreds \in Seq(LogRecords) /\ LogTypes
  BY DEF InputInvariant, InputTypes, LogTypes
<1>2. d \in 1..Len(deferreds) /\ deferreds[d] \in LogRecords
  BY <1>1, LenProperties, ElementOfSeq
<1>3. PICK s : s = deferreds[d].items
  OBVIOUS
<1>4. PICK n \in DOMAIN s :
         deferreds' = [deferreds EXCEPT ![d].items = SubSeq(@, n + 1, Len(@))]
  BY <1>3, Zenon DEF DeferredPersists
<1>5. s \in Seq(AnyRequests) /\ DOMAIN s = 1..Len(s) /\ Len(s) \in Nat
  BY <1>2, <1>3, LenProperties DEF LogRecords
<1>6. PICK t : t = SubSeq(s, n + 1, Len(s))
  OBVIOUS
<1>7. t \in Seq(AnyRequests)
  <2>1. \A i \in (n + 1)..Len(s) : i \in 1..Len(s)
    BY <1>5
  <2>2. \A i \in (n + 1)..Len(s) : s[i] \in AnyRequests
    BY <1>5, <2>1, ElementOfSeq
  <2>3. n + 1 \in Nat
    BY <1>5
  <2> QED
    BY <1>5, <1>6, <2>2, <2>3, SubSeqProperties
<1>8. PICK l : l = [deferreds[d] EXCEPT !.items = t]
  OBVIOUS
<1>9. l \in LogRecords
  BY <1>2, <1>7, <1>8 DEF LogRecords
<1>10. deferreds' = [deferreds EXCEPT ![d] = l]
  BY <1>3, <1>4, <1>6, <1>8
<1>11. deferreds' \in Seq(LogRecords) /\ DOMAIN deferreds' = DOMAIN deferreds
  BY <1>1, <1>2, <1>9, <1>10, ExceptSeq
<1>12. deferred' = deferred
  BY DEF DeferredPersists
<1> QED
  BY <1>1, <1>11, <1>12 DEF LogTypes

LEMMA LogSteps ==
    ASSUME InputInvariant,
           (\E d \in DOMAIN deferreds : DeferredPersists(d)) \/ ShutdownClosesLog \/ ShutdownEnds
    PROVE  InputInvariant'
<1>1. UNCHANGED <<stream, queue, queues, lane, job, runtime, made, life, wire>> /\ LogTypes'
  <2>1. ASSUME NEW d \in DOMAIN deferreds, DeferredPersists(d)
        PROVE  UNCHANGED <<stream, queue, queues, lane, job, runtime, made, life, wire>> /\ LogTypes'
    <3>1. LogTypes'
      BY <2>1, LogPersists
    <3> QED
      BY <2>1, <3>1 DEF DeferredPersists, input, writing, session
  <2>2. ASSUME ShutdownClosesLog
        PROVE  UNCHANGED <<stream, queue, queues, lane, job, runtime, made, life, wire>> /\ LogTypes'
    BY <2>2, LogCloses DEF ShutdownClosesLog, input, writing
  <2>3. ASSUME ShutdownEnds
        PROVE  UNCHANGED <<stream, queue, queues, lane, job, runtime, made, life, wire>> /\ LogTypes'
    BY <2>3, SameLog DEF ShutdownEnds, input, writing
  <2> QED
    BY <2>1, <2>2, <2>3
<1>2. InputTypes'
  BY <1>1 DEF InputInvariant, InputTypes
<1> QED
  BY <1>1, <1>2, JobSame, StreamsSame, AttachSame, SameLane, SteadyStep DEF Attached
----------------------------------------------------------------------------
(* Who leaves the lane, and who joins it.                                  *)

LEMMA GoFacts ==
    ASSUME InputInvariant, NEW at, Go(at), at \in {"idle", "closeQueue"} \cup AttachSteps \cup {"closeLog"}
    PROVE  life' \in LifeRecords /\ life'.at = at /\ life'.runtime = life.runtime
<1>1. life \in LifeRecords /\ life' = [life EXCEPT !.at = at]
  BY DEF InputInvariant, InputTypes, Go
<1> QED
  BY <1>1 DEF LifeRecords, AttachSteps

LaneWithout(a) ==
    /\ lane' \in Seq(Nat) /\ ByAge(lane') /\ In(lane, a)
    /\ \A b : In(lane', b) <=> (b # a /\ In(lane, b))
    /\ lane # <<>> /\ Head(lane) # a => lane' # <<>> /\ Head(lane') = Head(lane)

LEMMA LeavesFacts ==
    ASSUME InputInvariant, NEW a, LeavesLane(a) \/ (Holds(a) /\ lane' = Tail(lane))
    PROVE  LaneWithout(a)
<1>1. lane \in Seq(Nat) /\ ByAge(lane)
  BY LaneForm, Zenon DEF InputInvariant, InputTypes
<1>2. DOMAIN lane = 1..Len(lane) /\ Len(lane) \in Nat
  BY <1>1, LenProperties
<1>3. CASE LeavesLane(a)
  <2>1. PICK k \in DOMAIN lane : lane[k] = a /\ lane' = RemoveAt(lane, k)
    BY <1>3, Zenon DEF LeavesLane
  <2>2. k \in 1..Len(lane)
    BY <1>2
  <2>3. /\ lane' \in Seq(Nat) /\ ByAge(lane')
        /\ \A b : In(lane', b) <=> (b # a /\ In(lane, b))
        /\ k # 1 => lane' # <<>> /\ Head(lane') = Head(lane)
    BY <1>1, <2>1, <2>2, LaneRemove
  <2>4. In(lane, a)
    BY <2>1 DEF In
  <2>5. k = 1 => Head(lane) = a
    BY <2>1
  <2> QED
    BY <2>3, <2>4, <2>5 DEF LaneWithout
<1>4. CASE Holds(a) /\ lane' = Tail(lane)
  <2>1. lane # <<>> /\ Head(lane) = a
    BY <1>4 DEF Holds
  <2>2. lane' \in Seq(Nat) /\ ByAge(lane') /\ \A b : In(lane', b) <=> (b # a /\ In(lane, b))
    BY <1>1, <1>4, <2>1, LaneTail
  <2>3. 1 \in DOMAIN lane /\ lane[1] = a
    BY <1>1, <1>2, <2>1, EmptySeq
  <2> QED
    BY <2>1, <2>2, <2>3 DEF LaneWithout, In
<1> QED
  BY <1>3, <1>4

LEMMA LaneIsRight ==
    ASSUME InputTypes', ByAge(lane'),
           \A a : In(lane', a) => a = Attach \/ a \in DOMAIN queues',
           \A q \in DOMAIN queues' :
               /\ In(lane', q) <=> queues'[q].at \in {"lane", "write", "record"}
               /\ queues'[q].at \in {"write", "record"} => Holds(q)',
           In(lane', Attach) <=> life'.at \in AttachSteps,
           life'.at \in AttachSteps \ {"attachLane"} => Holds(Attach)'
    PROVE  LaneByAge'
<1>1. PICK L \in Nat : L = Len(queues') /\ DOMAIN queues' = 1..L
  BY LenProperties DEF InputTypes
<1>2. ASSUME NEW i \in DOMAIN lane' PROVE lane'[i] \in 0..Len(queues')
  <2>1. lane'[i] = 0 \/ lane'[i] \in 1..L
    BY <1>1 DEF In, Attach
  <2> QED
    BY <1>1, <2>1
<1> QED
  BY <1>2, Zenon DEF LaneByAge, ByAge, In, InLane

LEMMA LaneLoses ==
    ASSUME InputInvariant, InputTypes', NEW a, LaneWithout(a), DOMAIN queues' = DOMAIN queues,
           \A q \in DOMAIN queues : IF q = a THEN queues'[q].at \in {"idle", "done"}
                                    ELSE queues'[q].at = queues[q].at,
           IF a = Attach THEN life'.at \notin AttachSteps ELSE life'.at = life.at
    PROVE  LaneByAge'
<1>1. LaneByAge /\ InputTypes
  BY DEF InputInvariant
<1>2. /\ \A q \in DOMAIN queues :
            /\ In(lane, q) <=> queues[q].at \in {"lane", "write", "record"}
            /\ queues[q].at \in {"write", "record"} => Holds(q)
      /\ In(lane, Attach) <=> life.at \in AttachSteps
      /\ life.at \in AttachSteps \ {"attachLane"} => Holds(Attach)
      /\ \A b : In(lane, b) => b = Attach \/ b \in DOMAIN queues
  BY <1>1, LaneForm, LaneMembers, Zenon
<1>3. \A b : Holds(b) /\ b # a => Holds(b)'
  BY DEF Holds, LaneWithout
<1>4. /\ ByAge(lane') /\ \A b : In(lane', b) <=> (b # a /\ In(lane, b))
  BY DEF LaneWithout
<1>5. \A b : In(lane', b) => b = Attach \/ b \in DOMAIN queues'
  BY <1>2, <1>4
<1>6. ASSUME NEW q \in DOMAIN queues'
      PROVE  /\ In(lane', q) <=> queues'[q].at \in {"lane", "write", "record"}
             /\ queues'[q].at \in {"write", "record"} => Holds(q)'
  <2>1. CASE q = a
    BY <1>4, <2>1
  <2>2. CASE q # a
    BY <1>2, <1>3, <1>4, <2>2
  <2> QED
    BY <2>1, <2>2
<1>7. /\ In(lane', Attach) <=> life'.at \in AttachSteps
      /\ life'.at \in AttachSteps \ {"attachLane"} => Holds(Attach)'
  <2>1. CASE a = Attach
    BY <1>4, <2>1
  <2>2. CASE a # Attach
    BY <1>2, <1>3, <1>4, <2>2
  <2> QED
    BY <2>1, <2>2
<1> QED
  BY <1>4, <1>5, <1>6, <1>7, LaneIsRight

LEMMA LaneGains ==
    ASSUME InputInvariant, InputTypes', NEW a \in Nat, lane' = Append(lane, a), ~In(lane, a),
           a = Attach \/ \A i \in DOMAIN lane : lane[i] < a,
           DOMAIN queues' = DOMAIN queues,
           \A q \in DOMAIN queues : IF q = a THEN queues'[q].at = "lane"
                                    ELSE queues'[q].at = queues[q].at,
           IF a = Attach THEN life'.at = "attachLane" ELSE a \in DOMAIN queues /\ life'.at = life.at
    PROVE  LaneByAge'
<1>1. LaneByAge /\ InputTypes
  BY DEF InputInvariant
<1>2. /\ \A q \in DOMAIN queues :
            /\ In(lane, q) <=> queues[q].at \in {"lane", "write", "record"}
            /\ queues[q].at \in {"write", "record"} => Holds(q)
      /\ In(lane, Attach) <=> life.at \in AttachSteps
      /\ life.at \in AttachSteps \ {"attachLane"} => Holds(Attach)
      /\ \A b : In(lane, b) => b = Attach \/ b \in DOMAIN queues
  BY <1>1, LaneForm, LaneMembers, Zenon
<1>3. lane \in Seq(Nat) /\ ByAge(lane)
  BY <1>1, LaneForm, Zenon DEF InputTypes
<1>4. /\ ByAge(lane') /\ \A b : In(lane', b) <=> (b = a \/ In(lane, b))
      /\ lane # <<>> => lane' # <<>> /\ Head(lane') = Head(lane)
  BY <1>3, LaneAppend
<1>5. \A b : Holds(b) => Holds(b)'
  BY <1>4 DEF Holds
<1>6. \A b : In(lane', b) => b = Attach \/ b \in DOMAIN queues'
  BY <1>2, <1>4
<1>7. ASSUME NEW q \in DOMAIN queues'
      PROVE  /\ In(lane', q) <=> queues'[q].at \in {"lane", "write", "record"}
             /\ queues'[q].at \in {"write", "record"} => Holds(q)'
  <2>1. CASE q = a
    BY <1>4, <2>1
  <2>2. CASE q # a
    BY <1>2, <1>4, <1>5, <2>2
  <2> QED
    BY <2>1, <2>2
<1>8. /\ In(lane', Attach) <=> life'.at \in AttachSteps
      /\ life'.at \in AttachSteps \ {"attachLane"} => Holds(Attach)'
  <2>1. CASE a = Attach
    BY <1>4, <2>1 DEF AttachSteps
  <2>2. CASE a # Attach
    BY <1>2, <1>4, <1>5, <2>2
  <2> QED
    BY <2>1, <2>2
<1> QED
  BY <1>4, <1>6, <1>7, <1>8, LaneIsRight
----------------------------------------------------------------------------
(* The steps of a close and of an attach that leave the queues alone.      *)

LEMMA StopInputFacts ==
    ASSUME InputInvariant, StopInput
    PROVE  JobKeeps /\ StreamsKeep /\ job' \in JobRecords /\ job'.at # "sending"
           /\ stream' \in [Windows -> StreamRecords]
  BY JobEnds, StreamsEnd DEF StopInput

LEMMA StopInputSteps ==
    ASSUME InputInvariant, CloseBegins \/ AttachStopsInput
    PROVE  InputInvariant'
<1>1. /\ UNCHANGED <<writing, lane, logging, runtime, made, exit, wire, budget>>
      /\ StopInput
  BY Zenon DEF CloseBegins, AttachStopsInput
<1>2. UNCHANGED <<queue, queues, lane, runtime, made, wire>>
  BY <1>1 DEF writing
<1>3. /\ JobKeeps /\ StreamsKeep /\ job' \in JobRecords /\ job'.at # "sending"
      /\ stream' \in [Windows -> StreamRecords]
  BY <1>1, StopInputFacts
<1>4. \/ life.at = "idle" /\ life'.at = "closeQueue" /\ life' \in LifeRecords
      \/ life.at = "attachStop" /\ life'.at = "attachQueue" /\ life' \in LifeRecords
  <2>1. CASE CloseBegins
    BY <2>1, GoFacts DEF CloseBegins
  <2>2. CASE AttachStopsInput
    BY <2>2, GoFacts DEF AttachStopsInput, AttachSteps
  <2> QED
    BY <2>1, <2>2
<1>5. InputTypes'
  BY <1>1, <1>2, <1>3, <1>4, SameLog DEF InputInvariant, InputTypes
<1>6. LaneByAge'
  <2>1. life.at \in AttachSteps \ {"attachLane"} => Holds(Attach)
    BY Zenon DEF InputInvariant, LaneByAge
  <2>2. /\ life.at \in AttachSteps <=> life'.at \in AttachSteps
        /\ life'.at \in AttachSteps \ {"attachLane"} => Holds(Attach)
    BY <1>4, <2>1 DEF AttachSteps
  <2> QED
    BY <1>2, <2>2, QuietLane
<1>7. AttachKeeps /\ (Attached => Attached')
  BY <1>3, <1>4 DEF AttachKeeps, Attached
<1> QED
  BY <1>2, <1>3, <1>5, <1>6, <1>7, SteadyStep

LEMMA CloseStopsLogStep ==
    ASSUME InputInvariant, CloseStopsLog
    PROVE  InputInvariant'
<1>1. UNCHANGED <<stream, queue, queues, lane, job, runtime, made, wire>>
  BY DEF CloseStopsLog, input, writing
<1>2. life.at = "closeLog" /\ life' = [life EXCEPT !.at = "closeDrain", !.log = deferred]
  BY DEF CloseStopsLog
<1>3. LogTypes' /\ deferred \in Nat /\ life \in LifeRecords
  BY LogCloses DEF CloseStopsLog, InputInvariant, InputTypes, LogTypes
<1>4. life'.at = "closeDrain" /\ life' \in LifeRecords
  BY <1>2, <1>3 DEF LifeRecords
<1>5. InputTypes'
  BY <1>1, <1>3, <1>4 DEF InputInvariant, InputTypes
<1>6. LaneByAge' /\ AttachKeeps /\ (Attached => Attached')
  BY <1>1, <1>2, <1>4, QuietLane DEF AttachSteps, AttachKeeps, Attached
<1> QED
  BY <1>1, <1>5, <1>6, JobSame, StreamsSame, SteadyStep

LEMMA CloseRuntimeStep ==
    ASSUME InputInvariant, CloseRuntime
    PROVE  InputInvariant'
<1>1. UNCHANGED <<stream, queue, queues, lane, job, made, wire, logging>> /\ runtime' = NoRuntime
  BY DEF CloseRuntime, input, writing
<1>2. life.at = "closeDrain" /\ life' = [life EXCEPT !.at = "idle", !.log = 0]
  BY DEF CloseRuntime
<1>3. /\ made \in [runtime : Nat, channel : Nat, stream : Nat] /\ life \in LifeRecords
      /\ stream \in [Windows -> StreamRecords] /\ job \in JobRecords
  BY DEF InputInvariant, InputTypes
<1>4. life'.at = "idle" /\ life' \in LifeRecords
  BY <1>2, <1>3 DEF LifeRecords
<1>5. /\ runtime' \in [id : Nat, channel : Nat, opened : Nat, closed : BOOLEAN]
      /\ runtime'.id = 0 /\ runtime'.opened = 0
  BY <1>1 DEF NoRuntime
<1>6. InputTypes'
  BY <1>1, <1>4, <1>5, SameLog DEF InputInvariant, InputTypes
<1>7. NumbersGrow
  BY <1>1, <1>3 DEF NumbersGrow, StreamRecords, JobRecords
<1>8. NamesAreNew'
  BY <1>1, <1>3, <1>5 DEF InputInvariant, NamesAreNew
<1>9. job.at = "sending" => job.runtime # 0
  BY <1>3 DEF InputInvariant, NamesAreNew
<1>10. RuntimeGoesOn /\ ChannelIsOwn' /\ JobGoesOn /\ TargetIsCurrent'
  BY <1>1, <1>5, <1>9 DEF RuntimeGoesOn, ChannelIsOwn, JobGoesOn, TargetIsCurrent
<1>11. LaneByAge' /\ (Attached => Attached') /\ life'.at # "attachOpen"
  BY <1>1, <1>2, <1>4, QuietLane DEF AttachSteps, Attached
<1> QED
  BY <1>1, <1>6, <1>7, <1>8, <1>10, <1>11, QuietStep

LEMMA AttachBeginsStep ==
    ASSUME InputInvariant, AttachBegins
    PROVE  InputInvariant'
<1>1. UNCHANGED <<stream, queue, queues, job, runtime, made, wire, logging>>
      /\ lane' = Append(lane, Attach) /\ life.at = "idle" /\ Go("attachLane")
  BY DEF AttachBegins, input, writing
<1>2. life'.at = "attachLane" /\ life' \in LifeRecords
  BY <1>1, GoFacts DEF AttachSteps
<1>3. lane' \in Seq(Nat)
  BY <1>1, AppendProperties DEF InputInvariant, InputTypes, Attach
<1>4. InputTypes'
  BY <1>1, <1>2, <1>3, SameLog DEF InputInvariant, InputTypes
<1>5. ~In(lane, Attach)
  <2>1. In(lane, Attach) <=> life.at \in AttachSteps
    BY LaneForm, Zenon DEF InputInvariant
  <2> QED
    BY <1>1, <2>1 DEF AttachSteps
<1>6. LaneByAge'
  <2>1. 0 \notin DOMAIN queues
    BY LenProperties DEF InputInvariant, InputTypes
  <2>2. DOMAIN queues' = DOMAIN queues
        /\ \A q \in DOMAIN queues : IF q = Attach THEN queues'[q].at = "lane"
                                    ELSE queues'[q].at = queues[q].at
    BY <1>1, <2>1 DEF Attach
  <2>3. Attach \in Nat
    BY DEF Attach
  <2> QED
    BY <1>1, <1>2, <1>4, <1>5, <2>2, <2>3, LaneGains
<1>7. AttachKeeps /\ (Attached => Attached')
  BY <1>1, <1>2 DEF AttachKeeps, Attached
<1> QED
  BY <1>1, <1>4, <1>6, <1>7, JobSame, StreamsSame, SteadyStep

\* An attach gives up: it leaves the lane.
LEMMA AttachGivesUp ==
    ASSUME InputInvariant, UNCHANGED <<stream, queue, queues, job, runtime, made, wire, logging>>,
           life.at \in {"attachLane", "attachOpen"}, Go("idle"), LaneWithout(Attach)
    PROVE  InputInvariant'
<1>1. life'.at = "idle" /\ life' \in LifeRecords
  BY GoFacts
<1>2. InputTypes'
  BY <1>1, SameLog DEF InputInvariant, InputTypes, LaneWithout
<1>3. LaneByAge'
  <2>1. 0 \notin DOMAIN queues
    BY LenProperties DEF InputInvariant, InputTypes
  <2>2. DOMAIN queues' = DOMAIN queues
        /\ \A q \in DOMAIN queues : IF q = Attach THEN queues'[q].at \in {"idle", "done"}
                                    ELSE queues'[q].at = queues[q].at
    BY <2>1 DEF Attach
  <2>3. life'.at \notin AttachSteps
    BY <1>1 DEF AttachSteps
  <2> QED
    BY <1>2, <2>2, <2>3, LaneLoses
<1>4. AttachKeeps /\ (Attached => Attached')
  BY <1>1 DEF AttachKeeps, Attached
<1> QED
  BY <1>2, <1>3, <1>4, JobSame, StreamsSame, SteadyStep

LEMMA AttachTakesLaneStep ==
    ASSUME InputInvariant, AttachTakesLane
    PROVE  InputInvariant'
<1>1. UNCHANGED <<stream, queue, queues, job, runtime, made, wire, logging>>
      /\ life.at = "attachLane"
  BY DEF AttachTakesLane, input, writing
<1>2. CASE Holds(Attach) /\ Current # 0
  <2>1. life' = [life EXCEPT !.at = "attachOpen", !.runtime = runtime.id] /\ lane' = lane
    BY <1>2 DEF AttachTakesLane
  <2>2. life \in LifeRecords /\ runtime.id \in Nat /\ runtime.id # 0
    BY <1>2, CurrentType DEF InputInvariant, InputTypes
  <2>3. life'.at = "attachOpen" /\ life'.runtime # 0 /\ life' \in LifeRecords
    BY <2>1, <2>2 DEF LifeRecords, AttachSteps
  <2>4. InputTypes'
    BY <1>1, <2>1, <2>3, SameLog DEF InputInvariant, InputTypes
  <2>5. LaneByAge'
    BY <1>1, <1>2, <2>1, <2>3, QuietLane DEF AttachSteps
  <2>6. AttachKeeps /\ (Attached => Attached')
    BY <1>1, <2>3 DEF AttachKeeps, Attached
  <2> QED
    BY <1>1, <2>4, <2>5, <2>6, JobSame, StreamsSame, SteadyStep
<1>3. CASE ~(Holds(Attach) /\ Current # 0)
  <2>1. Go("idle") /\ LeavesLane(Attach)
    BY <1>3 DEF AttachTakesLane
  <2> QED
    BY <1>1, <2>1, LeavesFacts, AttachGivesUp
<1> QED
  BY <1>2, <1>3

LEMMA AttachInstallsStep ==
    ASSUME InputInvariant, AttachInstalls
    PROVE  InputInvariant'
<1>1. UNCHANGED <<stream, queue, queues, job, wire, logging>> /\ life.at = "attachOpen"
  BY DEF AttachInstalls, input, writing
<1>2. CASE /\ Current = life.runtime
           /\ made' = [made EXCEPT !.channel = @ + 1]
           /\ runtime' = [runtime EXCEPT !.channel = made.channel + 1, !.opened = life.runtime]
           /\ Go("attachStop") /\ UNCHANGED lane
  <2>1. /\ made \in [runtime : Nat, channel : Nat, stream : Nat] /\ life.runtime \in Nat
        /\ stream \in [Windows -> StreamRecords] /\ job \in JobRecords
        /\ runtime \in [id : Nat, channel : Nat, opened : Nat, closed : BOOLEAN]
    BY DEF InputInvariant, InputTypes, LifeRecords
  <2>2. life.runtime = runtime.id
    BY <1>1, <1>2, SameHome, CurrentType DEF InputInvariant
  <2>3. life'.at = "attachStop" /\ life' \in LifeRecords
    BY <1>2, GoFacts DEF AttachSteps
  <2>4. made.channel + 1 \in Nat
    BY <2>1
  <2>5. /\ made'.runtime = made.runtime /\ made'.stream = made.stream
        /\ made' \in [runtime : Nat, channel : Nat, stream : Nat]
    BY <1>2, <2>1, <2>4
  <2>6. runtime'.id = runtime.id /\ runtime'.opened = runtime.id
    BY <1>2, <2>1, <2>2
  <2>7. runtime' \in [id : Nat, channel : Nat, opened : Nat, closed : BOOLEAN]
    BY <1>2, <2>1, <2>4
  <2>8. InputTypes'
    BY <1>1, <1>2, <2>3, <2>5, <2>7, SameLog DEF InputInvariant, InputTypes
  <2>9. NumbersGrow
    BY <1>1, <2>1, <2>5 DEF NumbersGrow, StreamRecords, JobRecords
  <2>10. NamesAreNew'
    BY <1>1, <2>5, <2>6 DEF InputInvariant, NamesAreNew
  <2>11. LaneByAge'
    <3>1. life.at \in AttachSteps \ {"attachLane"} => Holds(Attach)
      BY Zenon DEF InputInvariant, LaneByAge
    <3>2. /\ life.at \in AttachSteps <=> life'.at \in AttachSteps
          /\ Holds(Attach)
      BY <1>1, <2>3, <3>1 DEF AttachSteps
    <3> QED
      BY <1>1, <1>2, <3>2, QuietLane
  <2>12. /\ ChannelIsOwn' /\ JobGoesOn /\ TargetIsCurrent' /\ Attached' /\ life'.at # "attachOpen"
    BY <1>1, <2>3, <2>6 DEF ChannelIsOwn, JobGoesOn, TargetIsCurrent, Attached
  <2> QED
    BY <1>1, <2>8, <2>9, <2>10, <2>11, <2>12, QuietStep
<1>3. CASE Go("idle") /\ lane' = Tail(lane) /\ UNCHANGED <<made, runtime>>
  <2>1. Holds(Attach)
    <3>1. life.at \in AttachSteps \ {"attachLane"} => Holds(Attach)
      BY Zenon DEF InputInvariant, LaneByAge
    <3> QED
      BY <1>1, <3>1 DEF AttachSteps
  <2> QED
    BY <1>1, <1>3, <2>1, LeavesFacts, AttachGivesUp
<1> QED
  BY <1>2, <1>3, Zenon DEF AttachInstalls
----------------------------------------------------------------------------
(* Requests join the newest queue.                                         *)

LEMMA Reassociate ==
    ASSUME NEW s \in Seq(AnyRequests), NEW t \in Seq(AnyRequests), NEW u \in Seq(AnyRequests)
    PROVE  (s \o t) \o u = s \o (t \o u)
<1>1. (s \o t) \o u = s \o (t \o u)
  BY ConcatAssociative
<1> QED
  BY <1>1

LEMMA EnqueueJoins ==
    ASSUME InputTypes, NewestTakesInput, NEW new \in Seq(AnyRequests), Enqueue(new), wire' = wire,
           NEW t \in Nat, t = queue'
    PROVE  Joined(t, new)
<1>1. t = queue'
  OBVIOUS
<1>2. /\ DOMAIN queues' = DOMAIN queues \cup {t}
      /\ \A q \in DOMAIN queues : q # t => queues'[q] = queues[q] /\ q < t
  BY <1>1, EnqueueFacts
<1>3. ASSUME NEW q \in DOMAIN queues, q # t PROVE Due(q)' = Due(q) /\ q < t
  BY <1>2, <1>3 DEF Due
<1>4. Due(t)' = (IF t \in DOMAIN queues THEN Due(t) ELSE <<>>) \o new
  <2>1. CASE t \in DOMAIN queues
    <3>1. PICK w : w = queues[t]
      OBVIOUS
    <3>2. PICK v : v = queues'[t]
      OBVIOUS
    <3>3. w \in QueueRecords
      BY <2>1, <3>1, LenProperties, ElementOfSeq DEF InputTypes
    <3>4. /\ ~w.stopped /\ v.items = w.items \o new /\ v.back = w.back
          /\ v.batch = w.batch /\ v.at = w.at /\ v.stopped = w.stopped
      BY <1>1, <2>1, <3>1, <3>2, EnqueueFacts
    <3>5. w.items \in Seq(AnyRequests) /\ w.back \in Seq(AnyRequests)
          /\ Taken(w) \in Seq(AnyRequests)
      BY <3>3, DueType DEF QueueRecords
    <3>6. Taken(v) = Taken(w) /\ Kept(w) = w.back \o w.items /\ Kept(v) = w.back \o (w.items \o new)
      BY <3>3, <3>4 DEF Taken, Kept, QueueRecords
    <3>7. Kept(w) \in Seq(AnyRequests) /\ Kept(v) = Kept(w) \o new
      <4>1. w.back \o w.items \in Seq(AnyRequests)
        BY <3>5, ConcatFacts
      <4>2. (w.back \o w.items) \o new = w.back \o (w.items \o new)
        BY ONLY <3>5, new \in Seq(AnyRequests), Reassociate, ZenonT(40)
      <4> QED
        BY <3>6, <4>1, <4>2
    <3>8. Taken(v) \o Kept(v) = (Taken(w) \o Kept(w)) \o new
      <4>1. (Taken(w) \o Kept(w)) \o new = Taken(w) \o (Kept(w) \o new)
        BY ONLY <3>5, <3>7, new \in Seq(AnyRequests), Reassociate, SMTT(40)
      <4> QED
        BY <3>6, <3>7, <4>1
    <3>9. Due(t)' = Taken(v) \o Kept(v) /\ Due(t) = Taken(w) \o Kept(w)
      BY <3>1, <3>2 DEF Due
    <3> QED
      BY <2>1, <3>8, <3>9
  <2>2. CASE t \notin DOMAIN queues
    <3>1. PICK v : v = queues'[t]
      OBVIOUS
    <3>2. v.items = <<>> \o new /\ v.back = <<>> /\ v.at = "idle" /\ ~v.stopped
      BY <1>1, <2>2, <3>1, EnqueueFacts
    <3>3. Taken(v) = <<>> /\ Kept(v) = <<>> \o (<<>> \o new)
      BY <3>2 DEF Taken, Kept
    <3>4. Taken(v) \o Kept(v) = <<>> \o new
      BY <3>3, ConcatEmptySeq
    <3>5. Due(t)' = Taken(v) \o Kept(v)
      BY <3>1 DEF Due
    <3> QED
      BY <2>2, <3>4, <3>5
  <2> QED
    BY <2>1, <2>2
<1> QED
  BY <1>1, <1>2, <1>3, <1>4 DEF Joined

\* The fields of a queue that Enqueue leaves, and those of a new one.
LEMMA EnqueueLeaves ==
    ASSUME InputTypes, NewestTakesInput, NEW new \in Seq(AnyRequests), Enqueue(new),
           NEW q \in DOMAIN queues'
    PROVE  \/ /\ q \in DOMAIN queues /\ queues'[q].at = queues[q].at
              /\ queues'[q].batch = queues[q].batch /\ queues'[q].channel = queues[q].channel
              /\ queues'[q].carried = queues[q].carried
              /\ queues'[q].stopped = queues[q].stopped
              /\ \/ q # queue' /\ queues'[q] = queues[q]
                 \/ q = queue' /\ queue = q
           \/ q \notin DOMAIN queues /\ q = queue' /\ queues'[q].at = "idle"
              /\ ~queues'[q].stopped /\ ~queues'[q].carried /\ queue = 0
<1>1. CASE q = queue'
  BY <1>1, EnqueueFacts
<1>2. CASE q # queue'
  <2>1. q \in DOMAIN queues /\ queues'[q] = queues[q]
    BY <1>2, EnqueueFacts
  <2> QED
    BY <1>2, <2>1
<1> QED
  BY <1>1, <1>2

LEMMA EnqueueKeepsLane ==
    ASSUME InputInvariant, InputTypes', NEW new \in Seq(AnyRequests), Enqueue(new),
           UNCHANGED <<lane, life>>
    PROVE  LaneByAge' /\ NewestTakesInput' /\ BatchesFit'
<1>1. LaneByAge /\ InputTypes /\ NewestTakesInput /\ BatchesFit
  BY DEF InputInvariant
<1>2. /\ \A q \in DOMAIN queues :
            /\ In(lane, q) <=> queues[q].at \in {"lane", "write", "record"}
            /\ queues[q].at \in {"write", "record"} => Holds(q)
      /\ In(lane, Attach) <=> life.at \in AttachSteps
      /\ life.at \in AttachSteps \ {"attachLane"} => Holds(Attach)
      /\ \A b : In(lane, b) => b = Attach \/ b \in DOMAIN queues
      /\ ByAge(lane)
  BY <1>1, LaneForm, LaneMembers, Zenon
<1>3. \A b : Holds(b)' <=> Holds(b)
  BY DEF Holds
<1>4. DOMAIN queues' = DOMAIN queues \cup {queue'}
  BY <1>1, EnqueueFacts
<1>5. 0 \notin DOMAIN queues'
  BY LenProperties DEF InputTypes
<1>6. ASSUME NEW q \in DOMAIN queues'
      PROVE  /\ In(lane', q) <=> queues'[q].at \in {"lane", "write", "record"}
             /\ queues'[q].at \in {"write", "record"} => Holds(q)'
  <2>1. CASE q \in DOMAIN queues
    <3>1. queues'[q].at = queues[q].at
      BY <1>1, <2>1, EnqueueLeaves
    <3> QED
      BY <1>2, <1>3, <2>1, <3>1
  <2>2. CASE q \notin DOMAIN queues
    <3>1. queues'[q].at = "idle"
      BY <1>1, <2>2, EnqueueLeaves
    <3> QED
      BY <1>2, <1>5, <2>2, <3>1 DEF Attach
  <2> QED
    BY <2>1, <2>2
<1>7. LaneByAge'
  BY <1>2, <1>3, <1>4, <1>6, LaneIsRight
<1>8. NewestTakesInput'
  <2>1. queue' = Len(queues')
    BY <1>1, EnqueueFacts
  <2>2. ASSUME NEW q \in DOMAIN queues' PROVE queues'[q].stopped <=> q # queue'
    <3>1. CASE q \in DOMAIN queues
      <4>1. queues'[q].stopped = queues[q].stopped
        BY <1>1, <3>1, EnqueueLeaves
      <4>2. queues[q].stopped <=> q # queue
        BY <1>1, <3>1 DEF NewestTakesInput
      <4>3. q # queue' \/ queue = q
        BY <1>1, <3>1, EnqueueLeaves
      <4>4. queue # 0 => queue' = queue
        BY DEF Enqueue, Target
      <4>5. q # 0
        BY <1>5
      <4> QED
        BY <4>1, <4>2, <4>3, <4>4, <4>5
    <3>2. CASE q \notin DOMAIN queues
      BY <1>1, <3>2, EnqueueLeaves
    <3> QED
      BY <3>1, <3>2
  <2> QED
    BY <2>1, <2>2 DEF NewestTakesInput
<1>9. BatchesFit'
  <2>1. ASSUME NEW q \in DOMAIN queues'
        PROVE  /\ queues'[q].at \in {"lane", "write", "record"} =>
                     queues'[q].batch # <<>> /\ Mergeable(queues'[q].batch, Len(queues'[q].batch))
               /\ queues'[q].at \in {"idle", "done"} => ~queues'[q].carried
    <3>1. CASE q \in DOMAIN queues
      <4>1. queues'[q].at = queues[q].at /\ queues'[q].batch = queues[q].batch
            /\ queues'[q].carried = queues[q].carried
        BY <1>1, <3>1, EnqueueLeaves
      <4> QED
        BY <1>1, <3>1, <4>1 DEF BatchesFit
    <3>2. CASE q \notin DOMAIN queues
      BY <1>1, <3>2, EnqueueLeaves
    <3> QED
      BY <3>1, <3>2
  <2> QED
    BY <2>1 DEF BatchesFit, Mergeable, IsJob
<1> QED
  BY <1>7, <1>8, <1>9
----------------------------------------------------------------------------
(* What is at home stays there.                                            *)

EveryAtHome(s) == \A i \in DOMAIN s : AtHome(s[i])

LEMMA QueueStaysHome ==
    ASSUME InputInvariant, InputTypes', RuntimeGoesOn, JobGoesOn, ~Attached,
           NEW q \in DOMAIN queues, NEW s,
           \/ s = Kept(queues[q])
           \/ s = queues[q].batch /\ queues[q].at = "lane" /\ ~queues[q].carried
    PROVE  EveryAtHome(s)'
<1>1. queues \in Seq(QueueRecords) /\ InputTypes /\ NumbersAreGiven /\ InputAtHome
  BY DEF InputInvariant, InputTypes
<1>2. queues[q] \in QueueRecords
  BY <1>1, DuesType
<1>3. Taken(queues[q]) \in Seq(AnyRequests) /\ Kept(queues[q]) \in Seq(AnyRequests)
      /\ queues[q].batch \in Seq(AnyRequests)
  BY <1>2, DueType DEF QueueRecords
<1>4. ASSUME NEW i \in DOMAIN s, NEW r, r = s[i] PROVE AtHome(r)'
  <2>1. AtHome(r)
    BY <1>1, <1>4 DEF InputAtHome
  <2>2. PICK k : k \in DOMAIN Due(q) /\ Due(q)[k] = r
    <3>1. CASE s = Kept(queues[q])
      <4>1. Len(Taken(queues[q])) + i \in DOMAIN Due(q)
            /\ Due(q)[Len(Taken(queues[q])) + i] = r
        BY <1>3, <1>4, <3>1, ConcatRight DEF Due
      <4> QED
        BY <4>1
    <3>2. CASE s = queues[q].batch /\ queues[q].at = "lane"
      <4>1. Taken(queues[q]) = s
        BY <3>2 DEF Taken
      <4>2. i \in DOMAIN Due(q) /\ Due(q)[i] = r
        BY <1>3, <1>4, <4>1, ConcatLeft DEF Due
      <4> QED
        BY <4>2
    <3> QED
      BY <3>1, <3>2
  <2>3. Numbered(r)
    BY <1>1, <2>2 DEF NumbersAreGiven
  <2>4. r \in AnyRequests
    BY <1>3, <1>4, LenProperties, ElementOfSeq
  <2> QED
    BY <1>1, <2>1, <2>3, <2>4, AtHomeStays
<1>5. ASSUME NEW i \in DOMAIN s PROVE AtHome(s[i])'
  <2>1. PICK r : r = s[i]
    OBVIOUS
  <2>2. AtHome(r)'
    BY <1>4, <2>1
  <2> QED
    BY <2>1, <2>2 DEF AtHome
<1> QED
  BY <1>5 DEF EveryAtHome

LEMMA PartAtHome ==
    ASSUME NEW s, NEW t, PartOf(t, s), EveryAtHome(s)'
    PROVE  EveryAtHome(t)'
<1>1. PICK a \in Int : \A j \in DOMAIN t : a + j \in DOMAIN s /\ t[j] = s[a + j]
  BY Zenon DEF PartOf
<1> QED
  BY <1>1 DEF EveryAtHome, AtHome

LEMMA ConcatAtHome ==
    ASSUME NEW s \in Seq(AnyRequests), NEW t \in Seq(AnyRequests),
           EveryAtHome(s)', EveryAtHome(t)'
    PROVE  EveryAtHome(s \o t)'
<1>1. ASSUME NEW i \in DOMAIN (s \o t) PROVE AtHome((s \o t)[i])'
  <2>1. \/ i \in DOMAIN s /\ (s \o t)[i] = s[i]
        \/ i - Len(s) \in DOMAIN t /\ (s \o t)[i] = t[i - Len(s)]
    BY ConcatSplit
  <2>2. CASE i \in DOMAIN s /\ (s \o t)[i] = s[i]
    BY <2>2 DEF EveryAtHome, AtHome
  <2>3. CASE i - Len(s) \in DOMAIN t /\ (s \o t)[i] = t[i - Len(s)]
    <3>1. PICK k : k = i - Len(s)
      OBVIOUS
    <3>2. k \in DOMAIN t /\ (s \o t)[i] = t[k]
      BY <2>3, <3>1
    <3> QED
      BY <3>2 DEF EveryAtHome, AtHome
  <2> QED
    BY <2>1, <2>2, <2>3
<1> QED
  BY <1>1 DEF EveryAtHome

LEMMA HomeIsRight ==
    ASSUME ChannelIsOwn', NoStaleKeys', TargetIsCurrent',
           life'.at = "attachOpen" => life'.runtime # 0,
           ~Attached' => \A q \in DOMAIN queues' :
               \A s : \/ s = Kept(queues[q])'
                      \/ s = queues'[q].batch /\ queues'[q].at = "lane" /\ ~queues'[q].carried
                      => EveryAtHome(s)'
    PROVE  InputAtHome'
<1>1. ASSUME ~Attached', NEW q \in DOMAIN queues', NEW i \in DOMAIN (Kept(queues[q])')
      PROVE  AtHome(Kept(queues[q])[i])'
  <2>1. PICK s : s = Kept(queues[q])'
    OBVIOUS
  <2>2. EveryAtHome(s)'
    BY <1>1, <2>1
  <2> QED
    BY <2>1, <2>2 DEF EveryAtHome, AtHome
<1>2. ASSUME ~Attached', NEW q \in DOMAIN queues', NEW i \in DOMAIN queues'[q].batch,
             queues'[q].at = "lane", ~queues'[q].carried
      PROVE  AtHome(queues[q].batch[i])'
  <2>1. PICK s : s = queues'[q].batch
    OBVIOUS
  <2>2. EveryAtHome(s)'
    BY <1>2, <2>1
  <2> QED
    BY <2>1, <2>2 DEF EveryAtHome, AtHome
<1> QED
  BY <1>1, <1>2 DEF InputAtHome, TargetIsCurrent

LEMMA EnqueueKeepsHome ==
    ASSUME InputInvariant, InputTypes', NEW new \in Seq(AnyRequests), Enqueue(new),
           RuntimeGoesOn, JobGoesOn, life' = life, ChannelIsOwn', TargetIsCurrent',
           ~Attached => EveryAtHome(new)'
    PROVE  InputAtHome'
<1>1. InputTypes /\ NewestTakesInput /\ InputAtHome /\ queues \in Seq(QueueRecords)
  BY DEF InputInvariant, InputTypes
<1>2. NoStaleKeys'
  <2>1. ASSUME NEW q \in DOMAIN queues', queues'[q].at \in {"write", "record"}, ~queues'[q].carried,
               NEW i \in DOMAIN queues'[q].batch
        PROVE  queues'[q].batch[i].typed = queues'[q].channel
    <3>1. /\ q \in DOMAIN queues /\ queues'[q].at = queues[q].at
          /\ queues'[q].batch = queues[q].batch /\ queues'[q].channel = queues[q].channel
          /\ queues'[q].carried = queues[q].carried
      BY <1>1, <2>1, EnqueueLeaves
    <3> QED
      BY <1>1, <2>1, <3>1 DEF InputAtHome, NoStaleKeys
  <2> QED
    BY <2>1 DEF NoStaleKeys
<1>3. ASSUME ~Attached', NEW q \in DOMAIN queues', NEW s,
             \/ s = Kept(queues[q])'
             \/ s = queues'[q].batch /\ queues'[q].at = "lane" /\ ~queues'[q].carried
      PROVE  EveryAtHome(s)'
  <2>1. ~Attached
    BY <1>3 DEF Attached
  <2>2. CASE s = queues'[q].batch /\ queues'[q].at = "lane" /\ ~queues'[q].carried
    <3>1. /\ q \in DOMAIN queues /\ queues'[q].at = queues[q].at
          /\ queues'[q].batch = queues[q].batch /\ queues'[q].carried = queues[q].carried
      BY <1>1, <2>2, EnqueueLeaves
    <3> QED
      BY <2>1, <2>2, <3>1, QueueStaysHome
  <2>3. CASE s = Kept(queues[q])'
    <3>1. CASE q # queue'
      <4>1. q \in DOMAIN queues /\ queues'[q] = queues[q]
        BY <1>1, <3>1, EnqueueFacts
      <4>2. s = Kept(queues[q])
        BY <2>3, <4>1
      <4> QED
        BY <2>1, <4>1, <4>2, QueueStaysHome
    <3>2. CASE q = queue' /\ q \in DOMAIN queues
      <4>1. PICK w : w = queues[q]
        OBVIOUS
      <4>2. PICK v : v = queues'[q]
        OBVIOUS
      <4>3. /\ ~w.stopped /\ v.items = w.items \o new /\ v.back = w.back /\ v.stopped = w.stopped
        BY <1>1, <3>2, <4>1, <4>2, EnqueueFacts
      <4>4. w \in QueueRecords
        BY <1>1, <3>2, <4>1, DuesType
      <4>5. w.items \in Seq(AnyRequests) /\ w.back \in Seq(AnyRequests)
        BY <4>4 DEF QueueRecords
      <4>6. Kept(w) = w.back \o w.items /\ Kept(v) = w.back \o (w.items \o new)
        BY <4>3, <4>4 DEF Kept, QueueRecords
      <4>7. Kept(w) \in Seq(AnyRequests) /\ Kept(v) = Kept(w) \o new
        <5>1. w.back \o w.items \in Seq(AnyRequests)
          BY <4>5, ConcatFacts
        <5>2. (w.back \o w.items) \o new = w.back \o (w.items \o new)
          BY <4>5, Reassociate
        <5> QED
          BY <4>6, <5>1, <5>2
      <4>8. PICK k : k = Kept(w)
        OBVIOUS
      <4>9. EveryAtHome(k)'
        BY <2>1, <3>2, <4>1, <4>8, QueueStaysHome
      <4>10. EveryAtHome(k \o new)'
        BY <2>1, <4>7, <4>8, <4>9, ConcatAtHome
      <4>11. s = k \o new
        BY <2>3, <4>2, <4>7, <4>8
      <4> QED
        BY <4>10, <4>11
    <3>3. CASE q = queue' /\ q \notin DOMAIN queues
      <4>1. PICK v : v = queues'[q]
        OBVIOUS
      <4>2. v.items = <<>> \o new /\ v.back = <<>> /\ ~v.stopped
        BY <1>1, <3>3, <4>1, EnqueueFacts
      <4>3. Kept(v) = <<>> \o (<<>> \o new)
        BY <4>2 DEF Kept
      <4>4. Kept(v) = new
        BY <4>3, ConcatEmptySeq
      <4>5. s = new
        BY <2>3, <4>1, <4>4
      <4> QED
        BY <2>1, <4>5
    <3> QED
      BY <3>1, <3>2, <3>3
  <2> QED
    BY <1>3, <2>2, <2>3
<1>4. life'.at = "attachOpen" => life'.runtime # 0
  BY SameHome
<1> QED
  BY <1>2, <1>3, <1>4, HomeIsRight

LEMMA EnqueueStep ==
    ASSUME InputInvariant, NEW new \in Seq(AnyRequests), Enqueue(new),
           UNCHANGED <<lane, wire, made, runtime, life, logging>>,
           job' \in JobRecords, stream' \in [Windows -> StreamRecords], JobKeeps, StreamsKeep,
           Ascends(new), Before(wire, new), \A q \in DOMAIN queues : Before(Due(q), new),
           \A i \in DOMAIN new : Numbered(new[i])', ~Attached => EveryAtHome(new)'
    PROVE  InputInvariant'
<1>1. InputTypes /\ NewestTakesInput /\ NumbersAreGiven /\ QueuesInOrder
  BY DEF InputInvariant
<1>2. PICK t : t = queue'
  OBVIOUS
<1>3. t \in Nat /\ queues' \in Seq(QueueRecords)
  BY <1>1, <1>2, EnqueueFacts
<1>4. InputTypes'
  BY <1>1, <1>2, <1>3, SameLog DEF InputTypes
<1>5. Joined(t, new)
  BY <1>1, <1>2, <1>3, EnqueueJoins
<1>6. AttachKeeps
  BY AttachSame
<1>7. /\ NumbersGrow /\ NamesAreNew' /\ RuntimeGoesOn /\ JobGoesOn
      /\ ChannelIsOwn' /\ TargetIsCurrent'
  BY <1>4, <1>6, SteadyFacts
<1>8. QueuesInOrder'
  BY <1>1, <1>3, <1>5, JoinedKeepsOrder
<1>9. NumbersAreGiven'
  BY <1>1, <1>3, <1>4, <1>5, <1>7, JoinedKeepsNumbers
<1>10. LaneByAge' /\ NewestTakesInput' /\ BatchesFit'
  BY <1>4, EnqueueKeepsLane
<1>11. InputAtHome'
  BY <1>4, <1>7, EnqueueKeepsHome
<1> QED
  BY <1>4, <1>7, <1>8, <1>9, <1>10, <1>11 DEF InputInvariant
----------------------------------------------------------------------------
(* A packet, or a payload, is accepted.                                    *)

\* What a stream puts on the queue: the next numbers, for the registered connection.
InputOf(st, k) == [i \in 1..k |-> Request(st.id, st.next + i - 1, st.runtime, runtime.channel)]

LEMMA InputOfFacts ==
    ASSUME InputInvariant, NEW st \in StreamRecords, NEW k \in Nat
    PROVE  /\ InputOf(st, k) \in Seq(AnyRequests) /\ DOMAIN InputOf(st, k) = 1..k
           /\ \A i \in 1..k :
                 /\ InputOf(st, k)[i].stream = st.id /\ InputOf(st, k)[i].seq = st.next + i - 1
                 /\ InputOf(st, k)[i].runtime = st.runtime
                 /\ InputOf(st, k)[i].typed = runtime.channel
           /\ Ascends(InputOf(st, k))
<1>1. st.id \in Nat /\ st.next \in Nat /\ st.runtime \in Nat /\ runtime.channel \in Nat
  BY DEF InputInvariant, InputTypes, StreamRecords
<1>2. PICK s : s = InputOf(st, k)
  OBVIOUS
<1>3. DOMAIN s = 1..k /\ \A i \in 1..k : s[i] = Request(st.id, st.next + i - 1, st.runtime, runtime.channel)
  BY <1>2 DEF InputOf
<1>4. ASSUME NEW i \in 1..k
      PROVE  /\ s[i] \in AnyRequests /\ s[i].stream = st.id /\ s[i].seq = st.next + i - 1
             /\ s[i].runtime = st.runtime /\ s[i].typed = runtime.channel
  <2>1. PICK n \in Nat : n = st.next + i - 1
    BY <1>1
  <2>2. s[i] = Request(st.id, n, st.runtime, runtime.channel)
    BY <1>3, <2>1
  <2>3. /\ s[i] \in AnyRequests /\ s[i].stream = st.id /\ s[i].seq = n
        /\ s[i].runtime = st.runtime /\ s[i].typed = runtime.channel
    <3>1. n \in Nat
      OBVIOUS
    <3> QED
      BY ONLY <1>1, <3>1, <2>2 DEF Request, AnyRequests
  <2> QED
    BY <2>1, <2>3
<1>5. s \in Seq(AnyRequests)
  <2>1. s = [i \in 1..k |-> s[i]]
    BY <1>2, <1>3 DEF InputOf
  <2>2. s \in [1..k -> AnyRequests]
    BY <1>4, <2>1
  <2> QED
    BY <2>2
<1>6. Ascends(s)
  <2>1. ASSUME NEW i \in 1..k, NEW j \in 1..k, i < j PROVE s[i].seq < s[j].seq
    BY <1>1, <1>4, <2>1
  <2> QED
    BY <1>3, <2>1 DEF Ascends
<1> QED
  BY <1>2, <1>3, <1>4, <1>5, <1>6

LEMMA NumberedIsBefore ==
    ASSUME NEW s, NEW t, NEW w \in Windows, stream[w].id # 0,
           \A i \in DOMAIN s : Numbered(s[i]) /\ s[i].seq \in Nat, stream[w].next \in Nat,
           \A j \in DOMAIN t : t[j].stream = stream[w].id /\ t[j].seq \in Nat /\ t[j].seq >= stream[w].next
    PROVE  Before(s, t)
  BY DEF Before, Numbered

\* What an accepted packet does: its stream fails, or passes on what is in order.
Accepts(w, st, held) ==
    \/ /\ stream' = [stream EXCEPT ![w] = [st EXCEPT !.failed = TRUE, !.pending = {}]]
       /\ UNCHANGED <<queue, queues>>
    \/ \E n \in 0..Cardinality(held.pending), k \in 0..Capacity :
          /\ stream' = [stream EXCEPT ![w] =
                [held EXCEPT !.next = @ + k,
                             !.failed = k < n,
                             !.pending = IF k < n THEN {}
                                         ELSE @ \ (st.next .. (st.next + k - 1))]]
          /\ IF n > 0 /\ st.runtime = Current /\ Accepting
             THEN Enqueue(InputOf(st, k))
             ELSE UNCHANGED <<queue, queues>>

LEMMA AcceptPacketStep ==
    ASSUME InputInvariant, NEW w \in Windows, NEW seq \in Nat, AcceptPacket(w, seq)
    PROVE  InputInvariant'
<1>1. PICK st : st = stream[w]
  OBVIOUS
<1>2. PICK held : held = [st EXCEPT !.pending = @ \cup {seq}]
  OBVIOUS
<1>3. /\ stream \in [Windows -> StreamRecords] /\ made \in [runtime : Nat, channel : Nat, stream : Nat]
      /\ InputTypes /\ NumbersAreGiven /\ queues \in Seq(QueueRecords)
      /\ wire \in Seq(AnyRequests)
  BY DEF InputInvariant, InputTypes
<1>4. st \in StreamRecords /\ st.id # 0
  <2>1. stream[w].id # 0
    BY Zenon DEF AcceptPacket
  <2> QED
    BY <1>1, <1>3, <2>1
<1>5. /\ held \in StreamRecords /\ held.id = st.id /\ held.next = st.next /\ held.runtime = st.runtime
      /\ st.next \in Nat
  <2>1. st.pending \cup {seq} \in SUBSET Nat
    BY <1>4 DEF StreamRecords
  <2> QED
    BY <1>2, <1>4, <2>1 DEF StreamRecords
<1>6. /\ UNCHANGED <<front, lane, job, logging, session, wire>>
      /\ UNCHANGED <<lane, job, runtime, made, life, wire, logging>>
  <2>1. UNCHANGED <<front, lane, job, logging, session, wire>>
    BY Zenon DEF AcceptPacket
  <2> QED
    BY <2>1 DEF session
<1>7. JobKeeps /\ job' \in JobRecords /\ AttachKeeps
  BY <1>6, JobSame, AttachSame DEF InputInvariant, InputTypes
\* The stream is another one with the same name and at least its number.
<1>8. ASSUME NEW new \in StreamRecords, stream' = [stream EXCEPT ![w] = new],
             new.id = st.id, new.runtime = st.runtime, new.next >= st.next
      PROVE  StreamsKeep /\ stream' \in [Windows -> StreamRecords]
  <2>1. \A v \in Windows : stream[v].next \in Nat
    BY <1>3 DEF StreamRecords
  <2> QED
    BY <1>1, <1>3, <1>8, <2>1 DEF StreamsKeep
<1>9. ASSUME StreamsKeep, stream' \in [Windows -> StreamRecords], UNCHANGED <<queue, queues>>
      PROVE  InputInvariant'
  <2>1. InputTypes'
    BY <1>6, <1>9, SameLog DEF InputInvariant, InputTypes
  <2> QED
    BY <1>6, <1>7, <1>9, <2>1, SameLane, SteadyStep DEF Attached
<1>10. CASE /\ stream' = [stream EXCEPT ![w] = [st EXCEPT !.failed = TRUE, !.pending = {}]]
            /\ UNCHANGED <<queue, queues>>
  <2>1. PICK new : new = [st EXCEPT !.failed = TRUE, !.pending = {}]
    OBVIOUS
  <2>2. new \in StreamRecords /\ new.id = st.id /\ new.runtime = st.runtime /\ new.next = st.next
    BY <1>4, <2>1 DEF StreamRecords
  <2>3. new.next >= st.next
    BY <1>5, <2>2
  <2> QED
    BY <1>8, <1>9, <1>10, <2>1, <2>2, <2>3
<1>11. ASSUME NEW n \in Nat, NEW k \in Nat,
              stream' = [stream EXCEPT ![w] =
                          [held EXCEPT !.next = @ + k,
                                       !.failed = k < n,
                                       !.pending = IF k < n THEN {}
                                                   ELSE @ \ (st.next .. (st.next + k - 1))]],
              IF n > 0 /\ st.runtime = Current /\ Accepting
              THEN Enqueue(InputOf(st, k))
              ELSE UNCHANGED <<queue, queues>>
       PROVE  InputInvariant'
  <2>1. PICK new : new = [held EXCEPT !.next = @ + k,
                                      !.failed = k < n,
                                      !.pending = IF k < n THEN {}
                                                  ELSE @ \ (st.next .. (st.next + k - 1))]
    OBVIOUS
  <2>2. /\ new.id = st.id /\ new.runtime = st.runtime /\ new.next = st.next + k
    BY <1>5, <2>1 DEF StreamRecords
  <2>3. new \in StreamRecords
    <3>1. held.next + k \in Nat /\ held.pending \in SUBSET Nat
      BY <1>5 DEF StreamRecords
    <3>2. PICK p : p = IF k < n THEN {} ELSE held.pending \ (st.next .. (st.next + k - 1))
      OBVIOUS
    <3>3. p \in SUBSET Nat /\ (k < n) \in BOOLEAN
      BY <3>1, <3>2
    <3>4. new = [held EXCEPT !.next = @ + k, !.failed = k < n, !.pending = p]
      BY <2>1, <3>2
    <3> QED
      BY <1>5, <3>1, <3>3, <3>4 DEF StreamRecords
  <2>4. new.next >= st.next
    BY <1>5, <2>2
  <2>5. stream' = [stream EXCEPT ![w] = new]
    BY <1>11, <2>1
  <2>6. StreamsKeep /\ stream' \in [Windows -> StreamRecords]
    BY <1>8, <2>2, <2>3, <2>4, <2>5
  <2>7. CASE UNCHANGED <<queue, queues>>
    BY <1>9, <2>6, <2>7
  <2>8. CASE st.runtime = Current /\ Enqueue(InputOf(st, k))
    <3>1. PICK s : s = InputOf(st, k)
      OBVIOUS
    <3>2. /\ s \in Seq(AnyRequests) /\ Ascends(s) /\ DOMAIN s = 1..k
          /\ \A i \in 1..k : /\ s[i].stream = st.id /\ s[i].seq = st.next + i - 1
                             /\ s[i].runtime = st.runtime /\ s[i].typed = runtime.channel
      BY <1>4, <3>1, InputOfFacts
    <3>3. \A j \in DOMAIN s : s[j].stream = stream[w].id /\ s[j].seq \in Nat /\ s[j].seq >= stream[w].next
      <4>1. \A i \in 1..k : st.next + i - 1 \in Nat /\ st.next + i - 1 >= st.next
        BY <1>5
      <4> QED
        BY <1>1, <3>2, <4>1
    <3>4. ASSUME NEW o \in Seq(AnyRequests), \A i \in DOMAIN o : Numbered(o[i])
          PROVE  Before(o, s)
      <4>1. \A i \in DOMAIN o : o[i].seq \in Nat
        <5>1. \A i \in DOMAIN o : o[i] \in AnyRequests
          BY LenProperties, ElementOfSeq
        <5> QED
          BY <5>1 DEF AnyRequests
      <4> QED
        BY <1>1, <1>4, <1>5, <3>3, <3>4, <4>1, NumberedIsBefore
    <3>5. Before(wire, s)
      BY <1>3, <3>4 DEF NumbersAreGiven
    <3>6. ASSUME NEW q \in DOMAIN queues PROVE Before(Due(q), s)
      <4>1. Due(q) \in Seq(AnyRequests)
        BY <1>3, LenProperties, ElementOfSeq, DueType DEF Due
      <4> QED
        BY <1>3, <3>4, <4>1 DEF NumbersAreGiven
    <3>7. ASSUME NEW i \in DOMAIN s PROVE Numbered(s[i])'
      <4>1. PICK r : r = s[i]
        OBVIOUS
      <4>2. /\ r.stream = st.id /\ r.seq = st.next + i - 1 /\ r.runtime = st.runtime /\ i \in 1..k
        BY <3>2, <4>1
      <4>3. /\ st.id <= made.stream /\ st.runtime \in 1..made.runtime
            /\ \A v \in Windows \ {w} : stream[v].id # st.id
        BY <1>1, <1>4 DEF InputInvariant, NamesAreNew
      <4>4. ASSUME NEW v \in Windows, stream'[v].id = r.stream PROVE r.seq < stream'[v].next
        <5>1. v = w
          <6>1. v # w => stream'[v] = stream[v]
            BY <1>3, <2>5
          <6> QED
            BY <4>2, <4>3, <4>4, <6>1
        <5>2. stream'[v] = new
          BY <1>3, <2>5, <5>1
        <5> QED
          BY <1>5, <2>2, <4>2, <5>2
      <4>5. r.stream # 0
        BY <1>4, <4>2
      <4>6. Numbered(r)'
        BY <1>6, <4>2, <4>3, <4>4, <4>5 DEF Numbered, IsJob
      <4> QED
        BY <4>1, <4>6 DEF Numbered
    <3>8. EveryAtHome(s)'
      BY <1>6, <3>2 DEF EveryAtHome, AtHome
    <3> QED
      BY <1>6, <1>7, <2>6, <2>8, <3>1, <3>2, <3>5, <3>6, <3>7, <3>8, EnqueueStep
  <2> QED
    BY <1>11, <2>7, <2>8
<1>12. Accepts(w, st, held)
  <2>1. Accepts(w, stream[w], [stream[w] EXCEPT !.pending = @ \cup {seq}])
    BY Zenon DEF AcceptPacket, Accepts, InputOf
  <2>2. held = [stream[w] EXCEPT !.pending = @ \cup {seq}]
    BY <1>1, <1>2
  <2> QED
    BY <1>1, <2>1, <2>2, Zenon
<1>13. CASE \E n \in 0..Cardinality(held.pending), k \in 0..Capacity :
              /\ stream' = [stream EXCEPT ![w] =
                          [held EXCEPT !.next = @ + k,
                                       !.failed = k < n,
                                       !.pending = IF k < n THEN {}
                                                   ELSE @ \ (st.next .. (st.next + k - 1))]]
              /\ IF n > 0 /\ st.runtime = Current /\ Accepting
                 THEN Enqueue(InputOf(st, k))
                 ELSE UNCHANGED <<queue, queues>>
  <2>1. \A n \in 0..Cardinality(held.pending), k \in 0..Capacity : n \in Nat /\ k \in Nat
    OBVIOUS
  <2> QED
    BY ONLY <1>11, <1>13, <2>1, Zenon
<1> QED
  BY ONLY <1>10, <1>12, <1>13, Zenon DEF Accepts
LEMMA JobSendsStep ==
    ASSUME InputInvariant, JobSends
    PROVE  InputInvariant'
<1>1. UNCHANGED <<stream, lane, runtime, made, life, wire, logging>>
  BY DEF JobSends, session, input
<1>2. /\ InputTypes /\ NumbersAreGiven /\ NamesAreNew /\ queues \in Seq(QueueRecords)
      /\ wire \in Seq(AnyRequests) /\ job \in JobRecords /\ stream \in [Windows -> StreamRecords]
  BY DEF InputInvariant, InputTypes
<1>3. job.sent \in Nat /\ job.runtime \in Nat /\ job.typed \in Nat /\ job.at \in {"sending", "late"}
  BY <1>2 DEF JobRecords, JobSends
<1>4. job.runtime \in 1..made.runtime
  BY <1>2, <1>3 DEF NamesAreNew
<1>5. CASE /\ Enqueue(<<Request(0, job.sent + 1, job.runtime, job.typed)>>)
           /\ job' = IF job.at = "late" THEN [NoJob EXCEPT !.at = "ended"]
                     ELSE [job EXCEPT !.at = "waiting", !.sent = @ + 1]
  <2>1. PICK n \in Nat : n = job.sent + 1
    BY <1>3
  <2>2. PICK r : r = Request(0, n, job.runtime, job.typed)
    OBVIOUS
  <2>3. /\ r \in AnyRequests /\ r.stream = 0 /\ r.seq = n /\ r.runtime = job.runtime
        /\ r.typed = job.typed
    BY <1>3, <2>2 DEF Request, AnyRequests
  <2>4. PICK s : s = <<r>>
    OBVIOUS
  <2>5. s \in Seq(AnyRequests) /\ DOMAIN s = 1..1 /\ s[1] = r
    BY <2>3, <2>4
  <2>6. Enqueue(s)
    BY <1>5, <2>1, <2>2, <2>4
  <2>7. Ascends(s)
    <3>1. \A i \in 1..1, j \in 1..1 : ~(i < j)
      OBVIOUS
    <3> QED
      BY <2>5, <3>1 DEF Ascends
  <2>8. \A i \in DOMAIN s : s[i] = r
    <3>1. \A i \in 1..1 : i = 1
      OBVIOUS
    <3> QED
      BY <2>5, <3>1
  <2>9. ASSUME NEW o \in Seq(AnyRequests), \A i \in DOMAIN o : Numbered(o[i])
        PROVE  Before(o, s)
    <3>1. ASSUME NEW i \in DOMAIN o, o[i].stream = 0 PROVE o[i].seq < n
      <4>1. o[i] \in AnyRequests
        BY LenProperties, ElementOfSeq
      <4>2. o[i].seq \in Nat
        BY <4>1 DEF AnyRequests
      <4>3. o[i].seq <= job.sent
        BY <1>3, <2>9, <3>1 DEF Numbered, IsJob
      <4> QED
        BY <1>3, <2>1, <4>2, <4>3
    <3> QED
      BY <2>3, <2>8, <3>1 DEF Before
  <2>10. Before(wire, s)
    BY <1>2, <2>9 DEF NumbersAreGiven
  <2>11. ASSUME NEW q \in DOMAIN queues PROVE Before(Due(q), s)
    <3>1. Due(q) \in Seq(AnyRequests)
      BY <1>2, LenProperties, ElementOfSeq, DueType DEF Due
    <3> QED
      BY <1>2, <2>9, <3>1 DEF NumbersAreGiven
  <2>12. \/ job.at = "late" /\ job'.at = "ended" /\ job' \in JobRecords
         \/ job.at = "sending" /\ job'.at = "waiting" /\ job'.sent = n
            /\ job'.runtime = job.runtime /\ job' \in JobRecords
    <3>1. CASE job.at = "late"
      BY <1>5, <3>1 DEF NoJob, JobRecords
    <3>2. CASE job.at # "late"
      <4>1. job' = [job EXCEPT !.at = "waiting", !.sent = @ + 1]
        BY <1>5, <3>2
      <4> QED
        BY <1>2, <1>3, <2>1, <3>2, <4>1 DEF JobRecords
    <3> QED
      BY <3>1, <3>2
  <2>13. JobKeeps
    BY <1>3, <1>4, <2>1, <2>12 DEF JobKeeps, JobGoesOn
  <2>14. ASSUME NEW i \in DOMAIN s PROVE Numbered(s[i])'
    <3>1. Numbered(r)'
      BY <1>1, <1>4, <2>3, <2>12, <1>2 DEF Numbered, IsJob, InputTypes
    <3> QED
      BY <2>8, <3>1 DEF Numbered
  <2>15. ASSUME ~Attached PROVE EveryAtHome(s)'
    <3>1. AtHome(r)'
      <4>1. CASE job.at = "late"
        BY <2>3, <2>12, <4>1 DEF AtHome, IsJob
      <4>2. CASE job.at = "sending"
        <5>1. job.runtime = runtime.id => job.typed = runtime.channel
          BY <2>15, <4>2, SameHome DEF TargetIsCurrent, Attached
        <5> QED
          BY <1>1, <2>3, <5>1 DEF AtHome
      <4> QED
        BY <1>3, <4>1, <4>2
    <3> QED
      BY <2>8, <3>1 DEF EveryAtHome, AtHome
  <2>16. stream' \in [Windows -> StreamRecords] /\ StreamsKeep
    BY <1>1, <1>2, StreamsSame
  <2>17. job' \in JobRecords
    BY <2>12
  <2> QED
    BY <1>1, <2>5, <2>6, <2>7, <2>10, <2>11, <2>13, <2>14, <2>15, <2>16, <2>17, EnqueueStep
<1>6. CASE /\ job' = IF job.at = "late" THEN [NoJob EXCEPT !.at = "ended"] ELSE [job EXCEPT !.at = "ready"]
           /\ UNCHANGED writing
  <2>1. \/ job.at = "late" /\ job'.at = "ended" /\ job' \in JobRecords
        \/ job.at = "sending" /\ job'.at = "ready" /\ job'.sent = job.sent
           /\ job'.runtime = job.runtime /\ job' \in JobRecords
    <3>1. CASE job.at = "late"
      BY <1>6, <3>1 DEF NoJob, JobRecords
    <3>2. CASE job.at # "late"
      <4>1. job' = [job EXCEPT !.at = "ready"]
        BY <1>6, <3>2
      <4> QED
        BY <1>2, <1>3, <3>2, <4>1 DEF JobRecords
    <3> QED
      BY <3>1, <3>2
  <2>2. JobKeeps
    BY <1>3, <1>4, <2>1 DEF JobKeeps, JobGoesOn
  <2>3. UNCHANGED <<queue, queues>>
    BY <1>6 DEF writing
  <2>4. InputTypes'
    BY <1>1, <2>1, <2>3, SameLog DEF InputInvariant, InputTypes
  <2> QED
    BY <1>1, <2>2, <2>3, <2>4, StreamsSame, AttachSame, SameLane, SteadyStep DEF Attached
<1> QED
  BY <1>5, <1>6, Zenon DEF JobSends
----------------------------------------------------------------------------
(* A worker's step changes its own queue.                                  *)

LEMMA OneQueue ==
    ASSUME InputInvariant, NEW q \in DOMAIN queues, NEW w \in QueueRecords, Step(q, w),
           UNCHANGED <<queue, runtime, made, stream, life>>,
           InputTypes', LaneByAge', JobKeeps, w.stopped = queues[q].stopped,
           QueuesInOrder', NumbersAreGiven',
           w.at \in {"lane", "write", "record"} => w.batch # <<>> /\ Mergeable(w.batch, Len(w.batch)),
           w.at \in {"idle", "done"} => ~w.carried,
           w.at \in {"write", "record"} /\ ~w.carried =>
               \A i \in DOMAIN w.batch : w.batch[i].typed = w.channel,
           ~Attached => PartOf(Kept(w), Kept(queues[q])),
           ~Attached /\ w.at = "lane" /\ ~w.carried => PartOf(w.batch, Kept(queues[q]))
    PROVE  InputInvariant'
<1>1. InputTypes /\ queues \in Seq(QueueRecords) /\ NewestTakesInput /\ BatchesFit /\ InputAtHome
  BY DEF InputInvariant, InputTypes
<1>2. /\ queues' \in Seq(QueueRecords) /\ DOMAIN queues' = DOMAIN queues
      /\ Len(queues') = Len(queues)
      /\ queues'[q] = w /\ \A p \in DOMAIN queues : p # q => queues'[p] = queues[p]
  BY <1>1, StepFacts
<1>3. /\ NumbersGrow /\ NamesAreNew' /\ RuntimeGoesOn /\ JobGoesOn
      /\ ChannelIsOwn' /\ TargetIsCurrent'
  BY StreamsSame, AttachSame, SteadyFacts
<1>4. NewestTakesInput'
  BY <1>1, <1>2 DEF NewestTakesInput
<1>5. BatchesFit'
  <2>1. ASSUME NEW p \in DOMAIN queues'
        PROVE  /\ queues'[p].at \in {"lane", "write", "record"} =>
                     queues'[p].batch # <<>> /\ Mergeable(queues'[p].batch, Len(queues'[p].batch))
               /\ queues'[p].at \in {"idle", "done"} => ~queues'[p].carried
    <3>1. CASE p = q
      BY <1>2, <3>1
    <3>2. CASE p # q
      BY <1>1, <1>2, <3>2 DEF BatchesFit
    <3> QED
      BY <3>1, <3>2
  <2> QED
    BY <2>1 DEF BatchesFit, Mergeable, IsJob
<1>6. NoStaleKeys'
  <2>1. ASSUME NEW p \in DOMAIN queues', queues'[p].at \in {"write", "record"}, ~queues'[p].carried,
               NEW i \in DOMAIN queues'[p].batch
        PROVE  queues'[p].batch[i].typed = queues'[p].channel
    <3>1. CASE p = q
      BY <1>2, <2>1, <3>1
    <3>2. CASE p # q
      BY <1>1, <1>2, <2>1, <3>2 DEF InputAtHome, NoStaleKeys
    <3> QED
      BY <3>1, <3>2
  <2> QED
    BY <2>1 DEF NoStaleKeys
<1>7. ASSUME ~Attached', NEW p \in DOMAIN queues', NEW s,
             \/ s = Kept(queues[p])'
             \/ s = queues'[p].batch /\ queues'[p].at = "lane" /\ ~queues'[p].carried
      PROVE  EveryAtHome(s)'
  <2>1. ~Attached
    BY <1>7 DEF Attached
  <2>2. CASE p # q
    <3>1. p \in DOMAIN queues /\ queues'[p] = queues[p]
      BY <1>2, <2>2
    <3>2. \/ s = Kept(queues[p])
          \/ s = queues[p].batch /\ queues[p].at = "lane" /\ ~queues[p].carried
      BY <1>7, <3>1
    <3> QED
      BY <1>3, <2>1, <3>1, <3>2, QueueStaysHome
  <2>3. CASE p = q
    <3>1. PICK k : k = Kept(queues[q])
      OBVIOUS
    <3>2. EveryAtHome(k)'
      BY <1>3, <2>1, <3>1, QueueStaysHome
    <3>3. s = Kept(w) \/ (s = w.batch /\ w.at = "lane" /\ ~w.carried)
      BY <1>2, <1>7, <2>3
    <3>4. PartOf(s, k)
      BY <2>1, <3>1, <3>3
    <3> QED
      BY <3>2, <3>4, PartAtHome
  <2> QED
    BY <2>2, <2>3
<1>8. life'.at = "attachOpen" => life'.runtime # 0
  BY SameHome
<1>9. InputAtHome'
  BY <1>3, <1>6, <1>7, <1>8, HomeIsRight
<1> QED
  BY <1>3, <1>4, <1>5, <1>9 DEF InputInvariant

\* The queue has a part of what it had.
LEMMA QueueThins ==
    ASSUME InputInvariant, NEW q \in DOMAIN queues, NEW w \in QueueRecords, Step(q, w),
           UNCHANGED <<queue, runtime, made, stream, life, wire>>,
           InputTypes', JobKeeps, PartOf(Taken(w) \o Kept(w), Due(q))
    PROVE  QueuesInOrder' /\ NumbersAreGiven'
<1>1. InputTypes /\ queues \in Seq(QueueRecords) /\ QueuesInOrder /\ NumbersAreGiven
  BY DEF InputInvariant, InputTypes
<1>2. /\ queues' \in Seq(QueueRecords) /\ DOMAIN queues' = DOMAIN queues
      /\ queues'[q] = w /\ \A p \in DOMAIN queues : p # q => queues'[p] = queues[p]
  BY <1>1, StepFacts
<1>3. NumbersGrow
  BY StreamsSame, AttachSame, SteadyFacts
<1>4. ASSUME NEW p \in DOMAIN queues PROVE PartOf(Due(p)', Due(p))
  <2>1. CASE p = q
    <3>1. Due(p)' = Taken(w) \o Kept(w)
      BY <1>2, <2>1 DEF Due
    <3> QED
      BY <2>1, <3>1
  <2>2. CASE p # q
    <3>1. Due(p)' = Due(p) /\ Due(p) \in Seq(AnyRequests)
      BY <1>1, <1>2, <2>2, DuesType DEF Due
    <3> QED
      BY <3>1, PartOfItself
  <2> QED
    BY <2>1, <2>2
<1>5. Thinned
  BY <1>2, <1>4 DEF Thinned
<1> QED
  BY <1>1, <1>2, <1>3, <1>5, ThinnedKeepsOrder, ThinnedKeepsNumbers

LEMMA IdleFacts ==
    ASSUME NEW w \in QueueRecords
    PROVE  /\ Idle(w) \in QueueRecords /\ Idle(w).at = "idle" /\ ~Idle(w).carried
           /\ Idle(w).stopped = w.stopped
           /\ Taken(Idle(w)) = <<>> /\ Kept(Idle(w)) = Kept(w)
<1>1. PICK v : v = Idle(w)
  OBVIOUS
<1>2. v = [w EXCEPT !.at = "idle", !.batch = <<>>, !.channel = 0, !.carried = FALSE]
  BY <1>1 DEF Idle
<1>3. <<>> \in Seq(AnyRequests)
  BY EmptySeq
<1>4. v \in QueueRecords
  BY <1>2, <1>3 DEF QueueRecords
<1>5. v.at = "idle" /\ ~v.carried /\ v.stopped = w.stopped /\ v.items = w.items /\ v.back = w.back
  BY <1>2 DEF QueueRecords
<1>6. Taken(v) = <<>> /\ Kept(v) = Kept(w)
  BY <1>5 DEF Taken, Kept
<1> QED
  BY <1>1, <1>4, <1>5, <1>6

\* Queues before the one that holds the lane have nothing left to write.
LEMMA OlderAreEmpty ==
    ASSUME InputInvariant, NEW q \in DOMAIN queues, Holds(q), NEW p \in DOMAIN queues, p < q
    PROVE  Due(p) = <<>>
<1>1. PICK L \in Nat : L = Len(queues) /\ DOMAIN queues = 1..L
  BY LenProperties DEF InputInvariant, InputTypes
<1>2. p \in 1..L /\ q \in 1..L
  BY <1>1
<1>3. p # queue
  <2>1. queue = 0 \/ queue = L
    BY <1>1 DEF InputInvariant, NewestTakesInput
  <2> QED
    BY <1>2, <2>1
<1>4. queues[p].stopped
  BY <1>3 DEF InputInvariant, NewestTakesInput
<1>5. Kept(queues[p]) = <<>>
  BY <1>4 DEF Kept
<1>6. ~In(lane, p)
  <2>1. ASSUME NEW i \in DOMAIN lane, lane[i] = p PROVE FALSE
    <3>1. lane # <<>> /\ Head(lane) = q /\ lane \in Seq(Nat) /\ ByAge(lane)
      BY LaneForm, Zenon DEF Holds, InputInvariant, InputTypes
    <3>2. PICK n \in Nat : n = Len(lane) /\ DOMAIN lane = 1..n
      BY <3>1, LenProperties
    <3>3. lane[1] = q
      BY <3>1
    <3>a. i \in 1..n
      BY <3>2
    <3>b. i # 1
      BY <1>2, <2>1, <3>3
    <3>4. 1 \in DOMAIN lane /\ 1 < i
      BY <3>2, <3>a, <3>b
    <3>5. Attach \in {q, p} \/ q < p
      BY <2>1, <3>1, <3>3, <3>4 DEF ByAge
    <3> QED
      BY <1>2, <3>5 DEF Attach
  <2> QED
    BY <2>1 DEF In
<1>7. queues[p].at \notin {"lane", "write", "record"}
  BY <1>6, LaneForm, Zenon DEF InputInvariant
<1>8. Taken(queues[p]) = <<>>
  BY <1>7 DEF Taken
<1>9. Due(p) = <<>> \o <<>>
  BY <1>5, <1>8 DEF Due
<1> QED
  BY <1>9, ConcatEmptySeq, EmptySeq

----------------------------------------------------------------------------
\* A worker is idle again, with or without having written what it took.
LEMMA WorkerIdles ==
    ASSUME InputInvariant, NEW q \in DOMAIN queues, Step(q, Idle(queues[q])),
           NEW batch, job' = Answer(batch), LaneWithout(q),
           UNCHANGED <<queue, runtime, made, stream, life>>, LogTypes',
           \/ wire' = wire
           \/ queues[q].at = "write" /\ wire' = wire \o queues[q].batch
    PROVE  InputInvariant'
<1>1. InputTypes /\ queues \in Seq(QueueRecords) /\ QueuesInOrder /\ NumbersAreGiven
      /\ wire \in Seq(AnyRequests)
  BY DEF InputInvariant, InputTypes
<1>2. PICK w : w = Idle(queues[q])
  OBVIOUS
<1>3. PICK v : v = queues[q]
  OBVIOUS
<1>4. v \in QueueRecords
  BY <1>1, <1>3, LenProperties, ElementOfSeq
<1>5. /\ w \in QueueRecords /\ w.at = "idle" /\ ~w.carried /\ w.stopped = v.stopped
      /\ Taken(w) = <<>> /\ Kept(w) = Kept(v)
  BY <1>2, <1>3, <1>4, IdleFacts
<1>6. Step(q, w)
  BY <1>2
<1>7. /\ queues' \in Seq(QueueRecords) /\ DOMAIN queues' = DOMAIN queues
      /\ queues'[q] = w /\ \A p \in DOMAIN queues : p # q => queues'[p] = queues[p]
  BY <1>1, <1>5, <1>6, StepFacts
<1>8. JobKeeps /\ job' \in JobRecords
  BY JobAnswered
<1>9. Taken(v) \in Seq(AnyRequests) /\ Kept(v) \in Seq(AnyRequests) /\ v.batch \in Seq(AnyRequests)
  BY <1>4, DueType DEF QueueRecords
<1>10. wire' \in Seq(AnyRequests)
  <2>1. wire \o v.batch \in Seq(AnyRequests)
    BY ONLY <1>1, <1>9, ConcatFacts
  <2> QED
    BY <1>1, <1>3, <2>1
<1>11. lane' \in Seq(Nat)
  BY DEF LaneWithout
<1>12. InputTypes'
  BY <1>1, <1>7, <1>8, <1>10, <1>11 DEF InputTypes
<1>13. LaneByAge'
  <2>1. 0 \notin DOMAIN queues
    BY <1>1, LenProperties
  <2>2. q # Attach
    BY <2>1 DEF Attach
  <2> QED
    BY <1>5, <1>7, <1>12, <2>2, LaneLoses
<1>14. Taken(w) \o Kept(w) = Kept(v)
  BY <1>5, <1>9, ConcatEmptySeq
<1>15. QueuesInOrder' /\ NumbersAreGiven'
  <2>1. CASE wire' = wire
    <3>1. Due(q) = Taken(v) \o Kept(v)
      BY <1>3 DEF Due
    <3>2. PartOf(Kept(v), Due(q))
      BY <1>9, <3>1, PartOfConcat
    <3> QED
      BY <1>5, <1>6, <1>8, <1>12, <1>14, <2>1, <3>2, QueueThins
  <2>2. CASE queues[q].at = "write" /\ wire' = wire \o queues[q].batch
    <3>1. PICK first : first = v.batch
      OBVIOUS
    <3>2. PICK rest : rest = Kept(v)
      OBVIOUS
    <3>3. Due(q) = first \o rest
      BY <1>3, <2>2, <3>1, <3>2 DEF Due, Taken
    <3>4. Due(q)' = rest
      BY <1>7, <1>14, <3>2 DEF Due
    <3>5. \A p \in DOMAIN queues : p # q => Due(p)' = Due(p)
      BY <1>7 DEF Due
    <3>6. Holds(q)
      BY <2>2, LaneForm, Zenon DEF InputInvariant
    <3>7. \A p \in DOMAIN queues : p < q => Due(p) = <<>>
      BY <3>6, OlderAreEmpty
    <3>8. Sent(q, first, rest)
      BY <1>3, <1>7, <2>2, <3>1, <3>3, <3>4, <3>5, <3>7 DEF Sent
    <3>9. first \in Seq(AnyRequests) /\ rest \in Seq(AnyRequests)
      BY <1>9, <3>1, <3>2
    <3>10. NumbersGrow
      BY <1>8, <1>12, StreamsSame, AttachSame, SteadyFacts
    <3> QED
      BY <1>1, <1>7, <1>12, <3>8, <3>9, <3>10, SentKeepsOrder, SentKeepsNumbers
  <2> QED
    BY <2>1, <2>2
<1>16. PartOf(Kept(w), Kept(queues[q]))
  BY <1>3, <1>5, <1>9, PartOfItself
<1> QED
  BY <1>3, <1>5, <1>6, <1>8, <1>12, <1>13, <1>15, <1>16, OneQueue
LEMMA WorkerCapturesStep ==
    ASSUME InputInvariant, NEW q \in DOMAIN queues, WorkerCaptures(q)
    PROVE  InputInvariant'
<1>1. UNCHANGED <<queue, runtime, made, stream, life, wire, logging>> /\ queues[q].at = "lane"
  BY DEF WorkerCaptures, input, session, Worker
<1>2. CASE /\ Holds(q) /\ ~Cancelled(queues[q].batch) /\ runtime.id = Head(queues[q].batch).runtime
           /\ Step(q, [queues[q] EXCEPT !.at = "write", !.channel = runtime.channel])
           /\ UNCHANGED <<lane, job>>
  <2>1. InputTypes /\ queues \in Seq(QueueRecords) /\ runtime.channel \in Nat
    BY DEF InputInvariant, InputTypes
  <2>2. PICK v : v = queues[q]
    OBVIOUS
  <2>3. PICK w : w = [v EXCEPT !.at = "write", !.channel = runtime.channel]
    OBVIOUS
  <2>4. v \in QueueRecords /\ v.batch \in Seq(AnyRequests) /\ v.at = "lane"
    <3>1. v \in QueueRecords
      BY <2>1, <2>2, LenProperties, ElementOfSeq
    <3> QED
      BY <1>1, <2>2, <3>1 DEF QueueRecords
  <2>5. /\ w \in QueueRecords /\ w.at = "write" /\ w.batch = v.batch /\ w.stopped = v.stopped
        /\ w.items = v.items /\ w.back = v.back /\ w.carried = v.carried
        /\ w.channel = runtime.channel
    BY <2>1, <2>3, <2>4 DEF QueueRecords
  <2>6. Step(q, w)
    BY <1>2, <2>2, <2>3
  <2>7. /\ queues' \in Seq(QueueRecords) /\ DOMAIN queues' = DOMAIN queues
        /\ queues'[q] = w /\ \A p \in DOMAIN queues : p # q => queues'[p] = queues[p]
    BY <2>1, <2>5, <2>6, StepFacts
  <2>8. InputTypes'
    BY <1>1, <1>2, <2>7, SameLog DEF InputInvariant, InputTypes
  <2>9. JobKeeps
    BY <1>2, JobSame
  <2>10. Taken(w) = Taken(v) /\ Kept(w) = Kept(v)
    BY <2>4, <2>5 DEF Taken, Kept
  <2>11. Taken(v) \in Seq(AnyRequests) /\ Kept(v) \in Seq(AnyRequests)
    BY <2>4, DueType
  <2>12. PartOf(Taken(w) \o Kept(w), Due(q)) /\ PartOf(Kept(w), Kept(queues[q]))
    <3>1. Due(q) = Taken(w) \o Kept(w)
      BY <2>2, <2>10 DEF Due
    <3>2. Due(q) \in Seq(AnyRequests)
      BY <2>10, <2>11, <3>1, ConcatFacts
    <3> QED
      BY <2>2, <2>10, <2>11, <3>1, <3>2, PartOfItself
  <2>13. QueuesInOrder' /\ NumbersAreGiven'
    BY <1>1, <2>5, <2>6, <2>8, <2>9, <2>12, QueueThins
  <2>14. LaneByAge'
    <3>1. /\ \A p \in DOMAIN queues :
                /\ In(lane, p) <=> queues[p].at \in {"lane", "write", "record"}
                /\ queues[p].at \in {"write", "record"} => Holds(p)
          /\ In(lane, Attach) <=> life.at \in AttachSteps
          /\ life.at \in AttachSteps \ {"attachLane"} => Holds(Attach)
          /\ \A b : In(lane, b) => b = Attach \/ b \in DOMAIN queues
          /\ ByAge(lane)
      BY <2>1, LaneForm, LaneMembers, Zenon DEF InputInvariant
    <3>2. \A b : Holds(b)' <=> Holds(b)
      BY <1>2 DEF Holds
    <3>3. ASSUME NEW p \in DOMAIN queues'
          PROVE  /\ In(lane', p) <=> queues'[p].at \in {"lane", "write", "record"}
                 /\ queues'[p].at \in {"write", "record"} => Holds(p)'
      <4>1. CASE p = q
        BY <1>1, <1>2, <2>5, <2>7, <3>1, <3>2, <4>1
      <4>2. CASE p # q
        BY <1>2, <2>7, <3>1, <3>2, <4>2
      <4> QED
        BY <4>1, <4>2
    <3>4. lane' = lane /\ life' = life
      BY <1>1, <1>2
    <3> QED
      BY <2>7, <2>8, <3>1, <3>2, <3>3, <3>4, LaneIsRight
  <2>15. v.batch # <<>> /\ Mergeable(v.batch, Len(v.batch))
    BY <1>1, <2>2 DEF InputInvariant, BatchesFit
  <2>16. ASSUME ~w.carried, NEW i \in DOMAIN w.batch PROVE w.batch[i].typed = w.channel
    <3>1. ~Attached
      <4>1. life.at \in AttachSteps \ {"attachLane"} => Holds(Attach)
        BY LaneForm, Zenon DEF InputInvariant
      <4>2. q # Attach
        BY <2>1, LenProperties DEF Attach
      <4> QED
        BY <1>2, <4>1, <4>2 DEF Attached, Holds, AttachSteps
    <3>2. PICK r : r = v.batch[i]
      OBVIOUS
    <3>3. AtHome(r)
      BY <1>1, <2>2, <2>5, <2>16, <3>1, <3>2 DEF InputInvariant, InputAtHome
    <3>4. PICK n \in Nat : n = Len(v.batch) /\ DOMAIN v.batch = 1..n
      BY <2>4, LenProperties
    <3>5. Head(v.batch) = v.batch[1]
      BY <2>4, <2>15
    <3>6. /\ i = 1 \/ (~IsJob(r) /\ r.runtime = v.batch[1].runtime)
      <4>1. i \in 1..n
        BY <2>5, <3>4
      <4>2. i = 1 \/ i \in 2..n
        BY <4>1
      <4> QED
        BY <2>15, <3>2, <3>4, <4>2 DEF Mergeable
    <3>7. r.runtime = runtime.id
      BY <1>2, <2>2, <3>2, <3>5, <3>6
    <3>8. ~(IsJob(r) /\ job.at \in {"late", "ended"})
      BY <1>2, <2>2, <3>2, <3>5, <3>6 DEF Cancelled
    <3> QED
      BY <2>5, <3>2, <3>3, <3>7, <3>8 DEF AtHome
  <2> QED
    BY <1>1, <2>2, <2>5, <2>6, <2>8, <2>9, <2>12, <2>13, <2>14, <2>15, <2>16, OneQueue
<1>3. CASE /\ Step(q, Idle(queues[q]))
           /\ LeavesLane(q)
           /\ job' = Answer(queues[q].batch)
  BY <1>1, <1>3, LeavesFacts, SameLog, WorkerIdles
<1> QED
  BY <1>2, <1>3, Zenon DEF WorkerCaptures, Worker

LEMMA WorkerWritesStep ==
    ASSUME InputInvariant, NEW q \in DOMAIN queues, WorkerWrites(q)
    PROVE  InputInvariant'
<1>1. UNCHANGED <<queue, runtime, made, stream, life, logging>> /\ queues[q].at = "write"
  <2>1. UNCHANGED <<input, queue, logging, session>> /\ Worker(q).at = "write"
    BY Zenon DEF WorkerWrites
  <2> QED
    BY <2>1 DEF input, session, Worker
<1>2. Holds(q)
  BY <1>1, LaneForm, Zenon DEF InputInvariant
<1>3. CASE /\ wire' = wire \o queues[q].batch
           /\ Step(q, [queues[q] EXCEPT !.at = "record"])
           /\ UNCHANGED <<lane, job>>
  <2>1. InputTypes /\ queues \in Seq(QueueRecords) /\ wire \in Seq(AnyRequests)
        /\ QueuesInOrder /\ NumbersAreGiven
    BY DEF InputInvariant, InputTypes
  <2>2. PICK v : v = queues[q]
    OBVIOUS
  <2>3. PICK w : w = [v EXCEPT !.at = "record"]
    OBVIOUS
  <2>4. v \in QueueRecords /\ v.batch \in Seq(AnyRequests) /\ v.at = "write"
    <3>1. v \in QueueRecords
      BY <2>1, <2>2, LenProperties, ElementOfSeq
    <3> QED
      BY <1>1, <2>2, <3>1 DEF QueueRecords
  <2>5. /\ w \in QueueRecords /\ w.at = "record" /\ w.batch = v.batch /\ w.stopped = v.stopped
        /\ w.items = v.items /\ w.back = v.back /\ w.carried = v.carried
        /\ w.channel = v.channel
    BY <2>3, <2>4 DEF QueueRecords
  <2>6. Step(q, w)
    BY <1>3, <2>2, <2>3
  <2>7. /\ queues' \in Seq(QueueRecords) /\ DOMAIN queues' = DOMAIN queues
        /\ queues'[q] = w /\ \A p \in DOMAIN queues : p # q => queues'[p] = queues[p]
    BY <2>1, <2>5, <2>6, StepFacts
  <2>8. wire' \in Seq(AnyRequests)
    <3>1. wire \o v.batch \in Seq(AnyRequests)
      BY ONLY <2>1, <2>4, ConcatFacts
    <3> QED
      BY <1>3, <2>2, <3>1
  <2>9. InputTypes'
    BY <1>1, <1>3, <2>7, <2>8, SameLog DEF InputInvariant, InputTypes
  <2>10. JobKeeps
    BY <1>3, JobSame
  <2>11. Taken(w) = <<>> /\ Taken(v) = v.batch /\ Kept(w) = Kept(v)
    BY <2>4, <2>5 DEF Taken, Kept
  <2>12. Kept(v) \in Seq(AnyRequests)
    BY <2>4, DueType
  <2>13. QueuesInOrder' /\ NumbersAreGiven'
    <3>1. PICK first : first = v.batch
      OBVIOUS
    <3>2. PICK rest : rest = Kept(v)
      OBVIOUS
    <3>3. Due(q) = first \o rest
      BY <2>2, <2>11, <3>1, <3>2 DEF Due
    <3>4. Due(q)' = rest
      <4>1. Due(q)' = <<>> \o rest
        BY <2>7, <2>11, <3>2 DEF Due
      <4> QED
        BY <2>12, <3>2, <4>1, ConcatEmptySeq
    <3>5. \A p \in DOMAIN queues : p # q => Due(p)' = Due(p)
      BY <2>7 DEF Due
    <3>6. \A p \in DOMAIN queues : p < q => Due(p) = <<>>
      BY <1>2, OlderAreEmpty
    <3>7. Sent(q, first, rest)
      BY <1>3, <2>2, <2>7, <3>1, <3>3, <3>4, <3>5, <3>6 DEF Sent
    <3>8. first \in Seq(AnyRequests) /\ rest \in Seq(AnyRequests)
      BY <2>4, <2>12, <3>1, <3>2
    <3>9. NumbersGrow
      BY <1>1, <2>9, <2>10, StreamsSame, AttachSame, SteadyFacts
    <3> QED
      BY <2>1, <2>7, <2>9, <3>7, <3>8, <3>9, SentKeepsOrder, SentKeepsNumbers
  <2>14. LaneByAge'
    <3>1. /\ \A p \in DOMAIN queues :
                /\ In(lane, p) <=> queues[p].at \in {"lane", "write", "record"}
                /\ queues[p].at \in {"write", "record"} => Holds(p)
          /\ In(lane, Attach) <=> life.at \in AttachSteps
          /\ life.at \in AttachSteps \ {"attachLane"} => Holds(Attach)
          /\ \A b : In(lane, b) => b = Attach \/ b \in DOMAIN queues
          /\ ByAge(lane)
      BY <2>1, LaneForm, LaneMembers, Zenon DEF InputInvariant
    <3>2. \A b : Holds(b)' <=> Holds(b)
      BY <1>3 DEF Holds
    <3>3. ASSUME NEW p \in DOMAIN queues'
          PROVE  /\ In(lane', p) <=> queues'[p].at \in {"lane", "write", "record"}
                 /\ queues'[p].at \in {"write", "record"} => Holds(p)'
      <4>1. CASE p = q
        BY <1>1, <1>2, <1>3, <2>5, <2>7, <3>1, <3>2, <4>1
      <4>2. CASE p # q
        BY <1>3, <2>7, <3>1, <3>2, <4>2
      <4> QED
        BY <4>1, <4>2
    <3>4. lane' = lane /\ life' = life
      BY <1>1, <1>3
    <3> QED
      BY <2>7, <2>9, <3>1, <3>2, <3>3, <3>4, LaneIsRight
  <2>15. v.batch # <<>> /\ Mergeable(v.batch, Len(v.batch))
    BY <1>1, <2>2 DEF InputInvariant, BatchesFit
  <2>16. ASSUME ~w.carried PROVE \A i \in DOMAIN w.batch : w.batch[i].typed = w.channel
    BY <1>1, <2>2, <2>5, <2>16 DEF InputInvariant, InputAtHome, NoStaleKeys
  <2>17. PartOf(Kept(w), Kept(queues[q]))
    BY <2>2, <2>11, <2>12, PartOfItself
  <2> QED
    BY <1>1, <2>2, <2>5, <2>6, <2>9, <2>10, <2>13, <2>14, <2>15, <2>16, <2>17, OneQueue
<1>4. CASE /\ UNCHANGED wire \/ wire' = wire \o queues[q].batch
           /\ Step(q, Idle(queues[q])) /\ lane' = Tail(lane)
           /\ job' = Answer(queues[q].batch)
  BY <1>1, <1>2, <1>4, LeavesFacts, SameLog, WorkerIdles
<1> QED
  BY <1>3, <1>4, Zenon DEF WorkerWrites, Worker
LEMMA WorkerRecordsStep ==
    ASSUME InputInvariant, NEW q \in DOMAIN queues, WorkerRecords(q)
    PROVE  InputInvariant'
<1>1. /\ UNCHANGED <<input, queue, log, session, wire>>
      /\ queues[q].at = "record" /\ Step(q, Idle(queues[q])) /\ lane' = Tail(lane)
      /\ job' = Answer(queues[q].batch)
  BY Zenon DEF WorkerRecords, Worker
<1>2. UNCHANGED <<queue, runtime, made, stream, life, wire>>
  BY <1>1 DEF input, session
<1>3. Holds(q)
  BY <1>1, LaneForm, Zenon DEF InputInvariant
<1>4. LogTypes'
  <2>1. LogTypes /\ deferreds \in Seq(LogRecords) /\ queues \in Seq(QueueRecords)
    BY DEF InputInvariant, InputTypes, LogTypes
  <2>2. PICK b : b = queues[q].batch
    OBVIOUS
  <2>3. b \in Seq(AnyRequests)
    <3>1. queues[q] \in QueueRecords
      BY <2>1, LenProperties, ElementOfSeq
    <3> QED
      BY <2>2, <3>1 DEF QueueRecords
  <2>4. PICK d : d = IF deferred = 0 THEN Len(deferreds) + 1 ELSE deferred
    OBVIOUS
  <2>5. PICK base : base = IF deferred = 0 THEN Append(deferreds, NewLog) ELSE deferreds
    OBVIOUS
  <2>6. CASE UNCHANGED <<deferred, deferreds>>
    BY <2>6, SameLog DEF logging, LogTypes, InputInvariant, InputTypes
  <2>7. CASE deferred' = d /\ deferreds' = [base EXCEPT ![d].items = @ \o b]
    <3>1. NewLog \in LogRecords
      BY EmptySeq DEF NewLog, LogRecords
    <3>2. base \in Seq(LogRecords) /\ d \in Nat /\ d \in 1..Len(base)
      <4>1. CASE deferred = 0
        <5>1. PICK L \in Nat : L = Len(deferreds)
          BY <2>1, LenProperties
        <5>2. base \in Seq(LogRecords) /\ Len(base) = L + 1
          BY <2>1, <2>5, <3>1, <4>1, <5>1, AppendProperties
        <5>3. d = L + 1
          BY <2>4, <4>1, <5>1
        <5> QED
          BY <5>1, <5>2, <5>3
      <4>2. CASE deferred # 0
        BY <2>1, <2>4, <2>5, <4>2, LenProperties DEF LogTypes
      <4> QED
        BY <4>1, <4>2
    <3>3. base[d] \in LogRecords
      BY <3>2, ElementOfSeq
    <3>4. PICK s : s = base[d].items
      OBVIOUS
    <3>5. s \o b \in Seq(AnyRequests)
      <4>1. s \in Seq(AnyRequests)
        BY <3>3, <3>4 DEF LogRecords
      <4> QED
        BY <2>3, <4>1, ConcatFacts
    <3>6. PICK l : l = [base[d] EXCEPT !.items = @ \o b]
      OBVIOUS
    <3>7. l \in LogRecords
      BY <3>3, <3>4, <3>5, <3>6 DEF LogRecords
    <3>8. deferreds' = [base EXCEPT ![d] = l]
      BY <2>7, <3>6
    <3>9. deferreds' \in Seq(LogRecords) /\ Len(deferreds') = Len(base)
      BY ONLY <3>2, <3>7, <3>8, ExceptSeq
    <3>10. d \in DOMAIN deferreds'
      BY <3>2, <3>9, LenProperties
    <3> QED
      BY <2>7, <3>2, <3>9, <3>10 DEF LogTypes
  <2>8. \/ UNCHANGED <<deferred, deferreds>>
        \/ deferred' = d /\ deferreds' = [base EXCEPT ![d].items = @ \o b]
    BY <2>2, <2>4, <2>5, Zenon DEF WorkerRecords, Worker
  <2> QED
    BY <2>6, <2>7, <2>8
<1> QED
  BY <1>1, <1>2, <1>3, <1>4, LeavesFacts, WorkerIdles

\* A worker changes only what it has; it stays where it was in respect of the lane.
LEMMA WorkerThins ==
    ASSUME InputInvariant, NEW q \in DOMAIN queues, NEW w \in QueueRecords, Step(q, w),
           UNCHANGED <<queue, runtime, made, stream, life, wire, lane, logging>>,
           NEW batch, job' = Answer(batch),
           queues[q].at = "idle", w.at \in {"idle", "done"}, ~w.carried,
           w.stopped = queues[q].stopped, PartOf(Kept(w), Kept(queues[q]))
    PROVE  InputInvariant'
<1>1. InputTypes /\ queues \in Seq(QueueRecords)
  BY DEF InputInvariant, InputTypes
<1>2. /\ queues' \in Seq(QueueRecords) /\ DOMAIN queues' = DOMAIN queues
      /\ queues'[q] = w /\ \A p \in DOMAIN queues : p # q => queues'[p] = queues[p]
  BY <1>1, StepFacts
<1>3. JobKeeps /\ job' \in JobRecords
  BY JobAnswered
<1>4. InputTypes'
  BY <1>1, <1>2, <1>3, SameLog DEF InputTypes
<1>5. Kept(queues[q]) \in Seq(AnyRequests) /\ Kept(w) \in Seq(AnyRequests)
  BY <1>1, LenProperties, ElementOfSeq, DueType
<1>6. Taken(queues[q]) = <<>> /\ Taken(w) = <<>>
  BY DEF Taken
<1>7. PartOf(Taken(w) \o Kept(w), Due(q))
  <2>1. Taken(w) \o Kept(w) = Kept(w) /\ Due(q) = Kept(queues[q])
    BY <1>5, <1>6, ConcatEmptySeq DEF Due
  <2> QED
    BY <2>1
<1>8. QueuesInOrder' /\ NumbersAreGiven'
  BY <1>3, <1>4, <1>7, QueueThins
<1>9. LaneByAge'
  <2>1. /\ \A p \in DOMAIN queues :
                /\ In(lane, p) <=> queues[p].at \in {"lane", "write", "record"}
                /\ queues[p].at \in {"write", "record"} => Holds(p)
        /\ In(lane, Attach) <=> life.at \in AttachSteps
        /\ life.at \in AttachSteps \ {"attachLane"} => Holds(Attach)
        /\ \A b : In(lane, b) => b = Attach \/ b \in DOMAIN queues
        /\ ByAge(lane)
    BY <1>1, LaneForm, LaneMembers, Zenon DEF InputInvariant
  <2>2. \A b : Holds(b)' <=> Holds(b)
    BY DEF Holds
  <2>3. ASSUME NEW p \in DOMAIN queues'
        PROVE  /\ In(lane', p) <=> queues'[p].at \in {"lane", "write", "record"}
               /\ queues'[p].at \in {"write", "record"} => Holds(p)'
    <3>1. CASE p = q
      BY <1>2, <2>1, <3>1
    <3>2. CASE p # q
      BY <1>2, <2>1, <2>2, <3>2
    <3> QED
      BY <3>1, <3>2
  <2> QED
    BY <1>2, <1>4, <2>1, <2>2, <2>3, LaneIsRight
<1> QED
  BY <1>3, <1>4, <1>8, <1>9, OneQueue

LEMMA WorkerEndsStep ==
    ASSUME InputInvariant, NEW q \in DOMAIN queues, WorkerEnds(q)
    PROVE  InputInvariant'
<1>1. PICK v : v = queues[q]
  OBVIOUS
<1>2. /\ UNCHANGED <<input, queue, lane, logging, session, wire>> /\ v.at = "idle" /\ v.stopped
      /\ Step(q, [v EXCEPT !.at = "done", !.items = <<>>, !.back = <<>>])
      /\ job' = Answer(v.back \o v.items)
  BY <1>1, Zenon DEF WorkerEnds, Worker
<1>3. PICK w : w = [v EXCEPT !.at = "done", !.items = <<>>, !.back = <<>>]
  OBVIOUS
<1>4. v \in QueueRecords
  BY <1>1, LenProperties, ElementOfSeq DEF InputInvariant, InputTypes
<1>5. w \in QueueRecords /\ w.at = "done" /\ w.carried = v.carried /\ w.stopped = v.stopped
  BY <1>3, <1>4, EmptySeq DEF QueueRecords
<1>6. Kept(w) = <<>> /\ Kept(v) \in Seq(AnyRequests)
  BY <1>2, <1>4, <1>5, DueType DEF Kept
<1>7. PartOf(Kept(w), Kept(v))
  BY <1>6, PartOfItself
<1>8. ~v.carried
  BY <1>1, <1>2 DEF InputInvariant, BatchesFit
<1>9. UNCHANGED <<queue, runtime, made, stream, life, wire, lane, logging>>
  BY <1>2 DEF input, session
<1>10. Step(q, w)
  BY <1>2, <1>3
<1> QED
  BY <1>1, <1>2, <1>5, <1>7, <1>8, <1>9, <1>10, WorkerThins
\* A sequence cut in two.
LEMMA Cut ==
    ASSUME NEW s \in Seq(AnyRequests), NEW n \in 0..Len(s)
    PROVE  /\ SubSeq(s, 1, n) \in Seq(AnyRequests) /\ SubSeq(s, n + 1, Len(s)) \in Seq(AnyRequests)
           /\ Len(SubSeq(s, 1, n)) = n /\ DOMAIN SubSeq(s, 1, n) = 1..n
           /\ \A i \in 1..n : SubSeq(s, 1, n)[i] = s[i]
           /\ SubSeq(s, 1, n) \o SubSeq(s, n + 1, Len(s)) = s
<1>1. PICK k \in Nat : k = Len(s) /\ DOMAIN s = 1..k
  BY LenProperties
<1>2. n \in 0..k /\ n \in Nat
  BY <1>1
<1>3. \A i \in 1..k : s[i] \in AnyRequests
  BY <1>1, ElementOfSeq
<1>4. PICK a : a = SubSeq(s, 1, n)
  OBVIOUS
<1>5. /\ a \in Seq(AnyRequests) /\ Len(a) = n /\ \A i \in 1..n : a[i] = s[i]
  <2>1. \A i \in 1..n : s[i] \in AnyRequests
    BY <1>2, <1>3
  <2>2. /\ a \in Seq(AnyRequests) /\ Len(a) = IF 1 <= n THEN n - 1 + 1 ELSE 0
        /\ \A i \in 1 .. n - 1 + 1 : a[i] = s[1 + i - 1]
    BY <1>2, <1>4, <2>1, SubSeqProperties
  <2>3. ASSUME NEW i \in 1..n PROVE a[i] = s[i]
    <3>1. i \in 1 .. n - 1 + 1 /\ 1 + i - 1 = i
      BY <1>2
    <3> QED
      BY <2>2, <3>1
  <2>4. IF 1 <= n THEN n - 1 + 1 = n ELSE 0 = n
    BY <1>2
  <2> QED
    BY <2>2, <2>3, <2>4
<1>6. SubSeq(s, n + 1, Len(s)) \in Seq(AnyRequests)
  <2>1. PICK h \in Nat : h = n + 1
    BY <1>2
  <2>2. \A i \in h..k : s[i] \in AnyRequests
    <3>1. \A i \in h..k : i \in 1..k
      BY <1>2, <2>1
    <3> QED
      BY <1>3, <3>1
  <2>3. SubSeq(s, h, k) \in Seq(AnyRequests)
    BY <2>2, SubSeqProperties
  <2> QED
    BY <1>1, <2>1, <2>3
<1>7. SubSeq(s, 1, n) \o SubSeq(s, n + 1, Len(s)) = s
  <2>1. 1 \in 1 .. k + 1 /\ n \in 1 - 1 .. k /\ k \in n .. k
    BY <1>1, <1>2
  <2>2. SubSeq(s, 1, n) \o SubSeq(s, n + 1, k) = SubSeq(s, 1, k)
    BY <1>1, <2>1, ConcatAdjacentSubSeq
  <2>3. SubSeq(s, 1, k) = s
    BY <1>1, SubSeqFull
  <2> QED
    BY <1>1, <2>2, <2>3
<1> QED
  BY <1>4, <1>5, <1>6, <1>7, LenProperties

LEMMA WorkerTakesStep ==
    ASSUME InputInvariant, NEW q \in DOMAIN queues, WorkerTakes(q)
    PROVE  InputInvariant'
<1>1. PICK v : v = queues[q]
  OBVIOUS
<1>2. PICK from : from = v.back \o v.items
  OBVIOUS
<1>3. PICK n \in 1..Len(from), m \in 0..1 :
        /\ Merged(from, n)
        /\ m = IF n < Len(from) /\ n < MaxBatch /\ ~IsJob(Head(from)) THEN 1 ELSE 0
        /\ \/ /\ Step(q, [v EXCEPT !.back = SubSeq(from, n + 1, n + m),
                                   !.items = SubSeq(from, n + m + 1, Len(from))])
              /\ job' = Answer(SubSeq(from, 1, n)) /\ UNCHANGED lane
           \/ /\ Step(q, [[v EXCEPT !.back = SubSeq(from, n + 1, n + m),
                                    !.items = SubSeq(from, n + m + 1, Len(from))]
                            EXCEPT !.batch = SubSeq(from, 1, n), !.at = "lane"])
              /\ lane' = Append(lane, q) /\ UNCHANGED job
  BY <1>1, <1>2, ZenonT(40) DEF WorkerTakes, Worker
<1>4. v.at = "idle" /\ ~v.stopped /\ from # <<>>
      /\ UNCHANGED <<input, queue, logging, session, wire>>
  BY <1>1, <1>2, ZenonT(40) DEF WorkerTakes, Worker
<1>5. UNCHANGED <<queue, runtime, made, stream, life, wire, logging>>
  BY <1>4 DEF input, session
<1>6. InputTypes /\ queues \in Seq(QueueRecords) /\ v \in QueueRecords
  BY <1>1, LenProperties, ElementOfSeq DEF InputInvariant, InputTypes
<1>7. from \in Seq(AnyRequests) /\ Kept(v) = from
  <2>1. v.back \in Seq(AnyRequests) /\ v.items \in Seq(AnyRequests)
    BY <1>6 DEF QueueRecords
  <2>2. v.back \o v.items \in Seq(AnyRequests)
    BY ONLY <2>1, ConcatFacts
  <2> QED
    BY <1>2, <1>4, <2>2 DEF Kept
<1>8. PICK k \in Nat : k = Len(from) /\ DOMAIN from = 1..k
  BY <1>7, LenProperties
<1>9. n \in 1..k /\ n \in 0..k /\ n \in Nat /\ n + m \in 0..k /\ n + m \in Nat
  <2>1. n \in 1..k /\ n \in Nat
    BY <1>8
  <2>2. m = 0 \/ m = 1
    BY <1>3
  <2>3. m = 1 => n < k
    BY <1>3, <1>8
  <2> QED
    BY <2>1, <2>2, <2>3
<1>10. PICK batch : batch = SubSeq(from, 1, n)
  OBVIOUS
<1>11. PICK rest : rest = SubSeq(from, n + 1, Len(from))
  OBVIOUS
<1>12. /\ batch \in Seq(AnyRequests) /\ rest \in Seq(AnyRequests) /\ Len(batch) = n
       /\ DOMAIN batch = 1..n /\ (\A i \in 1..n : batch[i] = from[i]) /\ from = batch \o rest
  BY <1>7, <1>8, <1>9, <1>10, <1>11, Cut
<1>13. PICK back : back = SubSeq(from, n + 1, n + m)
  OBVIOUS
<1>14. PICK items : items = SubSeq(from, n + m + 1, Len(from))
  OBVIOUS
<1>15. back \in Seq(AnyRequests) /\ items \in Seq(AnyRequests) /\ back \o items = rest
  <2>1. items \in Seq(AnyRequests)
    BY <1>7, <1>8, <1>9, <1>14, Cut
  <2>2. PICK h \in Nat : h = n + 1
    BY <1>9
  <2>3. PICK e \in Nat : e = n + m
    BY <1>9
  <2>4. \A i \in h..e : i \in 1..k
    BY <1>9, <2>2, <2>3
  <2>5. \A i \in h..e : from[i] \in AnyRequests
    BY <1>7, <1>8, <2>4, ElementOfSeq
  <2>6. SubSeq(from, h, e) \in Seq(AnyRequests)
    BY <2>5, SubSeqProperties
  <2>7. h \in 1 .. k + 1 /\ e \in h - 1 .. k /\ k \in e .. k
    BY <1>3, <1>9, <2>2, <2>3
  <2>8. SubSeq(from, h, e) \o SubSeq(from, e + 1, k) = SubSeq(from, h, k)
    BY <1>7, <1>8, <2>7, ConcatAdjacentSubSeq
  <2> QED
    BY <1>8, <1>11, <1>13, <1>14, <2>1, <2>2, <2>3, <2>6, <2>8
<1>16. PICK taken : taken = [v EXCEPT !.back = back, !.items = items]
  OBVIOUS
<1>17. /\ taken \in QueueRecords /\ taken.at = "idle" /\ taken.carried = v.carried
       /\ taken.stopped = v.stopped /\ taken.back = back /\ taken.items = items
  BY <1>4, <1>6, <1>15, <1>16 DEF QueueRecords
<1>18. Kept(taken) = rest /\ ~taken.stopped
  BY <1>4, <1>15, <1>17 DEF Kept
<1>19. PartOf(rest, Kept(v)) /\ PartOf(batch, Kept(v))
  BY <1>7, <1>12, PartOfConcat
<1>20. ~v.carried
  BY <1>1, <1>4 DEF InputInvariant, BatchesFit
<1>21. CASE /\ Step(q, taken) /\ job' = Answer(batch) /\ UNCHANGED lane
  <2>1. PartOf(Kept(taken), Kept(queues[q]))
    BY <1>1, <1>18, <1>19
  <2> QED
    BY <1>1, <1>4, <1>5, <1>17, <1>20, <1>21, <2>1, WorkerThins
<1>22. CASE /\ Step(q, [taken EXCEPT !.batch = batch, !.at = "lane"])
            /\ lane' = Append(lane, q) /\ UNCHANGED job
  <2>1. PICK w : w = [taken EXCEPT !.batch = batch, !.at = "lane"]
    OBVIOUS
  <2>2. /\ w \in QueueRecords /\ w.at = "lane" /\ w.batch = batch /\ w.stopped = v.stopped
        /\ w.back = back /\ w.items = items
    BY <1>12, <1>17, <2>1 DEF QueueRecords
  <2>3. Step(q, w)
    BY <1>22, <2>1
  <2>4. /\ queues' \in Seq(QueueRecords) /\ DOMAIN queues' = DOMAIN queues
        /\ queues'[q] = w /\ \A p \in DOMAIN queues : p # q => queues'[p] = queues[p]
    BY <1>6, <2>2, <2>3, StepFacts
  <2>5. PICK L \in Nat : L = Len(queues) /\ DOMAIN queues = 1..L
    BY <1>6, LenProperties
  <2>6. lane \in Seq(Nat) /\ q \in Nat /\ q # 0
    BY <1>6, <2>5 DEF InputTypes
  <2>7. lane' \in Seq(Nat)
    BY <1>22, <2>6, AppendProperties
  <2>8. InputTypes'
    BY <1>5, <1>22, <2>4, <2>7, SameLog DEF InputInvariant, InputTypes
  <2>9. JobKeeps
    BY <1>22, JobSame
  <2>10. Taken(w) = batch /\ Kept(w) = rest
    BY <1>4, <1>15, <2>2 DEF Taken, Kept
  <2>11. Due(q) = from
    <3>1. Taken(v) = <<>>
      BY <1>4 DEF Taken
    <3> QED
      BY <1>1, <1>7, <3>1, ConcatEmptySeq DEF Due
  <2>12. PartOf(Taken(w) \o Kept(w), Due(q))
    BY <1>7, <1>12, <2>10, <2>11, PartOfItself
  <2>13. QueuesInOrder' /\ NumbersAreGiven'
    BY <1>5, <2>2, <2>3, <2>8, <2>9, <2>12, QueueThins
  <2>14. LaneByAge'
    <3>1. ~In(lane, q)
      <4>1. In(lane, q) <=> queues[q].at \in {"lane", "write", "record"}
        BY LaneForm, Zenon DEF InputInvariant
      <4> QED
        BY <1>1, <1>4, <4>1
    <3>2. q = L
      <4>1. queue = 0 \/ queue = L
        BY <2>5 DEF InputInvariant, NewestTakesInput
      <4>2. q = queue
        BY <1>1, <1>4 DEF InputInvariant, NewestTakesInput
      <4> QED
        BY <2>6, <4>1, <4>2
    <3>3. ASSUME NEW i \in DOMAIN lane PROVE lane[i] < q
      <4>1. lane[i] \in 0..L
        BY <2>5 DEF InputInvariant, LaneByAge
      <4>2. lane[i] # q
        BY <3>1 DEF In
      <4> QED
        BY <3>2, <4>1, <4>2
    <3>4. \A p \in DOMAIN queues : IF p = q THEN queues'[p].at = "lane"
                                   ELSE queues'[p].at = queues[p].at
      BY <2>2, <2>4
    <3>5. q # Attach /\ life'.at = life.at
      BY <1>5, <2>6 DEF Attach
    <3> QED
      BY <1>22, <2>4, <2>6, <2>8, <3>1, <3>3, <3>4, <3>5, LaneGains
  <2>15. w.batch # <<>> /\ Mergeable(w.batch, Len(w.batch))
    <3>1. 1 \in 1..n
      BY <1>9
    <3>2. batch # <<>>
      BY <1>12, <3>1, EmptySeq
    <3>3. Mergeable(from, n)
      <4>1. CASE IsJob(Head(from))
        <5>1. n = 1
          BY <1>3, <4>1 DEF Merged
        <5>2. \A i \in 2..n : FALSE
          BY <5>1
        <5> QED
          BY <5>2 DEF Mergeable
      <4>2. CASE ~IsJob(Head(from))
        BY <1>3, <4>2 DEF Merged
      <4> QED
        BY <4>1, <4>2
    <3>4. ASSUME NEW i \in 2..n PROVE batch[i] = from[i] /\ batch[1] = from[1]
      <4>1. i \in 1..n
        BY <1>9
      <4> QED
        BY <1>12, <3>1, <4>1
    <3> QED
      BY <1>12, <2>2, <3>2, <3>3, <3>4 DEF Mergeable
  <2>16. PartOf(Kept(w), Kept(queues[q])) /\ PartOf(w.batch, Kept(queues[q]))
    BY <1>1, <1>19, <2>2, <2>10
  <2> QED
    BY <1>1, <1>5, <2>2, <2>3, <2>8, <2>9, <2>13, <2>14, <2>15, <2>16, OneQueue
<1> QED
  BY <1>3, <1>10, <1>13, <1>14, <1>16, <1>21, <1>22, Zenon
----------------------------------------------------------------------------
(* The write queue is stopped.                                             *)

QueuesStop ==
    /\ queue' = 0 /\ queues' \in Seq(QueueRecords) /\ DOMAIN queues' = DOMAIN queues
    /\ \A q \in DOMAIN queues :
          /\ queues'[q].at = queues[q].at /\ queues'[q].batch = queues[q].batch
          /\ queues'[q].channel = queues[q].channel /\ queues'[q].stopped
          /\ \/ queues'[q].carried = queues[q].carried
             \/ queues[q].at = "lane" /\ queues'[q].carried

LEMMA StopQueueFacts ==
    ASSUME InputInvariant, StopQueue
    PROVE  QueuesStop /\ \A q \in DOMAIN queues : queues'[q].carried = queues[q].carried
<1>1. queues \in Seq(QueueRecords) /\ queue' = 0
  BY DEF InputInvariant, InputTypes, StopQueue
<1>2. PICK L \in Nat : L = Len(queues) /\ DOMAIN queues = 1..L
  BY <1>1, LenProperties
<1>3. \A q \in DOMAIN queues : queues[q].stopped <=> q # queue
  BY DEF InputInvariant, NewestTakesInput
<1>4. CASE queue = 0
  <2>1. queues' = queues
    BY <1>4 DEF StopQueue
  <2>2. \A q \in DOMAIN queues : queues[q].stopped
    BY <1>2, <1>3, <1>4
  <2> QED
    BY <1>1, <2>1, <2>2 DEF QueuesStop
<1>5. CASE queue # 0
  <2>1. PICK n : n = queue
    OBVIOUS
  <2>2. n \in DOMAIN queues
    <3>1. queue = 0 \/ queue = L
      BY <1>2 DEF InputInvariant, NewestTakesInput
    <3>2. L # 0
      BY <1>5, <3>1
    <3> QED
      BY <1>2, <1>5, <2>1, <3>1, <3>2
  <2>3. PICK w : w = [queues[n] EXCEPT !.stopped = TRUE]
    OBVIOUS
  <2>4. queues[n] \in QueueRecords
    BY <1>1, <2>2, LenProperties, ElementOfSeq
  <2>5. /\ w \in QueueRecords /\ w.at = queues[n].at /\ w.batch = queues[n].batch
        /\ w.channel = queues[n].channel /\ w.carried = queues[n].carried /\ w.stopped
    BY <2>3, <2>4 DEF QueueRecords
  <2>6. Step(n, w)
    BY <1>5, <2>1, <2>3 DEF StopQueue, Step
  <2>7. /\ queues' \in Seq(QueueRecords) /\ DOMAIN queues' = DOMAIN queues
        /\ queues'[n] = w /\ \A p \in DOMAIN queues : p # n => queues'[p] = queues[p]
    BY <1>1, <2>2, <2>5, <2>6, StepFacts
  <2>8. ASSUME NEW q \in DOMAIN queues
        PROVE  /\ queues'[q].at = queues[q].at /\ queues'[q].batch = queues[q].batch
               /\ queues'[q].channel = queues[q].channel /\ queues'[q].stopped
               /\ queues'[q].carried = queues[q].carried
    <3>1. CASE q = n
      BY <2>5, <2>7, <3>1
    <3>2. CASE q # n
      BY <1>3, <2>1, <2>7, <3>2
    <3> QED
      BY <3>1, <3>2
  <2> QED
    BY <1>1, <2>7, <2>8 DEF QueuesStop
<1> QED
  BY <1>4, <1>5

LEMMA QueuesStopStep ==
    ASSUME InputInvariant, InputTypes', UNCHANGED <<runtime, made, stream, job, wire>>,
           QueuesStop, LaneByAge', AttachKeeps,
           \A q \in DOMAIN queues : ~Attached' /\ queues[q].at = "lane" /\ ~queues'[q].carried
               => ~Attached /\ ~queues[q].carried
    PROVE  InputInvariant'
<1>1. InputTypes /\ queues \in Seq(QueueRecords) /\ QueuesInOrder /\ NumbersAreGiven
  BY DEF InputInvariant, InputTypes
<1>2. /\ queue' = 0 /\ queues' \in Seq(QueueRecords) /\ DOMAIN queues' = DOMAIN queues
      /\ \A q \in DOMAIN queues :
          /\ queues'[q].at = queues[q].at /\ queues'[q].batch = queues[q].batch
          /\ queues'[q].channel = queues[q].channel /\ queues'[q].stopped
          /\ \/ queues'[q].carried = queues[q].carried
             \/ queues[q].at = "lane" /\ queues'[q].carried
  BY DEF QueuesStop
<1>3. /\ NumbersGrow /\ NamesAreNew' /\ RuntimeGoesOn /\ JobGoesOn
      /\ ChannelIsOwn' /\ TargetIsCurrent' /\ (life'.at = "attachOpen" => life'.runtime # 0)
  BY JobSame, StreamsSame, SteadyFacts
<1>4. NewestTakesInput'
  <2>1. \A q \in DOMAIN queues : q # 0
    BY <1>1, LenProperties
  <2> QED
    BY <1>2, <2>1 DEF NewestTakesInput
<1>5. BatchesFit'
  <2>1. ASSUME NEW p \in DOMAIN queues'
        PROVE  /\ queues'[p].at \in {"lane", "write", "record"} =>
                     queues'[p].batch # <<>> /\ Mergeable(queues'[p].batch, Len(queues'[p].batch))
               /\ queues'[p].at \in {"idle", "done"} => ~queues'[p].carried
    <3>1. /\ queues[p].at \in {"lane", "write", "record"} =>
                     queues[p].batch # <<>> /\ Mergeable(queues[p].batch, Len(queues[p].batch))
          /\ queues[p].at \in {"idle", "done"} => ~queues[p].carried
      BY <1>2 DEF InputInvariant, BatchesFit
    <3> QED
      BY <1>2, <3>1
  <2> QED
    BY <2>1 DEF BatchesFit, Mergeable, IsJob
<1>6. NoStaleKeys'
  <2>1. ASSUME NEW p \in DOMAIN queues', queues'[p].at \in {"write", "record"}, ~queues'[p].carried,
               NEW i \in DOMAIN queues'[p].batch
        PROVE  queues'[p].batch[i].typed = queues'[p].channel
    BY <1>2, <2>1 DEF InputInvariant, InputAtHome, NoStaleKeys
  <2> QED
    BY <2>1 DEF NoStaleKeys
<1>7. ASSUME ~Attached', NEW p \in DOMAIN queues', NEW s,
             \/ s = Kept(queues[p])'
             \/ s = queues'[p].batch /\ queues'[p].at = "lane" /\ ~queues'[p].carried
      PROVE  EveryAtHome(s)'
  <2>1. CASE s = Kept(queues[p])'
    <3>1. s = <<>>
      BY <1>2, <2>1 DEF Kept
    <3> QED
      BY <3>1 DEF EveryAtHome
  <2>2. CASE s = queues'[p].batch /\ queues'[p].at = "lane" /\ ~queues'[p].carried
    <3>1. ~Attached /\ s = queues[p].batch /\ queues[p].at = "lane" /\ ~queues[p].carried
      BY <1>2, <1>7, <2>2
    <3> QED
      BY <1>2, <1>3, <3>1, QueueStaysHome
  <2> QED
    BY <1>7, <2>1, <2>2
<1>8. InputAtHome'
  BY <1>3, <1>6, <1>7, HomeIsRight
<1>9. Thinned
  <2>1. ASSUME NEW p \in DOMAIN queues PROVE PartOf(Due(p)', Due(p))
    <3>1. PICK v : v = queues[p]
      OBVIOUS
    <3>2. PICK w : w = queues'[p]
      OBVIOUS
    <3>3. v \in QueueRecords
      BY <1>1, <3>1, LenProperties, ElementOfSeq
    <3>4. Taken(v) \in Seq(AnyRequests) /\ Kept(v) \in Seq(AnyRequests)
      BY <3>3, DueType
    <3>5. Taken(w) = Taken(v) /\ Kept(w) = <<>>
      BY <1>2, <3>1, <3>2 DEF Taken, Kept
    <3>6. Due(p)' = Taken(v) /\ Due(p) = Taken(v) \o Kept(v)
      BY <3>1, <3>2, <3>4, <3>5, ConcatEmptySeq DEF Due
    <3> QED
      BY <3>4, <3>6, PartOfConcat
  <2> QED
    BY <1>2, <2>1 DEF Thinned
<1>10. QueuesInOrder' /\ NumbersAreGiven'
  BY <1>1, <1>2, <1>3, <1>9, ThinnedKeepsOrder, ThinnedKeepsNumbers
<1> QED
  BY <1>3, <1>4, <1>5, <1>8, <1>10 DEF InputInvariant

\* Who stands in the lane does not change when queues are stopped.
LEMMA StoppedLane ==
    ASSUME InputInvariant, InputTypes', QueuesStop, UNCHANGED lane, life'.at \notin AttachSteps,
           life.at \notin AttachSteps
    PROVE  LaneByAge'
<1>1. /\ \A p \in DOMAIN queues :
                /\ In(lane, p) <=> queues[p].at \in {"lane", "write", "record"}
                /\ queues[p].at \in {"write", "record"} => Holds(p)
      /\ In(lane, Attach) <=> life.at \in AttachSteps
      /\ \A b : In(lane, b) => b = Attach \/ b \in DOMAIN queues
      /\ ByAge(lane)
  BY LaneForm, LaneMembers, Zenon DEF InputInvariant
<1>2. \A b : Holds(b)' <=> Holds(b)
  BY DEF Holds
<1>3. ASSUME NEW p \in DOMAIN queues'
      PROVE  /\ In(lane', p) <=> queues'[p].at \in {"lane", "write", "record"}
             /\ queues'[p].at \in {"write", "record"} => Holds(p)'
  BY <1>1, <1>2 DEF QueuesStop
<1> QED
  BY <1>1, <1>2, <1>3, LaneIsRight DEF QueuesStop

LEMMA CloseStopsQueueStep ==
    ASSUME InputInvariant, CloseStopsQueue
    PROVE  InputInvariant'
<1>1. UNCHANGED <<runtime, made, stream, job, wire, lane, logging>> /\ life.at = "closeQueue"
  BY DEF CloseStopsQueue, input
<1>2. QueuesStop /\ \A q \in DOMAIN queues : queues'[q].carried = queues[q].carried
  BY StopQueueFacts DEF CloseStopsQueue
<1>3. life'.at = "closeLog" /\ life' \in LifeRecords
  BY GoFacts DEF CloseStopsQueue
<1>4. InputTypes'
  BY <1>1, <1>2, <1>3, SameLog DEF InputInvariant, InputTypes, QueuesStop
<1>5. LaneByAge'
  BY <1>1, <1>2, <1>3, <1>4, StoppedLane DEF AttachSteps
<1>6. AttachKeeps /\ ~Attached
  BY <1>1, <1>3 DEF AttachKeeps, Attached
<1> QED
  BY <1>1, <1>2, <1>4, <1>5, <1>6, QueuesStopStep

LEMMA ShutdownStopsStep ==
    ASSUME InputInvariant, ShutdownStops
    PROVE  InputInvariant'
<1>1. UNCHANGED <<runtime, made, stream, job, wire, lane, logging, life>>
  BY DEF ShutdownStops, input
<1>2. QueuesStop /\ \A q \in DOMAIN queues : queues'[q].carried = queues[q].carried
  BY StopQueueFacts DEF ShutdownStops
<1>3. InputTypes'
  BY <1>1, <1>2, SameLog DEF InputInvariant, InputTypes, QueuesStop
<1>4. LaneByAge'
  <2>1. /\ \A p \in DOMAIN queues :
                /\ In(lane, p) <=> queues[p].at \in {"lane", "write", "record"}
                /\ queues[p].at \in {"write", "record"} => Holds(p)
        /\ In(lane, Attach) <=> life.at \in AttachSteps
        /\ life.at \in AttachSteps \ {"attachLane"} => Holds(Attach)
        /\ \A b : In(lane, b) => b = Attach \/ b \in DOMAIN queues
        /\ ByAge(lane)
    BY LaneForm, LaneMembers, Zenon DEF InputInvariant
  <2>2. \A b : Holds(b)' <=> Holds(b)
    BY <1>1 DEF Holds
  <2>3. ASSUME NEW p \in DOMAIN queues'
        PROVE  /\ In(lane', p) <=> queues'[p].at \in {"lane", "write", "record"}
               /\ queues'[p].at \in {"write", "record"} => Holds(p)'
    BY <1>1, <1>2, <2>1, <2>2 DEF QueuesStop
  <2>4. lane' = lane /\ life' = life /\ DOMAIN queues' = DOMAIN queues
    BY <1>1, <1>2 DEF QueuesStop
  <2> QED
    BY <1>3, <2>1, <2>2, <2>3, <2>4, LaneIsRight
<1>5. AttachKeeps /\ (~Attached' => ~Attached)
  BY <1>1, AttachSame DEF Attached
<1> QED
  BY <1>1, <1>2, <1>3, <1>4, <1>5, QueuesStopStep

LEMMA AttachEndsStep ==
    ASSUME InputInvariant, AttachEnds
    PROVE  InputInvariant'
<1>1. UNCHANGED <<runtime, made, stream, job, wire, logging>> /\ life.at = "attachQueue"
      /\ lane' = Tail(lane) /\ queue' = 0
  <2>1. /\ UNCHANGED <<input, job, logging, runtime, made, exit, wire, budget>>
        /\ life.at = "attachQueue" /\ lane' = Tail(lane) /\ queue' = 0
    BY Zenon DEF AttachEnds
  <2> QED
    BY <2>1 DEF input
<1>2. life'.at = "idle" /\ life' \in LifeRecords
  <2>1. Go("idle")
    BY Zenon DEF AttachEnds
  <2> QED
    BY <2>1, GoFacts
<1>3. queues \in Seq(QueueRecords)
  BY DEF InputInvariant, InputTypes
<1>4. PICK L \in Nat : L = Len(queues) /\ DOMAIN queues = 1..L
  BY <1>3, LenProperties
<1>5. DOMAIN queues' = 1..L
  <2>1. DOMAIN queues' = DOMAIN queues
    BY Zenon DEF AttachEnds
  <2> QED
    BY <1>4, <2>1, Zenon
<1>5a. \A q \in 1..L : queues'[q] = [queues[q] EXCEPT !.stopped = @ \/ q = queue,
                                                      !.carried = @ \/ queues[q].at = "lane"]
  BY <1>4, Zenon DEF AttachEnds
<1>6. ASSUME NEW q \in 1..L
      PROVE  /\ queues'[q] \in QueueRecords
             /\ queues'[q].at = queues[q].at /\ queues'[q].batch = queues[q].batch
             /\ queues'[q].channel = queues[q].channel
             /\ queues'[q].stopped = (queues[q].stopped \/ q = queue)
             /\ queues'[q].carried = (queues[q].carried \/ queues[q].at = "lane")
  <2>1. PICK v : v = queues[q]
    OBVIOUS
  <2>2. v \in QueueRecords
    BY <1>3, <1>4, <2>1, ElementOfSeq
  <2>3. PICK s \in BOOLEAN : s = (v.stopped \/ q = queue)
    BY Zenon
  <2>4. PICK c \in BOOLEAN : c = (v.carried \/ v.at = "lane")
    BY Zenon
  <2>5. queues'[q] = [v EXCEPT !.stopped = s, !.carried = c]
    BY <1>5a, <2>1, <2>3, <2>4, Zenon
  <2>6. PICK w : w = [v EXCEPT !.stopped = s, !.carried = c]
    OBVIOUS
  <2>7. /\ w \in QueueRecords /\ w.at = v.at /\ w.batch = v.batch /\ w.channel = v.channel
        /\ w.stopped = s /\ w.carried = c
    BY <2>2, <2>3, <2>4, <2>6 DEF QueueRecords
  <2> QED
    BY <2>1, <2>3, <2>4, <2>5, <2>6, <2>7, Zenon
<1>7. queues' \in Seq(QueueRecords)
  <2>1. queues' = [q \in DOMAIN queues' |-> queues'[q]]
    <3>1. queues' = [q \in DOMAIN queues |->
                       [queues[q] EXCEPT !.stopped = @ \/ q = queue,
                                         !.carried = @ \/ queues[q].at = "lane"]]
      BY Zenon DEF AttachEnds
    <3> QED
      BY <3>1, Zenon
  <2>2. queues' \in [1..L -> QueueRecords]
    BY <1>5, <1>6, <2>1
  <2> QED
    BY <1>4, <2>2
<1>8. QueuesStop
  <2>1. ASSUME NEW q \in 1..L
        PROVE  queues'[q].stopped
    BY <1>4, <1>6 DEF InputInvariant, NewestTakesInput
  <2>2. ASSUME NEW q \in 1..L
        PROVE  \/ queues'[q].carried = queues[q].carried
               \/ queues[q].at = "lane" /\ queues'[q].carried
    <3>1. queues'[q].carried = (queues[q].carried \/ queues[q].at = "lane")
      BY <1>6
    <3>2. queues[q].carried \in BOOLEAN
      <4>1. queues[q] \in QueueRecords
        BY <1>3, <1>4, ElementOfSeq
      <4> QED
        BY <4>1 DEF QueueRecords
    <3> QED
      BY <3>1, <3>2, Zenon
  <2>3. DOMAIN queues' = DOMAIN queues
    <3>1. DOMAIN queues = 1..L
      BY <1>4
    <3>2. DOMAIN queues' = 1..L
      BY <1>5
    <3> QED
      BY ONLY <3>1, <3>2
  <2>4. \A q \in DOMAIN queues :
          /\ queues'[q].at = queues[q].at /\ queues'[q].batch = queues[q].batch
          /\ queues'[q].channel = queues[q].channel /\ queues'[q].stopped
          /\ \/ queues'[q].carried = queues[q].carried
             \/ queues[q].at = "lane" /\ queues'[q].carried
    BY <1>4, <1>6, <2>1, <2>2, Zenon
  <2> QED
    BY <1>1, <1>7, <2>3, <2>4, Zenon DEF QueuesStop
<1>9. Holds(Attach)
  <2>1. life.at \in AttachSteps \ {"attachLane"} => Holds(Attach)
    BY LaneForm, Zenon DEF InputInvariant
  <2> QED
    BY <1>1, <2>1 DEF AttachSteps
<1>10. LaneWithout(Attach)
  BY <1>1, <1>9, LeavesFacts
<1>11. InputTypes'
  BY <1>1, <1>2, <1>7, <1>10, SameLog DEF InputInvariant, InputTypes, LaneWithout
<1>12. LaneByAge'
  <2>1. 0 \notin DOMAIN queues
    BY <1>4
  <2>2. DOMAIN queues' = DOMAIN queues
        /\ \A q \in DOMAIN queues : IF q = Attach THEN queues'[q].at \in {"idle", "done"}
                                    ELSE queues'[q].at = queues[q].at
    BY <1>8, <2>1 DEF Attach, QueuesStop
  <2>3. life'.at \notin AttachSteps
    BY <1>2 DEF AttachSteps
  <2> QED
    BY <1>10, <1>11, <2>2, <2>3, LaneLoses
<1>13. AttachKeeps
  BY <1>1, <1>2 DEF AttachKeeps
<1>14. \A q \in DOMAIN queues : queues[q].at = "lane" => queues'[q].carried
  BY <1>4, <1>6
<1> QED
  BY <1>1, <1>8, <1>11, <1>12, <1>13, <1>14, QueuesStopStep

-----------------------------------------------------------------------------
(* Every step.                                                             *)

LEMMA InputStarts == ASSUME Init PROVE InputInvariant
<1> USE DEF Init
<1>1. InputTypes
  BY InitType
<1>2. NewestTakesInput
  BY DEF NewestTakesInput
<1>3. LaneByAge
  BY DEF LaneByAge, InLane, AttachSteps
<1>4. BatchesFit
  BY DEF BatchesFit
<1>5. NamesAreNew
  BY NoStreamType DEF NamesAreNew, NoRuntime, NoJob
<1>6. NumbersAreGiven
  BY DEF NumbersAreGiven
<1>7. QueuesInOrder
  BY DEF QueuesInOrder, Ascends
<1>8. InputAtHome
  BY DEF InputAtHome, ChannelIsOwn, NoStaleKeys, NoRuntime, NoJob
<1> QED
  BY ONLY <1>1, <1>2, <1>3, <1>4, <1>5, <1>6, <1>7, <1>8 DEF InputInvariant

LEMMA InputStutters == ASSUME InputInvariant, UNCHANGED vars PROVE InputInvariant'
<1>1. UNCHANGED <<runtime, made, stream, queue, queues, lane, job, life, wire, logging>>
  BY DEF vars, logging
<1>2. InputTypes'
  BY <1>1, SameLog DEF InputInvariant, InputTypes
<1>3. JobKeeps /\ StreamsKeep /\ AttachKeeps
  BY <1>1, JobSame, StreamsSame, AttachSame
<1>4. LaneByAge'
  BY <1>1, SameLane
<1> QED
  BY <1>1, <1>2, <1>3, <1>4, SteadyStep DEF Attached

LEMMA AskedStep == ASSUME InputInvariant, Asked PROVE InputInvariant'
<1>1. ASSUME NEW w \in Windows, WindowStep(w) PROVE InputInvariant'
  <2>1. CASE BindStream(w)
    BY <2>1, BindStreamStep
  <2>2. CASE Type(w) \/ ResetStream(w) \/ CloseStream(w)
    BY <2>2, WindowSteps
  <2>3. ASSUME NEW seq \in 0..(stream[w].sent - 1), AcceptPacket(w, seq) PROVE InputInvariant'
    <3>1. stream[w].sent \in Nat
      BY DEF InputInvariant, InputTypes, StreamRecords
    <3>2. seq \in Nat
      BY <3>1
    <3> QED
      BY <2>3, <3>2, AcceptPacketStep
  <2> QED
    BY <1>1, <2>1, <2>2, <2>3, Zenon DEF WindowStep
<1>2. CASE OpenSession
  BY <1>2, ConnectedStep
<1>3. CASE CloseBegins
  BY <1>3, StopInputSteps
<1>4. CASE AttachBegins
  BY <1>4, AttachBeginsStep
<1>5. CASE BeginJob \/ CancelJob
  BY <1>5, QuietJobSteps
<1> QED
  BY <1>1, <1>2, <1>3, <1>4, <1>5, Zenon DEF Asked

LEMMA WorkerSteps ==
    ASSUME InputInvariant, NEW q \in DOMAIN queues, WorkerStep(q)
    PROVE  InputInvariant'
BY WorkerTakesStep, WorkerEndsStep, WorkerCapturesStep, WorkerWritesStep, WorkerRecordsStep, Zenon
   DEF WorkerStep

LEMMA LifeSteps == ASSUME InputInvariant, LifeStep PROVE InputInvariant'
BY CloseStopsQueueStep, CloseStopsLogStep, CloseRuntimeStep, AttachTakesLaneStep,
   AttachInstallsStep, StopInputSteps, AttachEndsStep, Zenon DEF LifeStep

LEMMA JobSteps == ASSUME InputInvariant, JobStep PROVE InputInvariant'
BY QuietJobSteps, JobSendsStep, Zenon DEF JobStep

LEMMA InputSteps == ASSUME InputInvariant, [Next]_vars PROVE InputInvariant'
<1>1. CASE UNCHANGED vars
  BY <1>1, InputStutters
<1>2. CASE Asked
  BY <1>2, AskedStep
<1>3. CASE Reconnects
  BY <1>3, ConnectedStep
<1>4. CASE ConnectionLost
  BY <1>4, ConnectionLostStep
<1>5. CASE LifeStep
  BY <1>5, LifeSteps
<1>6. CASE JobStep
  BY <1>6, JobSteps
<1>7. ASSUME NEW q \in DOMAIN queues, WorkerStep(q) PROVE InputInvariant'
  BY <1>7, WorkerSteps
<1>8. CASE (\E d \in DOMAIN deferreds : DeferredPersists(d)) \/ ShutdownClosesLog \/ ShutdownEnds
  BY <1>8, LogSteps
<1>9. CASE ShutdownStops
  BY <1>9, ShutdownStopsStep
<1> QED
  BY ONLY [Next]_vars, <1>1, <1>2, <1>3, <1>4, <1>5, <1>6, <1>7, <1>8, <1>9, Zenon DEF Next

\* The invariant is one of every behaviour.
LEMMA InputIsSound == Spec => []InputInvariant
<1>1. Init => InputInvariant
  BY InputStarts
<1>2. InputInvariant /\ [Next]_vars => InputInvariant'
  BY InputSteps
<1> QED
  BY <1>1, <1>2, PTL DEF Spec

-----------------------------------------------------------------------------
(* The command that output is marked with.                                 *)

Stages == {"capture", "write", "record"}
SenderRecords ==
    [kind : Commands!Kinds, bound : Nat, at : {"free", "lane", "done"} \cup Stages,
     id : Nat, to : Nat, late : BOOLEAN]

CommandTypes ==
    /\ mix \subseteq Commands!Kinds
    /\ link \in [id : Nat, lost : BOOLEAN] /\ links \in Nat
    /\ sender \in [Senders -> SenderRecords] /\ line \in Seq(Senders)
    /\ active \in Nat /\ last \in [id : Nat, to : Nat, late : BOOLEAN]

\* The lane is held by one call, and all others wait; only a command has an id.
OneSends ==
    /\ \A i, j \in DOMAIN line : i # j => line[i] # line[j]
    /\ \A i \in DOMAIN line :
          /\ sender[line[i]].at \in {"lane"} \cup Stages
          /\ i # 1 => sender[line[i]].at = "lane"
          /\ sender[line[i]].at = "lane" => sender[line[i]].id = 0
          /\ sender[line[i]].at \in Stages =>
                (sender[line[i]].id # 0 <=> sender[line[i]].kind = "command")

\* What was last sent is the active command, to the connection there is.
Marks == link.id = 0 \/ last.late \/ (last.id = active /\ last.to = link.id /\ ~link.lost)

\* What the call that holds the lane does to the active command.
HolderFits(w) ==
    /\ w.at = "lane" => Marks
    /\ w.at \in Stages => IF w.id = 0 THEN w.bound # 0 ELSE active = w.id
    /\ (w.at \in {"capture", "write"} /\ w.id = 0) => Marks
    /\ w.at = "write" =>
          /\ link.id = 0 \/ w.late \/ (w.to = link.id /\ ~link.lost)
          /\ w.id = 0 => w.to = w.bound
    /\ (w.at = "record" /\ w.id # 0) => Marks
    /\ (w.at = "record" /\ w.id = 0) =>
          link.id = 0 \/ last.late \/ (w.bound = link.id /\ ~link.lost)

\* An open that has not installed its connection finds at most a command
\* that has not been written yet.
ActiveFits ==
    /\ link.lost => link.id # 0
    /\ (active # 0 /\ line = <<>>) => Marks
    /\ (active # 0 /\ line # <<>>) => HolderFits(sender[Head(line)])
    /\ change = "open" =>
          /\ link.id = 0
          /\ active # 0 => /\ line # <<>>
                           /\ sender[Head(line)].at = "capture" /\ sender[Head(line)].id # 0

CommandInvariant == CommandTypes /\ OneSends /\ ActiveFits

LEMMA HolderFacts ==
    ASSUME CommandInvariant, NEW s \in Senders, Commands!Has(s)
    PROVE  /\ line # <<>> /\ Head(line) = s /\ sender[s] \in SenderRecords
           /\ sender[s].at \in {"lane"} \cup Stages
           /\ sender[s].at = "lane" => sender[s].id = 0
           /\ sender[s].at \in Stages => (sender[s].id # 0 <=> sender[s].kind = "command")
           /\ active # 0 => HolderFits(sender[s])
           /\ (active # 0 /\ change = "open") => sender[s].at = "capture" /\ sender[s].id # 0
<1>1. line # <<>> /\ Head(line) = s /\ line \in Seq(Senders) /\ sender[s] \in SenderRecords
  BY DEF CommandInvariant, CommandTypes, Commands!Has
<1>2. 1 \in DOMAIN line /\ line[1] = s
  BY <1>1
<1> QED
  BY <1>1, <1>2 DEF CommandInvariant, OneSends, ActiveFits

(* The holder of the lane goes on.                                         *)
LEMMA HolderGoes ==
    ASSUME CommandInvariant, NEW s \in Senders, Commands!Has(s),
           NEW w \in SenderRecords, Commands!Step(s, w),
           w.at \in Stages, w.id # 0 <=> w.kind = "command",
           UNCHANGED <<mix, link, links, change, line>>,
           active' \in Nat, last' \in [id : Nat, to : Nat, late : BOOLEAN],
           active' # 0 => HolderFits(w)',
           (active' # 0 /\ change = "open") => w.at = "capture" /\ w.id # 0
    PROVE  CommandInvariant'
<1>1. /\ line # <<>> /\ Head(line) = s /\ line \in Seq(Senders)
      /\ sender \in [Senders -> SenderRecords]
  BY HolderFacts DEF CommandInvariant, CommandTypes
<1>2. sender' = [sender EXCEPT ![s] = w]
  BY DEF Commands!Step
<1>3. /\ sender' \in [Senders -> SenderRecords] /\ sender'[s] = w
      /\ \A t \in Senders : t # s => sender'[t] = sender[t]
  BY <1>1, <1>2
<1>4. CommandTypes'
  BY <1>3 DEF CommandInvariant, CommandTypes
<1>5. OneSends'
  <2>1. ASSUME NEW i \in DOMAIN line
        PROVE  /\ line[i] \in Senders
               /\ i = 1 => line[i] = s
               /\ i # 1 => line[i] # s
    BY <1>1 DEF CommandInvariant, OneSends
  <2> QED
    BY <1>3, <2>1 DEF CommandInvariant, OneSends, Stages
<1>6. ActiveFits'
  <2>1. w.at # "lane"
    BY DEF Stages
  <2> QED
    BY <1>1, <1>3, <2>1 DEF CommandInvariant, ActiveFits
<1> QED
  BY <1>4, <1>5, <1>6 DEF CommandInvariant

(* The holder of the lane leaves it to the next.                           *)
LEMMA HolderEnds ==
    ASSUME CommandInvariant, NEW s \in Senders, Commands!Has(s), Commands!Done(s),
           UNCHANGED <<mix, link, links, change>>,
           active' \in Nat, last' \in [id : Nat, to : Nat, late : BOOLEAN],
           active' # 0 => Marks' /\ change # "open"
    PROVE  CommandInvariant'
<1>1. /\ line # <<>> /\ Head(line) = s /\ line \in Seq(Senders)
      /\ sender \in [Senders -> SenderRecords] /\ sender[s] \in SenderRecords
  BY HolderFacts DEF CommandInvariant, CommandTypes
<1>2. PICK w : w = [Commands!NoSender EXCEPT !.at = "done", !.id = sender[s].id]
  OBVIOUS
<1>3. w \in SenderRecords
  BY <1>1, <1>2 DEF SenderRecords, Commands!NoSender, Commands!Kinds
<1>4. sender' = [sender EXCEPT ![s] = w] /\ line' = Tail(line)
  BY <1>2 DEF Commands!Done
<1>5. /\ sender' \in [Senders -> SenderRecords]
      /\ \A t \in Senders : t # s => sender'[t] = sender[t]
  BY <1>1, <1>3, <1>4
<1>6. PICK n \in Nat : Len(line) = n /\ DOMAIN line = 1..n /\ n >= 1
  BY <1>1
<1>7. /\ line' \in Seq(Senders) /\ DOMAIN line' = 1..(n - 1)
      /\ \A i \in 1..(n - 1) : line'[i] = line[i + 1]
  BY <1>1, <1>4, <1>6
<1>8. ASSUME NEW i \in 1..(n - 1)
      PROVE  /\ line'[i] \in Senders /\ line'[i] # s
             /\ sender'[line'[i]].at = "lane" /\ sender'[line'[i]].id = 0
  <2>1. i + 1 \in DOMAIN line /\ 1 \in DOMAIN line /\ i + 1 # 1 /\ line[1] = s
    BY <1>1, <1>6
  <2>2. line[i + 1] # s /\ sender[line[i + 1]].at = "lane" /\ sender[line[i + 1]].id = 0
    BY <2>1 DEF CommandInvariant, OneSends
  <2>3. line[i + 1] \in Senders
    BY <1>1, <2>1
  <2> QED
    BY <1>5, <1>7, <2>2, <2>3
<1>9. CommandTypes'
  BY <1>5, <1>7 DEF CommandInvariant, CommandTypes
<1>10. OneSends'
  <2>1. ASSUME NEW i \in 1..(n - 1), NEW j \in 1..(n - 1), i # j
        PROVE  line'[i] # line'[j]
    <3>1. i + 1 \in DOMAIN line /\ j + 1 \in DOMAIN line /\ i + 1 # j + 1
      BY <1>6, <2>1
    <3> QED
      BY <1>7, <3>1 DEF CommandInvariant, OneSends
  <2> QED
    BY <1>7, <1>8, <2>1 DEF OneSends, Stages
<1>11. line' # <<>> => sender'[Head(line')].at = "lane"
  <2>1. ASSUME line' # <<>>
        PROVE  1 \in 1..(n - 1) /\ Head(line') = line'[1]
    BY <1>7, <2>1
  <2> QED
    BY <1>8, <2>1
<1>12. ActiveFits'
  BY <1>11 DEF CommandInvariant, ActiveFits, HolderFits, Stages
<1> QED
  BY <1>9, <1>10, <1>12 DEF CommandInvariant

LEMMA AskStep ==
    ASSUME CommandInvariant, NEW s \in Senders, NEW kind \in mix, NEW bound \in Nat,
           Commands!Ask(s, kind, bound)
    PROVE  CommandInvariant'
<1>1. /\ line \in Seq(Senders) /\ sender \in [Senders -> SenderRecords] /\ sender[s].at = "free"
      /\ UNCHANGED <<mix, link, links, change, active, last>>
  BY DEF CommandInvariant, CommandTypes, Commands!Ask, Commands!At
<1>2. PICK w : w = [Commands!NoSender EXCEPT !.kind = kind, !.bound = bound, !.at = "lane"]
  OBVIOUS
<1>3. w \in SenderRecords /\ w.at = "lane" /\ w.id = 0
  BY <1>2 DEF SenderRecords, Commands!NoSender, CommandInvariant, CommandTypes
<1>4. sender' = [sender EXCEPT ![s] = w] /\ line' = Append(line, s)
  BY <1>2 DEF Commands!Ask, Commands!Step
<1>5. /\ sender' \in [Senders -> SenderRecords] /\ sender'[s] = w
      /\ \A t \in Senders : t # s => sender'[t] = sender[t]
  BY <1>1, <1>3, <1>4
<1>6. PICK n \in Nat : Len(line) = n /\ DOMAIN line = 1..n
  BY <1>1
<1>7. /\ line' \in Seq(Senders) /\ DOMAIN line' = 1..(n + 1) /\ line'[n + 1] = s
      /\ \A i \in 1..n : line'[i] = line[i]
  BY <1>1, <1>4, <1>6
<1>8. ASSUME NEW i \in 1..n
      PROVE  line[i] \in Senders /\ line[i] # s /\ sender'[line[i]] = sender[line[i]]
  <2>1. line[i] \in Senders /\ sender[line[i]].at \in {"lane"} \cup Stages
    BY <1>1, <1>6 DEF CommandInvariant, OneSends
  <2> QED
    BY <1>1, <1>5, <2>1 DEF Stages
<1>9. CommandTypes'
  BY <1>1, <1>5, <1>7 DEF CommandInvariant, CommandTypes
<1>10. OneSends'
  <2>1. ASSUME NEW i \in 1..(n + 1), NEW j \in 1..(n + 1), i # j
        PROVE  line'[i] # line'[j]
    <3>1. (i \in 1..n \/ i = n + 1) /\ (j \in 1..n \/ j = n + 1)
      OBVIOUS
    <3> QED
      BY <1>6, <1>7, <1>8, <2>1, <3>1 DEF CommandInvariant, OneSends
  <2>2. ASSUME NEW i \in 1..(n + 1)
        PROVE  /\ sender'[line'[i]].at \in {"lane"} \cup Stages
               /\ i # 1 => sender'[line'[i]].at = "lane"
               /\ sender'[line'[i]].at = "lane" => sender'[line'[i]].id = 0
               /\ sender'[line'[i]].at \in Stages =>
                     (sender'[line'[i]].id # 0 <=> sender'[line'[i]].kind = "command")
    <3>1. CASE i = n + 1
      BY <1>3, <1>5, <1>7, <3>1 DEF Stages
    <3>2. CASE i \in 1..n
      BY <1>6, <1>7, <1>8, <3>2 DEF CommandInvariant, OneSends
    <3> QED
      BY <3>1, <3>2
  <2> QED
    BY <1>7, <2>1, <2>2 DEF OneSends
<1>11. Marks' <=> Marks
  BY <1>1 DEF Marks
<1>12. ActiveFits'
  <2>1. CASE line = <<>>
    <3>1. line' # <<>> /\ Head(line') = s
      BY <1>4, <2>1
    <3> QED
      BY <1>1, <1>3, <1>5, <1>11, <2>1, <3>1 DEF CommandInvariant, ActiveFits, HolderFits, Stages
  <2>2. CASE line # <<>>
    <3>1. 1 \in 1..n /\ line' # <<>> /\ Head(line') = Head(line) /\ Head(line) = line[1]
      BY <1>1, <1>6, <1>7, <2>2
    <3>2. sender'[Head(line')] = sender[Head(line)]
      BY <1>8, <3>1
    <3> QED
      BY <1>1, <1>11, <2>2, <3>1, <3>2 DEF CommandInvariant, ActiveFits, HolderFits
  <2> QED
    BY <2>1, <2>2
<1> QED
  BY <1>9, <1>10, <1>12 DEF CommandInvariant

(* What happens to the connection.                                         *)
LEMMA ConnectionChanges ==
    ASSUME CommandInvariant,
           \/ Commands!OpenBegins \/ Commands!OpenInstalls \/ Commands!CloseBegins
           \/ Commands!CloseRemoves \/ Commands!ReaderEnds \/ Commands!ReconnectInstalls
           \/ Commands!ReconnectGivesUp
    PROVE  CommandInvariant'
<1> USE DEF CommandInvariant
<1>1. CommandTypes /\ UNCHANGED <<mix, line, sender, last>>
  BY DEF Commands!OpenBegins, Commands!OpenInstalls, Commands!CloseBegins, Commands!CloseRemoves,
         Commands!ReaderEnds, Commands!ReconnectInstalls, Commands!ReconnectGivesUp
<1>2. OneSends'
  BY <1>1 DEF OneSends
<1>3. line # <<>> => sender[Head(line)].at \in {"lane"} \cup Stages
  <2>1. line # <<>> => 1 \in DOMAIN line /\ Head(line) = line[1]
    BY <1>1 DEF CommandTypes
  <2> QED
    BY <2>1 DEF OneSends
<1>4. CASE active' = 0 /\ link' \in [id : Nat, lost : BOOLEAN] /\ links' = links
           /\ (link'.lost => link'.id # 0) /\ (change' = "open" => link'.id = 0)
  BY <1>1, <1>2, <1>4 DEF CommandTypes, ActiveFits
<1>5. CASE Commands!OpenBegins
  <2>1. /\ active' = 0 /\ UNCHANGED <<link, links>> /\ link.id = 0
        /\ link \in [id : Nat, lost : BOOLEAN] /\ (link.lost => link.id # 0)
    BY <1>5 DEF Commands!OpenBegins, CommandTypes, ActiveFits
  <2> QED
    BY <1>4, <2>1
<1>6. CASE Commands!OpenInstalls
  <2>1. /\ change = "open" /\ change' = "none" /\ active' = active
        /\ links' = links + 1 /\ link' = [id |-> links + 1, lost |-> FALSE]
    BY <1>6 DEF Commands!OpenInstalls
  <2>2. CommandTypes'
    BY <1>1, <2>1 DEF CommandTypes
  <2>3. ActiveFits'
    BY <1>1, <2>1 DEF ActiveFits, HolderFits, Marks, Stages
  <2> QED
    BY <1>2, <2>2, <2>3
<1>7. CASE Commands!CloseBegins
  <2>1. active' = 0 /\ UNCHANGED <<link, links>> /\ change' = "close"
    BY <1>7 DEF Commands!CloseBegins
  <2> QED
    BY <1>4, <2>1 DEF CommandTypes, ActiveFits
<1>8. CASE Commands!CloseRemoves
  <2>1. /\ change' = "none" /\ link' = [id |-> 0, lost |-> FALSE] /\ UNCHANGED <<links, active>>
    BY <1>8 DEF Commands!CloseRemoves
  <2>2. CommandTypes'
    BY <1>1, <2>1 DEF CommandTypes
  <2>3. ActiveFits'
    BY <1>1, <1>3, <2>1 DEF ActiveFits, HolderFits, Marks, Stages
  <2> QED
    BY <1>2, <2>2, <2>3
<1>9. CASE Commands!ReaderEnds
  <2>1. /\ active' = 0 /\ UNCHANGED <<links, change>> /\ link.id # 0
        /\ link' = [id |-> 0, lost |-> FALSE] \/ link' = [link EXCEPT !.lost = TRUE]
    BY <1>9 DEF Commands!ReaderEnds
  <2>2. /\ link' \in [id : Nat, lost : BOOLEAN]
        /\ (link'.lost => link'.id # 0)
    <3>1. PICK l \in [id : Nat, lost : BOOLEAN] : l = link
      BY <1>1 DEF CommandTypes
    <3>2. PICK m : m = [l EXCEPT !.lost = TRUE]
      OBVIOUS
    <3>3. m \in [id : Nat, lost : BOOLEAN] /\ m.id = l.id
      BY <3>2
    <3>4. link' = [id |-> 0, lost |-> FALSE] \/ link' = m
      BY <2>1, <3>1, <3>2
    <3>5. l.id # 0
      BY <2>1, <3>1
    <3>6. CASE link' = m
      BY ONLY <3>3, <3>5, <3>6
    <3>7. CASE link' = [id |-> 0, lost |-> FALSE]
      BY ONLY <3>7
    <3> QED
      BY ONLY <3>4, <3>6, <3>7
  <2>3. change # "open"
    BY <2>1 DEF ActiveFits
  <2> QED
    BY <1>4, <2>1, <2>2, <2>3
<1>10. CASE Commands!ReconnectInstalls
  <2>1. /\ link.lost /\ links' = links + 1 /\ link' = [id |-> links + 1, lost |-> FALSE]
        /\ UNCHANGED <<change, active>>
    BY <1>10 DEF Commands!ReconnectInstalls
  <2>2. CommandTypes'
    BY <1>1, <2>1 DEF CommandTypes
  <2>3. ActiveFits'
    BY <1>1, <2>1 DEF ActiveFits, HolderFits, Marks, Stages
  <2> QED
    BY <1>2, <2>2, <2>3
<1>11. CASE Commands!ReconnectGivesUp
  <2>1. active' = 0 /\ link' = [id |-> 0, lost |-> FALSE] /\ UNCHANGED <<links, change>>
    BY <1>11 DEF Commands!ReconnectGivesUp
  <2> QED
    BY <1>4, <2>1
<1> QED
  BY <1>5, <1>6, <1>7, <1>8, <1>9, <1>10, <1>11

LEMMA NextIdFacts == ASSUME WorkAssumption PROVE Commands!NextId \in Nat /\ Commands!NextId # 0
<1>1. IsFiniteSet({s \in Senders : sender[s].id # 0})
  BY FS_Subset DEF WorkAssumption
<1>2. Cardinality({s \in Senders : sender[s].id # 0}) \in Nat
  BY <1>1, FS_CardinalityType
<1>3. Commands!NextId = 1 + Cardinality({s \in Senders : sender[s].id # 0})
  BY Zenon DEF Commands!NextId, Commands!Cardinality, Cardinality
<1> QED
  BY <1>2, <1>3

(* Under the lane the active command is forgotten, or replaced.            *)
LEMMA BeginSteps ==
    ASSUME WorkAssumption, CommandInvariant, NEW s \in Senders,
           \/ Commands!BeginText(s) \/ Commands!BeginBytes(s) \/ Commands!BeginKeys(s)
           \/ Commands!BeginOneKey(s) \/ Commands!BeginModem(s) \/ Commands!BeginCommand(s)
    PROVE  CommandInvariant'
<1>1. /\ Commands!Has(s) /\ sender[s].at = "lane"
      /\ UNCHANGED <<mix, link, links, change, line, last>>
  BY DEF Commands!BeginText, Commands!BeginBytes, Commands!BeginKeys, Commands!BeginOneKey,
         Commands!BeginModem, Commands!BeginCommand, Commands!Begin, Commands!At
<1>2. PICK v : v = sender[s]
  OBVIOUS
<1>3. /\ v \in SenderRecords /\ v.at = "lane" /\ v.id = 0
      /\ active # 0 => Marks
      /\ (active # 0 /\ change = "open") => FALSE
      /\ active \in Nat /\ last \in [id : Nat, to : Nat, late : BOOLEAN]
  BY <1>1, <1>2, HolderFacts DEF HolderFits, CommandInvariant, CommandTypes
<1>4. CASE Commands!BeginCommand(s)
  <2>1. PICK n \in Nat : n = Commands!NextId /\ n # 0
    BY NextIdFacts
  <2>2. PICK w : w = [v EXCEPT !.at = "capture", !.id = n]
    OBVIOUS
  <2>3. active' = n /\ Commands!Step(s, w) /\ v.kind = "command"
    BY <1>2, <1>4, <2>1, <2>2 DEF Commands!BeginCommand, Commands!Begin
  <2>4. w \in SenderRecords /\ w.at = "capture" /\ w.id = n /\ w.kind = "command"
    BY <1>3, <2>1, <2>2, <2>3 DEF SenderRecords, Stages
  <2>5. HolderFits(w)'
    BY <2>1, <2>3, <2>4 DEF HolderFits
  <2> QED
    BY <1>1, <1>3, <2>1, <2>3, <2>4, <2>5, HolderGoes DEF Stages
<1>5. CASE ~Commands!BeginCommand(s)
  <2>1. PICK w : w = [v EXCEPT !.at = "capture"]
    OBVIOUS
  <2>2. /\ Commands!Step(s, w) /\ v.kind # "command"
        /\ active' = 0 \/ (active' = active /\ v.bound # 0)
    BY <1>2, <1>5, <2>1 DEF Commands!BeginText, Commands!BeginBytes, Commands!BeginKeys,
       Commands!BeginOneKey, Commands!BeginModem, Commands!Begin, Commands!Begun, Commands!Forgets
  <2>3. /\ w \in SenderRecords /\ w.at = "capture" /\ w.id = 0 /\ w.kind # "command"
        /\ w.bound = v.bound
    BY <1>3, <2>1, <2>2 DEF SenderRecords, Stages
  <2>4. active' # 0 => HolderFits(w)'
    <3>1. active' # 0 => Marks'
      BY <1>1, <1>3, <2>2 DEF Marks
    <3> QED
      BY <2>2, <2>3, <3>1 DEF HolderFits, Stages
  <2> QED
    BY <1>1, <1>3, <2>2, <2>3, <2>4, HolderGoes DEF Stages
<1> QED
  BY <1>4, <1>5

LEMMA EndSteps ==
    ASSUME CommandInvariant, NEW s \in Senders, Commands!Refused(s) \/ Commands!AttachChannel(s)
    PROVE  CommandInvariant'
<1>1. /\ Commands!Has(s) /\ sender[s].at = "lane" /\ Commands!Done(s)
      /\ UNCHANGED <<mix, link, links, change>>
      /\ \/ UNCHANGED <<active, last>>
         \/ active' = 0 /\ last' = Commands!Nothing
  BY DEF Commands!Refused, Commands!AttachChannel, Commands!At
<1>2. /\ active # 0 => Marks
      /\ (active # 0 /\ change = "open") => FALSE
      /\ active \in Nat /\ last \in [id : Nat, to : Nat, late : BOOLEAN]
  BY <1>1, HolderFacts DEF HolderFits, CommandInvariant, CommandTypes
<1>3. active' # 0 => Marks'
  BY <1>1, <1>2 DEF Marks
<1>4. active' \in Nat /\ last' \in [id : Nat, to : Nat, late : BOOLEAN]
  <2>1. Commands!Nothing \in [id : Nat, to : Nat, late : BOOLEAN]
    BY DEF Commands!Nothing
  <2> QED
    BY <1>1, <1>2, <2>1
<1> QED
  BY <1>1, <1>2, <1>3, <1>4, HolderEnds

\* A call that fails leaves no command active but one sent before it.
LEMMA FailsStep ==
    ASSUME CommandInvariant, NEW s \in Senders, Commands!Has(s),
           sender[s].at \in {"capture", "write"}, Commands!Fails(s)
    PROVE  CommandInvariant'
<1>1. /\ Commands!Done(s) /\ UNCHANGED <<mix, link, links, change, last>>
      /\ active' = Commands!Withdrawn(s)
  BY DEF Commands!Fails
<1>2. PICK v : v = sender[s]
  OBVIOUS
<1>3. /\ v.at \in Stages /\ (active # 0 => HolderFits(v))
      /\ (active # 0 /\ change = "open") => v.id # 0
      /\ active \in Nat /\ last \in [id : Nat, to : Nat, late : BOOLEAN]
  BY <1>2, HolderFacts DEF Stages, CommandInvariant, CommandTypes
<1>4. active' = 0 \/ (active' = active /\ v.id = 0 /\ active # 0)
  BY <1>1, <1>2, <1>3 DEF Commands!Withdrawn, HolderFits
<1>5. active' # 0 => Marks' /\ change # "open"
  <2>1. active' # 0 => Marks
    BY <1>2, <1>3, <1>4 DEF HolderFits
  <2> QED
    BY <1>1, <1>3, <1>4, <2>1 DEF Marks
<1> QED
  BY <1>1, <1>3, <1>4, <1>5, HolderEnds

LEMMA CaptureStep ==
    ASSUME CommandInvariant, NEW s \in Senders, Commands!Capture(s)
    PROVE  CommandInvariant'
<1>1. Commands!Has(s) /\ sender[s].at = "capture"
  BY DEF Commands!Capture, Commands!At
<1>2. CASE ~(link.id # 0 /\ sender[s].bound \in {0, link.id})
  BY <1>1, <1>2, FailsStep DEF Commands!Capture
<1>3. CASE link.id # 0 /\ sender[s].bound \in {0, link.id}
  <2>1. PICK v : v = sender[s]
    OBVIOUS
  <2>2. PICK w : w = [v EXCEPT !.at = "write", !.to = link.id, !.late = link.lost]
    OBVIOUS
  <2>3. Commands!Step(s, w) /\ UNCHANGED <<mix, link, links, change, line, active, last>>
    BY <1>3, <2>1, <2>2 DEF Commands!Capture
  <2>4. /\ v \in SenderRecords /\ v.at = "capture" /\ (v.id # 0 <=> v.kind = "command")
        /\ active # 0 => HolderFits(v)
        /\ active \in Nat /\ last \in [id : Nat, to : Nat, late : BOOLEAN]
        /\ link \in [id : Nat, lost : BOOLEAN] /\ change # "open"
    BY <1>1, <1>3, <2>1, HolderFacts DEF Stages, CommandInvariant, CommandTypes, ActiveFits
  <2>5. /\ w \in SenderRecords /\ w.at = "write" /\ w.to = link.id /\ w.late = link.lost
        /\ w.id = v.id /\ w.kind = v.kind /\ w.bound = v.bound
    BY <2>2, <2>4 DEF SenderRecords, Stages
  <2>6. active' # 0 => HolderFits(w)'
    <3>1. Marks' <=> Marks
      BY <2>3 DEF Marks
    <3> QED
      BY <1>3, <2>1, <2>3, <2>4, <2>5, <3>1 DEF HolderFits, Stages
  <2> QED
    BY <1>1, <2>3, <2>4, <2>5, <2>6, HolderGoes DEF Stages
<1> QED
  BY <1>2, <1>3

LEMMA WriteStep ==
    ASSUME CommandInvariant, NEW s \in Senders, Commands!Write(s)
    PROVE  CommandInvariant'
<1>1. Commands!Has(s) /\ sender[s].at = "write"
  BY DEF Commands!Write, Commands!At
<1>2. CASE Commands!Fails(s)
  BY <1>1, <1>2, FailsStep
<1>3. CASE ~Commands!Fails(s)
  <2>1. PICK v : v = sender[s]
    OBVIOUS
  <2>2. PICK w : w = [v EXCEPT !.at = "record"]
    OBVIOUS
  <2>3. /\ Commands!Step(s, w) /\ UNCHANGED <<mix, link, links, change, line, active>>
        /\ last' = [id |-> v.id, to |-> v.to, late |-> v.late]
    BY <1>3, <2>1, <2>2 DEF Commands!Write
  <2>4. /\ v \in SenderRecords /\ v.at = "write" /\ (v.id # 0 <=> v.kind = "command")
        /\ active # 0 => HolderFits(v) /\ change # "open"
        /\ active \in Nat
    BY <1>1, <2>1, HolderFacts DEF Stages, CommandInvariant, CommandTypes
  <2>5. /\ w \in SenderRecords /\ w.at = "record"
        /\ w.id = v.id /\ w.kind = v.kind /\ w.bound = v.bound
        /\ last' \in [id : Nat, to : Nat, late : BOOLEAN]
    BY <2>2, <2>3, <2>4 DEF SenderRecords, Stages
  <2>6. active' # 0 => HolderFits(w)'
    BY <2>3, <2>4, <2>5 DEF HolderFits, Marks, Stages
  <2> QED
    BY <1>1, <2>3, <2>4, <2>5, <2>6, HolderGoes DEF Stages
<1> QED
  BY <1>2, <1>3

LEMMA RecordStep ==
    ASSUME CommandInvariant, NEW s \in Senders, Commands!Recorded(s)
    PROVE  CommandInvariant'
<1>1. /\ Commands!Has(s) /\ sender[s].at = "record" /\ Commands!Done(s)
      /\ UNCHANGED <<mix, link, links, change, last>>
  BY DEF Commands!Recorded, Commands!At
<1>2. PICK v : v = sender[s]
  OBVIOUS
<1>3. /\ v.at = "record" /\ (v.id # 0 <=> v.kind = "command")
      /\ active # 0 => HolderFits(v) /\ change # "open"
      /\ active \in Nat /\ last \in [id : Nat, to : Nat, late : BOOLEAN]
  BY <1>1, <1>2, HolderFacts DEF Stages, CommandInvariant, CommandTypes
<1>4. \/ active' = 0
      \/ active' = active /\ (v.bound = 0 \/ v.kind = "command")
      \/ active' = active /\ v.bound # link.id /\ (v.id = 0 \/ active # v.id)
  BY <1>2 DEF Commands!Recorded, Commands!Withdrawn
<1>5. active' # 0 => Marks
  BY <1>3, <1>4 DEF HolderFits, Marks, Stages
<1>6. active' # 0 => Marks' /\ change # "open"
  BY <1>1, <1>3, <1>4, <1>5 DEF Marks
<1> QED
  BY <1>1, <1>3, <1>4, <1>6, HolderEnds

LEMMA CommandSteps ==
    ASSUME WorkAssumption, CommandInvariant, Commands!Next
    PROVE  CommandInvariant'
<1>1. ASSUME NEW s \in Senders, Commands!Sends(s) PROVE CommandInvariant'
  BY <1>1, BeginSteps, EndSteps, CaptureStep, WriteStep, RecordStep, Zenon
     DEF Commands!Sends, Commands!RecordText, Commands!RecordControl
<1>2. ASSUME NEW s \in Senders, NEW kind \in mix, NEW bound \in {0} \cup ({link.id} \ {0}),
             Commands!Ask(s, kind, bound)
      PROVE  CommandInvariant'
  <2>1. bound \in Nat
    BY DEF CommandInvariant, CommandTypes
  <2> QED
    BY <1>2, <2>1, AskStep
<1>3. ASSUME \/ Commands!OpenBegins \/ Commands!OpenInstalls \/ Commands!CloseBegins
             \/ Commands!CloseRemoves \/ Commands!ReaderEnds \/ Commands!ReconnectInstalls
             \/ Commands!ReconnectGivesUp
      PROVE  CommandInvariant'
  BY <1>3, ConnectionChanges
<1> QED
  BY <1>1, <1>2, <1>3, Zenon DEF Commands!Next

LEMMA CommandStarts == ASSUME WorkAssumption, Commands!Init PROVE CommandInvariant
<1> USE DEF Commands!Init
<1>1. mix \subseteq Commands!Kinds
  BY DEF WorkAssumption
<1>2. Commands!NoSender \in SenderRecords
  BY DEF Commands!NoSender, SenderRecords, Commands!Kinds
<1>3. CommandTypes
  BY <1>1, <1>2 DEF CommandTypes, Commands!Nothing
<1> QED
  BY <1>3 DEF CommandInvariant, OneSends, ActiveFits

-----------------------------------------------------------------------------
(* The texts of triggers.                                                  *)

\* A text knows of whose output it came, and is bound to that connection.
Bound(t) == t = [of |-> t.conn, conn |-> t.conn, left |-> t.left, at |-> t.at]

TriggerInvariant ==
    /\ Events!TriggersStayHome
    /\ Len(sends) \in Nat /\ sends = [b \in 1..Len(sends) |-> sends[b]]
    /\ \A b \in 1..Len(sends) : Bound(sends[b])

LEMMA TriggersSame ==
    ASSUME TriggerInvariant, UNCHANGED <<sends, reached>>
    PROVE  TriggerInvariant'
BY DEF TriggerInvariant, Events!TriggersStayHome

\* A text goes on, and what it reached is its own connection.
LEMMA TextGoes ==
    ASSUME TriggerInvariant, NEW b \in DOMAIN sends, NEW t, Bound(t), t.conn = sends[b].conn,
           sends' = [sends EXCEPT ![b] = t],
           \/ reached' = reached
           \/ conn.id = sends[b].conn /\ reached' = reached \cup {<<sends[b].of, conn.id>>}
    PROVE  TriggerInvariant'
<1>1. PICK n \in Nat : n = Len(sends) /\ DOMAIN sends = 1..n
      /\ sends = [c \in 1..n |-> sends[c]] /\ b \in 1..n
  BY Zenon DEF TriggerInvariant
<1>2. /\ sends' = [c \in 1..n |-> sends'[c]] /\ sends'[b] = t
      /\ \A c \in 1..n : c # b => sends'[c] = sends[c]
  BY <1>1
<1>3. Len(sends') = n
  BY <1>1, <1>2
<1>4. Events!TriggersStayHome'
  <2>1. sends[b].of = sends[b].conn
    <3>1. PICK u : u = sends[b]
      OBVIOUS
    <3>2. Bound(u)
      BY <1>1, <3>1, Zenon DEF TriggerInvariant
    <3> QED
      BY <3>1, <3>2 DEF Bound
  <2> QED
    BY <2>1 DEF TriggerInvariant, Events!TriggersStayHome
<1>5. \A c \in 1..n : Bound(sends'[c])
  BY <1>1, <1>2, Zenon DEF TriggerInvariant
<1>6. Bound(sends[b])' <=> Bound(sends'[b])
  BY DEF Bound
<1> QED
  BY <1>1, <1>2, <1>3, <1>4, <1>5 DEF TriggerInvariant, Bound

LEMMA TextSteps ==
    ASSUME TriggerInvariant, NEW b \in DOMAIN sends, Events!SendStep(b)
    PROVE  TriggerInvariant'
<1>1. PICK u : u = sends[b]
  OBVIOUS
<1>2. Bound(u)
  BY <1>1, Zenon DEF TriggerInvariant
<1>3. CASE Events!WriteText(b)
  <2>1. PICK t : t = [u EXCEPT !.at = "record"]
    OBVIOUS
  <2>2. PICK f : f = [u EXCEPT !.at = "failed"]
    OBVIOUS
  <2>3. Bound(t) /\ t.conn = u.conn /\ Bound(f) /\ f.conn = u.conn
    BY <1>2, <2>1, <2>2 DEF Bound
  <2>4. \/ /\ sends' = [sends EXCEPT ![b] = t] /\ conn.id = sends[b].conn
           /\ reached' = reached \cup {<<sends[b].of, conn.id>>}
        \/ sends' = [sends EXCEPT ![b] = f] /\ reached' = reached
    BY <1>1, <1>3, <2>1, <2>2 DEF Events!WriteText
  <2> QED
    BY <1>1, <2>3, <2>4, TextGoes
<1>4. CASE Events!RecordText(b)
  <2>1. PICK left : left = u.left - 1
    OBVIOUS
  <2>2. PICK at : at = IF left = 0 THEN "done" ELSE "send"
    OBVIOUS
  <2>3. PICK t : t = [u EXCEPT !.left = left, !.at = at]
    OBVIOUS
  <2>4. PICK f : f = [u EXCEPT !.at = "failed"]
    OBVIOUS
  <2>5. Bound(t) /\ t.conn = u.conn
    <3>1. PICK c, l, a : u = [of |-> c, conn |-> c, left |-> l, at |-> a]
      BY <1>2 DEF Bound
    <3>2. t = [of |-> c, conn |-> c, left |-> left, at |-> at]
      BY <2>3, <3>1
    <3> QED
      BY <3>1, <3>2 DEF Bound
  <2>6. Bound(f) /\ f.conn = u.conn
    BY <1>2, <2>4 DEF Bound
  <2>7. /\ sends' = [sends EXCEPT ![b] = t] \/ sends' = [sends EXCEPT ![b] = f]
        /\ reached' = reached
    BY <1>1, <1>4, <2>1, <2>2, <2>3, <2>4 DEF Events!RecordText
  <2> QED
    BY <1>1, <2>5, <2>6, <2>7, TextGoes
<1>5. CASE Events!FailTexts(b)
  <2>1. PICK t : t = [u EXCEPT !.at = "done"]
    OBVIOUS
  <2>2. Bound(t) /\ t.conn = u.conn
    BY <1>2, <2>1 DEF Bound
  <2>3. sends' = [sends EXCEPT ![b] = t] /\ reached' = reached
    BY <1>1, <1>5, <2>1 DEF Events!FailTexts
  <2> QED
    BY <1>1, <2>2, <2>3, TextGoes
<1> QED
  BY <1>3, <1>4, <1>5 DEF Events!SendStep

\* A match starts a text that is bound to the connection that matched.
LEMMA TriggersStep ==
    ASSUME TriggerInvariant, NEW q, NEW match, Events!ApplyTriggers(q, match)
    PROVE  TriggerInvariant'
<1>1. reached' = reached
  BY Zenon DEF Events!ApplyTriggers
<1>2. CASE sends' = sends
  BY <1>1, <1>2, TriggersSame
<1>3. CASE sends' # sends
  <2>1. PICK c, t : /\ sends' = Append(sends, t)
                    /\ t = [of |-> c, conn |-> c, left |-> quota.texts, at |-> "send"]
    BY <1>3, Zenon DEF Events!ApplyTriggers, Events!Source
  <2>2. Bound(t)
    BY <2>1 DEF Bound
  <2>3. PICK n \in Nat : /\ n = Len(sends) /\ DOMAIN sends = 1..n
                         /\ sends = [b \in 1..n |-> sends[b]]
                         /\ \A b \in 1..n : Bound(sends[b])
    BY Zenon DEF TriggerInvariant
  <2>4. PICK S : S = {sends[b] : b \in 1..n} \cup {t}
    OBVIOUS
  <2>5. sends \in Seq(S) /\ t \in S
    BY <2>3, <2>4
  <2>6. /\ Len(sends') = n + 1 /\ DOMAIN sends' = 1..(n + 1)
        /\ sends' = [b \in 1..(n + 1) |-> sends'[b]]
        /\ sends'[n + 1] = t /\ \A b \in 1..n : sends'[b] = sends[b]
    BY <2>1, <2>3, <2>5
  <2>7. \A b \in 1..(n + 1) : Bound(sends'[b])
    <3>1. ASSUME NEW b \in 1..(n + 1)
          PROVE  b \in 1..n \/ b = n + 1
      OBVIOUS
    <3> QED
      BY <2>2, <2>3, <2>6, <3>1, Zenon
  <2> QED
    BY <1>1, <2>6, <2>7 DEF TriggerInvariant, Events!TriggersStayHome, Bound
<1> QED
  BY <1>2, <1>3

LEMMA EventSteps ==
    ASSUME TriggerInvariant, Events!Next
    PROVE  TriggerInvariant'
<1>1. ASSUME NEW q \in DOMAIN inqs, Events!WorkerStep(q) PROVE TriggerInvariant'
  <2>1. CASE \E match \in {"none", "text", "command"} : Events!ApplyTriggers(q, match)
    BY <2>1, TriggersStep
  <2>2. CASE \/ Events!TakeBatch(q) \/ Events!RecordEvent(q) \/ Events!AppendShards(q)
             \/ Events!Checkpoint(q) \/ Events!FinishQueue(q)
    <3>1. UNCHANGED Events!triggers
      BY <2>2, Zenon DEF Events!TakeBatch, Events!RecordEvent, Events!AppendShards,
         Events!Checkpoint, Events!FinishQueue
    <3> QED
      BY <3>1, TriggersSame DEF Events!triggers
  <2> QED
    BY <1>1, <2>1, <2>2, Zenon DEF Events!WorkerStep
<1>2. ASSUME NEW b \in DOMAIN sends, Events!SendStep(b) PROVE TriggerInvariant'
  BY <1>2, TextSteps
<1>3. ASSUME NEW b \in DOMAIN runs, Events!CommandEnds(b) PROVE TriggerInvariant'
  <2>1. UNCHANGED <<sends, reached>>
    BY <1>3, Zenon DEF Events!CommandEnds
  <2> QED
    BY <2>1, TriggersSame
<1>4. ASSUME NEW text \in BOOLEAN, Events!Receive(text) PROVE TriggerInvariant'
  <2>1. UNCHANGED Events!triggers
    BY <1>4, Zenon DEF Events!Receive
  <2> QED
    BY <2>1, TriggersSame DEF Events!triggers
<1>5. ASSUME \/ Events!Connects \/ Events!Disconnects \/ Events!DeleteProfile
             \/ Events!SinkWakes \/ Events!SinkWrites
             \/ Events!FlushBegins \/ Events!FlushTimesOut \/ Events!FlushSaves
             \/ Events!UpdateFails \/ Events!ExitBegins \/ Events!ExitShutsSink
             \/ Events!ExitSaves
      PROVE  TriggerInvariant'
  <2>1. UNCHANGED Events!triggers
    BY <1>5, Zenon DEF Events!Connects, Events!Disconnects, Events!DeleteProfile, Events!SinkWakes,
       Events!SinkWrites, Events!FlushBegins, Events!FlushTimesOut, Events!FlushSaves,
       Events!UpdateFails, Events!ExitBegins, Events!ExitShutsSink, Events!ExitSaves
  <2> QED
    BY <2>1, TriggersSame DEF Events!triggers
<1> QED
  BY ONLY Events!Next, <1>1, <1>2, <1>3, <1>4, <1>5, Zenon DEF Events!Next

LEMMA EventsStart == ASSUME Events!Init PROVE TriggerInvariant
BY DEF Events!Init, TriggerInvariant, Events!TriggersStayHome

-----------------------------------------------------------------------------
(* The terminal.                                                           *)

WorkInvariant ==
    /\ InputInvariant
    /\ work = "commands" => CommandInvariant
    /\ work = "events" => TriggerInvariant

LEMMA WorkStarts == ASSUME WorkInit PROVE WorkInvariant
BY WorkAssumption, InputStarts, CommandStarts, EventsStart DEF WorkInit, WorkInvariant

LEMMA WorkSteps == ASSUME WorkInvariant, [WorkNext]_workVars PROVE WorkInvariant'
<1>1. CASE work = "input" /\ Next /\ UNCHANGED <<work, commandVars, logVars, shardVars>>
  BY <1>1, InputSteps DEF WorkInvariant
<1>2. CASE work = "commands" /\ Commands!Next /\ UNCHANGED <<work, vars, logVars, shardVars>>
  BY <1>2, InputStutters, CommandSteps, WorkAssumption DEF WorkInvariant
<1>3. CASE work = "events" /\ Events!Next /\ UNCHANGED <<work, vars, commandVars, shardVars>>
  BY <1>3, InputStutters, EventSteps DEF WorkInvariant
<1>4. CASE UNCHANGED <<work, vars, commandVars, logVars>>
  <2>1. UNCHANGED work /\ UNCHANGED vars /\ UNCHANGED commandVars /\ UNCHANGED logVars
    BY <1>4
  <2>2. CommandInvariant => CommandInvariant'
    BY <2>1 DEF commandVars, CommandInvariant, CommandTypes, OneSends, ActiveFits, HolderFits, Marks
  <2>3. TriggerInvariant => TriggerInvariant'
    BY <2>1, TriggersSame DEF logVars
  <2> QED
    BY <2>1, <2>2, <2>3, InputStutters DEF WorkInvariant
<1> QED
  BY <1>1, <1>2, <1>3, <1>4, Zenon DEF WorkNext, workVars

LEMMA WorkInvariantHolds == WorkSpec => []WorkInvariant
<1>1. WorkInit => WorkInvariant
  BY WorkStarts
<1>2. WorkInvariant /\ [WorkNext]_workVars => WorkInvariant'
  BY WorkSteps
<1> QED
  BY <1>1, <1>2, PTL DEF WorkSpec

(* The keys of a stream reach the terminal in the order in which they were *)
(* typed and none twice, across batches that are set aside, queues that    *)
(* are stopped and replaced, and connections that change                   *)
(* (accept_inner, enqueue_interactive_payload_with_completion).            *)
THEOREM KeysStayInOrder == WorkSpec => []KeysInOrder
<1>1. WorkInvariant => KeysInOrder
  BY DEF WorkInvariant, InputInvariant, QueuesInOrder, Ascends, KeysInOrder
<1> QED
  BY <1>1, WorkInvariantHolds, PTL

(* What is typed reaches only the channel it was typed for, which is one   *)
(* of the connection, and the text of a trigger only the connection whose  *)
(* output matched (outbound_events.rs, tmux_runtime.rs,                    *)
(* send_trigger_text_inner).                                               *)
THEOREM InputReachesItsHome == WorkSpec => []InputStaysHome
<1>1. WorkInvariant => InputStaysHome
  BY DEF WorkInvariant, InputInvariant, InputAtHome, TriggerInvariant, InputStaysHome
<1> QED
  BY <1>1, WorkInvariantHolds, PTL

(* Output is marked only with the command that was last sent to its        *)
(* connection, whatever else sends, fails, is lost or replaced meanwhile   *)
(* (record_accepted_channel_bytes, clear_active_command_if).               *)
THEOREM OutputFollowsItsCommand == WorkSpec => []OutputIsAttributed
<1>1. WorkInvariant => OutputIsAttributed
  BY DEF WorkInvariant, CommandInvariant, ActiveFits, Marks, OutputIsAttributed,
         Commands!OutputIsAttributed
<1> QED
  BY <1>1, WorkInvariantHolds, PTL
=============================================================================
