------------------------- MODULE SessionKindsProofs -------------------------
(***************************************************************************)
(* Proofs about SessionKinds, for any number of opens, runtimes, writers   *)
(* and settings: serial, TCP and shell sessions each have an inductive     *)
(* invariant that says who owns a handle, a task or a child at every step  *)
(* of a command, and the composition has the invariant of its kind.        *)
(***************************************************************************)
EXTENDS SessionKinds, TLAPS

-----------------------------------------------------------------------------
(* Serial sessions: the inductive invariant.                                *)

\* The variables that a step reads by an index, and what an index may be.
SerialTypes ==
    /\ made \in 0 .. MaxRuntimes
    /\ serial \in 0 .. made
    /\ fresh \in 0 .. made
    /\ closed \subseteq 1 .. made /\ 0 \notin writer
    /\ prepare \in [Attempts -> {"none", "queued", "opening", "holding", "ready", "failed"}]
    /\ reader \in [Runtimes -> {"none", "gate", "reading", "draining",
                                 "reconnecting", "released", "disconnecting"}]
    /\ reconnect \in [Runtimes -> {"none", "waiting", "trying", "opened", "spawned"}]
    /\ successor \in [Runtimes -> 0 .. made]
    /\ write \in [Writers -> {"idle", "registered", "captured", "driver"}]
    /\ target \in [Writers -> 0 .. made]

\* A task whose open has ended is past the point where it could start one, and at
\* most one task is under way.
PrepareFits ==
    /\ \A a \in Attempts :
         /\ prepare[a] # "none" => a = opener
         /\ prepare[a] \in {"queued", "ready", "failed"} => life = "opening"
         /\ prepare[a] = "queued" => ~cancelled
    /\ life = "tail" \/ quiet => \A a \in Attempts : prepare[a] = "none"

\* A thread that is not there holds nothing, and a handle that a reconnect has
\* opened belongs to a runtime of its own.
HandlesFit ==
    /\ \A r \in Runtimes :
         /\ successor[r] # 0 <=> reconnect[r] \in {"opened", "spawned"}
         /\ reconnect[r] # "none" => reader[r] = "none"
         /\ made < r => reader[r] = "none" /\ reconnect[r] = "none"
         /\ successor[r] # 0 =>
              /\ reader[successor[r]] = IF reconnect[r] = "spawned" THEN "gate" ELSE "none"
              /\ reconnect[successor[r]] = "none"
              /\ serial # successor[r] /\ successor[r] \notin closed
              /\ \A q \in Runtimes \ {r} : successor[q] # successor[r]
    /\ \A w \in Writers : write[w] \in {"idle", "registered"} => target[w] = 0

\* No thread of the session holds a handle or could register a runtime.
NoThreads == \A r \in Runtimes : reader[r] = "none" /\ reconnect[r] = "none"
Still ==
    /\ serial = 0
    /\ NoThreads
    /\ \A w \in Writers : write[w] \in {"idle", "registered"}

\* What a command under the lane relies on.
LaneFits ==
    /\ life \in {"free"} \cup OpenSteps \cup CloseSteps
    /\ life \in {"opening", "prepared", "registered", "tail"} \/ quiet => Still
    /\ life \in {"waiting", "failed"} => serial = 0
    /\ life \in {"inserted", "spawned"} =>
         /\ fresh # 0 /\ serial \in {0, fresh}
         /\ \A r \in Runtimes :
              /\ reconnect[r] = "none"
              /\ reader[r] = IF life = "spawned" /\ r = fresh THEN "gate" ELSE "none"
    /\ life \in OpenSteps => ~barrier
    /\ quiet => status = "Disconnected" /\ life \in {"free"} \cup CloseSteps

\* After a shutdown has drained the registry, only an install that was under way
\* can register a runtime, and it takes it out again.
ShutdownFits ==
    /\ shutdown \in {"waiting", "released", "overdue"} =>
         serial = 0 \/ (serial = fresh /\ life = "inserted")
    /\ shutdown = "released" => Still /\ life \notin {"inserted", "spawned"}

SerialInv == SerialTypes /\ PrepareFits /\ HandlesFit /\ LaneFits /\ ShutdownFits

\* A registered runtime is in the hands of the one thread that its status tells.
Served(r) ==
    /\ r \notin closed
    /\ \/ /\ status = "Connected"
          /\ reader[r] \in {"reading", "draining"}
          /\ reconnect[r] = "none"
       \/ /\ status = "Reconnecting"
          /\ \/ reader[r] \in {"reconnecting", "released"} /\ reconnect[r] = "none"
             \/ reader[r] = "none" /\ reconnect[r] # "none"
       \/ /\ status = "Disconnected"
          /\ reader[r] = "disconnecting"
          /\ reconnect[r] = "none"

ServedInv ==
    ~ShuttingDown =>
        /\ serial \in closed => life = "closing"
        /\ life \in {"inserted", "spawned"} => serial = fresh
        /\ life \in {"free", "installed"} =>
             /\ serial # 0 => Served(serial) /\ ~barrier
             /\ serial = 0 => status \notin {"Connected", "Reconnecting"}

\* A runtime with a thread has been made.
LEMMA ThreadsAreMade ==
    ASSUME SerialTypes, HandlesFit, NEW r \in Runtimes, reader[r] # "none" \/ reconnect[r] # "none"
    PROVE  r \in 1 .. made
BY SerialAssumption DEF SerialTypes, HandlesFit, Runtimes

\* What leaves the registry closes its own runtime and no other.
LEMMA StopTypes ==
    ASSUME SerialTypes, NEW r \in 0 .. made, StopRuntime(r)
    PROVE  /\ made' = made
           /\ serial' \in 0 .. made' /\ serial' \in {serial, 0} /\ (serial' # r \/ r = 0)
           /\ closed' \subseteq 1 .. made' /\ closed' = closed \cup ({r} \ {0})
           /\ 0 \notin writer'
BY SerialAssumption DEF SerialTypes, StopRuntime, NoRuntime

\* A step of a reconnect thread is a step of that thread.
LEMMA GotoTypes ==
    ASSUME SerialTypes, made' \in {made, made + 1}, NEW r \in Runtimes,
           NEW s \in {"none", "waiting", "trying", "opened", "spawned"},
           NEW p, NEW opened \in 0 .. made', Goto(r, s, p, opened)
    PROVE  /\ reconnect' \in [Runtimes -> {"none", "waiting", "trying", "opened", "spawned"}]
           /\ successor' \in [Runtimes -> 0 .. made']
           /\ reconnect'[r] = s /\ successor'[r] = opened
           /\ \A q \in Runtimes \ {r} : reconnect'[q] = reconnect[q] /\ successor'[q] = successor[q]
<1>1. reconnect' = [reconnect EXCEPT ![r] = s] /\ successor' = [successor EXCEPT ![r] = opened]
    BY DEF Goto
<1>2. successor \in [Runtimes -> 0 .. made'] /\ made \in Nat
    BY SerialAssumption DEF SerialTypes
<1> QED
    BY <1>1, <1>2 DEF SerialTypes

\* A step of a write is a step of that write.
LEMMA WriteTypes ==
    ASSUME SerialTypes, made' = made, NEW w \in Writers,
           NEW s \in {"idle", "registered", "captured", "driver"}, NEW r \in 0 .. made,
           WriteStep(w, s, r)
    PROVE  /\ write' \in [Writers -> {"idle", "registered", "captured", "driver"}]
           /\ target' \in [Writers -> 0 .. made']
           /\ write'[w] = s /\ target'[w] = r
           /\ \A v \in Writers \ {w} : write'[v] = write[v] /\ target'[v] = target[v]
<1>1. write' = [write EXCEPT ![w] = s] /\ target' = [target EXCEPT ![w] = r]
    BY DEF WriteStep
<1> QED
    BY <1>1 DEF SerialTypes

\* The result of a blocking task is one of its own.
LEMMA PrepareTypes ==
    ASSUME SerialTypes, NEW a \in Attempts, Preparing(a)
    PROVE  prepare' \in [Attempts -> {"none", "queued", "opening", "holding", "ready", "failed"}]
<1>1. \E s \in {"none", "opening", "holding", "ready", "failed"} : prepare' = [prepare EXCEPT ![a] = s]
    BY Zenon DEF Preparing, PrepareBegins, PrepareOpens, PrepareReturns, Result
<1> QED
    BY <1>1 DEF SerialTypes

\* Where a reconnect thread goes on, and with which runtime.
LEMMA ReconnectGoes ==
    ASSUME SerialTypes, NEW r \in Runtimes, Reconnecting(r)
    PROVE  /\ made' \in {made, made + 1} /\ made' \in 0 .. MaxRuntimes
           /\ \E s \in {"none", "waiting", "trying", "opened", "spawned"}, opened \in 0 .. made' :
                \E p : Goto(r, s, p, opened)
<1> USE SerialAssumption DEF SerialTypes, Ends, Retries, NoRuntime
<1>1. ASSUME ReconnectWaits(r) PROVE made' = made /\ \/ Goto(r, "none", None, 0)
                                                      \/ Goto(r, "trying", profile, 0)
    BY <1>1 DEF ReconnectWaits, StopDisabled, StopRuntime, runtimeVars
<1>2. ASSUME ReconnectOpens(r)
      PROVE  \/ made' = made /\ Goto(r, "none", None, 0)
             \/ made' = made + 1 /\ made < MaxRuntimes /\ Goto(r, "opened", attempt[r], made + 1)
    BY <1>2 DEF ReconnectOpens
<1>3. ASSUME ReconnectOpenFails(r) PROVE made' = made /\ \/ Goto(r, "none", None, 0)
                                                          \/ Goto(r, "waiting", None, 0)
    BY <1>3 DEF ReconnectOpenFails, StopDisabled, StopRuntime, runtimeVars
<1>4. ASSUME ReconnectSpawns(r) PROVE made' = made /\ \/ Goto(r, "none", None, 0)
                                                       \/ Goto(r, "spawned", attempt[r], successor[r])
    BY <1>4 DEF ReconnectSpawns, FailInstall, StopRuntime, runtimeVars
<1>5. ASSUME ReconnectInstalls(r) PROVE made' = made /\ Goto(r, "none", None, 0)
    BY <1>5 DEF ReconnectInstalls
<1>6. ASSUME ReconnectRefused(r) PROVE made' = made /\ \/ Goto(r, "none", None, 0)
                                                        \/ Goto(r, "waiting", None, 0)
    BY <1>6 DEF ReconnectRefused, StopDisabled, FailInstall, StopRuntime, runtimeVars
<1>7. made \in 0 .. MaxRuntimes /\ successor[r] \in 0 .. made
    OBVIOUS
<1>8. CASE made' = made /\ \E s \in {"none", "waiting"} : Goto(r, s, None, 0)
    BY <1>7, <1>8
<1> QED
    BY <1>1, <1>2, <1>3, <1>4, <1>5, <1>6, <1>7, <1>8 DEF Reconnecting

\* What a reconnect thread does to the registry and to the readers.
LEMMA ReconnectChanges ==
    ASSUME SerialTypes, HandlesFit, NEW r \in Runtimes, Reconnecting(r)
    PROVE  /\ \/ serial' = serial /\ closed' = closed /\ writer' = writer
              \/ StopRuntime(r)
              \/ reconnect[r] = "spawned" /\ serial' = successor[r] /\ closed' = closed
                 /\ writer' = writer \cup {successor[r]}
           /\ \/ reader' = reader
              \/ \E x \in {"none", "gate", "reading"} : reader' = [reader EXCEPT ![successor[r]] = x]
<1> USE DEF runtimeVars
<1>1. ASSUME ReconnectWaits(r) PROVE reader' = reader /\ (UNCHANGED runtimeVars \/ StopRuntime(r))
    BY <1>1 DEF ReconnectWaits, StopDisabled
<1>2. ASSUME ReconnectOpens(r) PROVE reader' = reader /\ serial' = serial /\ closed' = closed /\ writer' = writer
    BY <1>2 DEF ReconnectOpens
<1>3. ASSUME ReconnectOpenFails(r) PROVE reader' = reader /\ (UNCHANGED runtimeVars \/ StopRuntime(r))
    BY <1>3 DEF ReconnectOpenFails, StopDisabled
<1>4. ASSUME ReconnectSpawns(r)
      PROVE  /\ UNCHANGED runtimeVars \/ StopRuntime(r)
             /\ reader' = reader \/ reader' = [reader EXCEPT ![successor[r]] = "gate"]
    BY <1>4 DEF ReconnectSpawns, FailInstall
<1>5. ASSUME ReconnectInstalls(r)
      PROVE  /\ reconnect[r] = "spawned" /\ serial' = successor[r] /\ closed' = closed
             /\ writer' = writer \cup {successor[r]}
             /\ reader' = [reader EXCEPT ![successor[r]] = "reading"]
    BY <1>5 DEF ReconnectInstalls
<1>6. ASSUME ReconnectRefused(r)
      PROVE  /\ UNCHANGED runtimeVars \/ StopRuntime(r)
             /\ reader' = [reader EXCEPT ![successor[r]] = "none"]
    BY <1>6 DEF ReconnectRefused, StopDisabled, FailInstall
<1> QED
    BY <1>1, <1>2, <1>3, <1>4, <1>5, <1>6 DEF Reconnecting

\* Where a write goes on, and with which runtime.
LEMMA WriteGoes ==
    ASSUME SerialTypes, NEW w \in Writers, Writing(w)
    PROVE  \/ WriteStep(w, "idle", 0) \/ WriteStep(w, "registered", 0)
           \/ WriteStep(w, "captured", serial) /\ serial # 0
           \/ WriteStep(w, "driver", target[w]) /\ write[w] = "captured"
BY DEF Writing, WriteRegisters, WriteCaptures, WriteEnters, WriteReturns, LinesApplied,
       NoRuntime, SerialTypes

\* The threads keep the types: a reconnect, a write.
LEMMA ReconnectingTypes ==
    ASSUME SerialTypes, HandlesFit, NEW r \in Runtimes, Reconnecting(r)
    PROVE  SerialTypes'
<1>1. /\ made' \in {made, made + 1} /\ made' \in 0 .. MaxRuntimes /\ made \in Nat
      /\ UNCHANGED <<fresh, prepare, write, target>>
    BY ReconnectGoes, SerialAssumption
       DEF Reconnecting, SerialTypes, laneVars, writeVars
<1>2. PICK s \in {"none", "waiting", "trying", "opened", "spawned"}, opened \in 0 .. made' :
         \E p : Goto(r, s, p, opened)
    BY ReconnectGoes
<1>3. /\ reconnect' \in [Runtimes -> {"none", "waiting", "trying", "opened", "spawned"}]
      /\ successor' \in [Runtimes -> 0 .. made']
    BY <1>1, <1>2, GotoTypes
<1>4. r \in 1 .. made
    <2>1. reconnect[r] # "none"
        BY DEF Reconnecting, ReconnectWaits, ReconnectOpens, ReconnectOpenFails, ReconnectSpawns,
               ReconnectInstalls, ReconnectRefused
    <2> QED
        BY <2>1, ThreadsAreMade
<1>5. serial' \in 0 .. made' /\ closed' \subseteq 1 .. made' /\ 0 \notin writer'
    <2>1. CASE serial' = serial /\ closed' = closed /\ writer' = writer
        BY <1>1, <2>1 DEF SerialTypes
    <2>2. CASE StopRuntime(r)
        BY <1>1, <1>4, <2>2, StopTypes
    <2>3. CASE /\ reconnect[r] = "spawned" /\ serial' = successor[r] /\ closed' = closed
               /\ writer' = writer \cup {successor[r]}
        BY <1>1, <2>3 DEF SerialTypes, HandlesFit
    <2> QED
        BY <2>1, <2>2, <2>3, ReconnectChanges
<1>6. reader' \in [Runtimes -> {"none", "gate", "reading", "draining",
                                 "reconnecting", "released", "disconnecting"}]
    BY ReconnectChanges DEF SerialTypes
<1> QED
    BY <1>1, <1>3, <1>5, <1>6 DEF SerialTypes

\* A write touches neither the registry nor a thread.
LEMMA WritingTypes ==
    ASSUME SerialTypes, NEW w \in Writers, Writing(w)
    PROVE  SerialTypes'
<1>1. UNCHANGED <<serial, made, closed, writer, fresh, prepare, reader, reconnect, successor>>
    BY DEF Writing, runtimeVars, laneVars, reconnectVars
<1>2. /\ write' \in [Writers -> {"idle", "registered", "captured", "driver"}]
      /\ target' \in [Writers -> 0 .. made']
    <2>1. 0 \in 0 .. made /\ serial \in 0 .. made /\ target[w] \in 0 .. made
        BY DEF SerialTypes
    <2> QED
        BY <1>1, <2>1, WriteGoes, WriteTypes
<1> QED
    BY <1>1, <1>2 DEF SerialTypes

\* Readers of a runtime: StopRuntime, or its own flag and handles.
LEMMA ReadingTypes ==
    ASSUME SerialTypes, HandlesFit, NEW r \in Runtimes, Reading(r)
    PROVE  SerialTypes'
<1> USE DEF NoRuntime
<1>1. /\ UNCHANGED <<made, fresh, prepare, write, target, successor>> /\ r \in 1 .. made
      /\ made \in 0 .. MaxRuntimes
    <2>1. reader[r] # "none"
        BY DEF Reading, ReaderStops, ReaderTransition, ReaderReleases, ReaderReconnects,
               ReaderDisconnects
    <2>2. r \in 1 .. made
        BY <2>1, ThreadsAreMade
    <2>3. StopRuntime(r) => made' = made
        BY DEF StopRuntime
    <2> QED
        BY <2>2, <2>3 DEF Reading, ReaderStops, ReaderTransition, ReaderReleases, ReaderReconnects,
               ReaderDisconnects, laneVars, writeVars, reconnectVars, runtimeVars, SerialTypes
<1>2. \E x \in {"none", "draining", "reconnecting", "released", "disconnecting"} :
         reader' = [reader EXCEPT ![r] = x]
    BY Zenon DEF Reading, ReaderStops, ReaderTransition, ReaderReleases, ReaderReconnects,
           ReaderDisconnects
<1>3. reconnect' \in [Runtimes -> {"none", "waiting", "trying", "opened", "spawned"}]
    BY DEF Reading, ReaderStops, ReaderTransition, ReaderReleases, ReaderReconnects,
           ReaderDisconnects, reconnectVars, SerialTypes
<1>4. \/ StopRuntime(r)
      \/ /\ serial' = serial /\ closed' \in {closed, closed \cup {r}}
         /\ writer' \in {writer, writer \ {r}}
    BY DEF Reading, ReaderStops, ReaderTransition, ReaderReleases, ReaderReconnects,
           ReaderDisconnects, runtimeVars
<1>5. serial' \in 0 .. made' /\ closed' \subseteq 1 .. made' /\ 0 \notin writer'
    <2>1. CASE StopRuntime(r)
        BY <1>1, <2>1, StopTypes
    <2> QED
        BY <1>1, <1>4, <2>1 DEF SerialTypes
<1>6. reader' \in [Runtimes -> {"none", "gate", "reading", "draining",
                                 "reconnecting", "released", "disconnecting"}]
    BY <1>2 DEF SerialTypes
<1> QED
    BY <1>1, <1>3, <1>5, <1>6 DEF SerialTypes

\* Steps that leave all of these variables alone.
LEMMA SerialTypesRest ==
    ASSUME SerialTypes,
           UNCHANGED <<serial, made, closed, writer, fresh, prepare, reader, reconnect, successor,
                       write, target>>
    PROVE  SerialTypes'
BY DEF SerialTypes

\* Every step keeps the types.
LEMMA SerialTypesStep ==
    ASSUME SerialTypes, HandlesFit, LaneFits, [Next]_vars
    PROVE  SerialTypes'
<1> USE SerialAssumption DEF HandlesFit, LaneFits, storeVars, runtimeVars, workerVars,
        laneVars, reconnectVars, writeVars, deviceVars, threadVars, NoRuntime
<1>1. ASSUME NEW a \in Attempts, Open(a) PROVE SerialTypes'
  BY <1>1 DEF SerialTypes, Open
<1>2. ASSUME NEW a \in Attempts, Preparing(a) PROVE SerialTypes'
  BY <1>2, PrepareTypes DEF Preparing, SerialTypes
<1>3. ASSUME CancelOpen \/ CloseIdle \/ CloseTimeout \/ CloseReturns \/ CleanupObserves \/ CleanupEnds
      PROVE SerialTypes'
  BY <1>3, SerialTypesRest DEF CancelOpen, CloseIdle, CloseTimeout, CloseReturns, CleanupObserves, CleanupEnds
<1>4. ASSUME Prepared PROVE SerialTypes'
  BY <1>4 DEF SerialTypes, Prepared
<1>5. ASSUME InstallBegins \/ OpenReturns \/ ShutdownBegins \/ ShutdownEnds \/ UNCHANGED vars
      PROVE SerialTypes'
  BY <1>5, SerialTypesRest DEF InstallBegins, OpenReturns, ShutdownBegins, ShutdownEnds, vars
<1>6. ASSUME InstallRuntime PROVE SerialTypes'
  BY <1>6 DEF SerialTypes, InstallRuntime
<1>7. ASSUME InstallReader \/ InstallCommit PROVE SerialTypes'
  <2>1. fresh \in 0 .. made /\ made \in 0 .. MaxRuntimes
    BY DEF SerialTypes
  <2>2. UNCHANGED <<fresh, prepare, write, target, successor, reconnect>>
    BY <1>7 DEF InstallReader, InstallCommit
  <2>3. UNCHANGED runtimeVars \/ StopRuntime(fresh)
    BY <1>7 DEF InstallReader, InstallCommit
  <2>4. reader' = reader \/ \E x \in {"none", "gate", "reading"} : reader' = [reader EXCEPT ![fresh] = x]
    BY <1>7 DEF InstallReader, InstallCommit
  <2>5. /\ made' = made /\ serial' \in 0 .. made'
        /\ closed' \subseteq 1 .. made' /\ 0 \notin writer'
    <3>1. CASE UNCHANGED runtimeVars
      BY <3>1 DEF SerialTypes
    <3>2. CASE StopRuntime(fresh)
      BY <2>1, <3>2 DEF StopRuntime, SerialTypes
    <3> QED
      BY <2>3, <3>1, <3>2
  <2> QED
    BY <2>1, <2>2, <2>4, <2>5 DEF SerialTypes
<1>8. ASSUME CloseBegins PROVE SerialTypes'
  BY <1>8 DEF SerialTypes, CloseBegins
<1>9. ASSUME CloseRuntime \/ ShutdownDrains PROVE SerialTypes'
  <2>1. StopRuntime(serial) /\ UNCHANGED <<fresh, prepare, write, target, successor, reconnect, reader>>
    BY <1>9 DEF CloseRuntime, ShutdownDrains
  <2>2. /\ made' = made /\ serial' \in 0 .. made'
        /\ closed' \subseteq 1 .. made' /\ 0 \notin writer'
    BY <2>1 DEF StopRuntime, SerialTypes
  <2> QED
    BY <2>1, <2>2 DEF SerialTypes
<1>10. ASSUME NEW r \in Runtimes, Reading(r) \/ Reconnecting(r) PROVE SerialTypes'
  BY <1>10, ReadingTypes, ReconnectingTypes
<1>11. ASSUME NEW w \in Writers, Writing(w) PROVE SerialTypes'
  BY <1>11, WritingTypes
<1>12. ASSUME NEW p \in Settings \cup {"off"}, EditProfile(p) PROVE SerialTypes'
  BY <1>12 DEF SerialTypes, EditProfile
<1> QED
  BY ONLY [Next]_vars, <1>1, <1>2, <1>3, <1>4, <1>5, <1>6, <1>7, <1>8, <1>9, <1>10, <1>11, <1>12,
     Zenon
  DEF Next

\* A reconnect thread without a handle holds up nothing.
LEMMA ThreadLetsGo ==
    ASSUME SerialTypes, HandlesFit, NEW r \in Runtimes, reconnect[r] # "none",
           NEW s \in {"none", "waiting", "trying"}, NEW p, Goto(r, s, p, 0),
           reader' = reader \/ (reconnect[r] = "spawned" /\ reader' = [reader EXCEPT ![successor[r]] = "none"]),
           made' = made, serial' \in {serial, 0}, closed' \subseteq closed \cup {r},
           UNCHANGED writeVars
    PROVE  HandlesFit'
<1>1. /\ reconnect'[r] = s /\ successor'[r] = 0
      /\ \A q \in Runtimes \ {r} : reconnect'[q] = reconnect[q] /\ successor'[q] = successor[q]
    BY GotoTypes DEF SerialTypes
<1>2. made \in Nat /\ \A q \in Runtimes : successor[q] # 0 => successor[q] \in Runtimes /\ successor[q] # r
    BY SerialAssumption DEF SerialTypes, HandlesFit, Runtimes
<1>3. \A q \in Runtimes : reader'[q] = reader[q] \/ (reader'[q] = "none" /\ q = successor[r] /\ successor[r] # 0)
    BY <1>2 DEF SerialTypes, HandlesFit
<1>4. \A q \in Runtimes :
        /\ successor'[q] # 0 <=> reconnect'[q] \in {"opened", "spawned"}
        /\ reconnect'[q] # "none" => reader'[q] = "none"
        /\ made' < q => reader'[q] = "none" /\ reconnect'[q] = "none"
    BY <1>1, <1>2, <1>3 DEF HandlesFit
<1>5. ASSUME NEW q \in Runtimes, successor'[q] # 0
      PROVE  /\ reader'[successor'[q]] = IF reconnect'[q] = "spawned" THEN "gate" ELSE "none"
             /\ reconnect'[successor'[q]] = "none"
             /\ serial' # successor'[q] /\ successor'[q] \notin closed'
             /\ \A o \in Runtimes \ {q} : successor'[o] # successor'[q]
    <2>1. q # r /\ successor'[q] = successor[q] /\ successor[q] \in Runtimes \ {r}
          /\ successor[q] # 0 /\ successor[q] # successor[r] /\ reconnect'[q] = reconnect[q]
        BY <1>1, <1>2, <1>5 DEF HandlesFit
    <2>2. reader'[successor[q]] = reader[successor[q]] /\ reconnect'[successor[q]] = reconnect[successor[q]]
        BY <1>1, <1>3, <2>1
    <2>3. \A o \in Runtimes \ {q} : successor'[o] # successor'[q]
        BY <1>1, <2>1 DEF HandlesFit
    <2> QED
        BY <2>1, <2>2, <2>3 DEF HandlesFit
<1>6. \A w \in Writers : write'[w] \in {"idle", "registered"} => target'[w] = 0
    BY DEF HandlesFit, writeVars
<1> QED
    BY <1>4, <1>5, <1>6 DEF HandlesFit

\* A reconnect opens a handle for a runtime of its own, hands it to the reader it
\* starts, or lets it go.
LEMMA ReconnectingHandles ==
    ASSUME SerialTypes, HandlesFit, NEW r \in Runtimes, Reconnecting(r)
    PROVE  HandlesFit'
<1> USE DEF Ends, Retries, NoRuntime
<1>1. UNCHANGED writeVars /\ made \in 0 .. MaxRuntimes
    BY SerialAssumption DEF Reconnecting, SerialTypes
<1>2. StopRuntime(r) => made' = made /\ serial' \in {serial, 0} /\ closed' \subseteq closed \cup {r}
    BY DEF StopRuntime
<1>3. CASE ReconnectWaits(r) \/ ReconnectOpenFails(r)
    <2>1. /\ reconnect[r] # "none" /\ reader' = reader
          /\ UNCHANGED runtimeVars \/ StopRuntime(r)
          /\ \/ Goto(r, "none", None, 0) \/ Goto(r, "waiting", None, 0) \/ Goto(r, "trying", profile, 0)
        BY <1>3 DEF ReconnectWaits, ReconnectOpenFails, StopDisabled
    <2> QED
        BY <1>1, <1>2, <2>1, ThreadLetsGo DEF runtimeVars
<1>4. CASE ReconnectOpens(r)
    <2>1. CASE Goto(r, "none", None, 0) /\ made' = made
        BY <1>1, <1>4, <2>1, ThreadLetsGo DEF ReconnectOpens
    <2>2. CASE Goto(r, "opened", attempt[r], made + 1) /\ made' = made + 1 /\ made < MaxRuntimes
        <3>1. reconnect[r] = "trying" /\ UNCHANGED <<serial, closed, reader>>
            BY <1>4 DEF ReconnectOpens
        <3>2. /\ reconnect'[r] = "opened" /\ successor'[r] = made + 1
              /\ \A q \in Runtimes \ {r} : reconnect'[q] = reconnect[q] /\ successor'[q] = successor[q]
            BY <2>2, <1>1, GotoTypes DEF SerialTypes
        <3>3. /\ made + 1 \in Runtimes \ {r} /\ reader[made + 1] = "none" /\ reconnect[made + 1] = "none"
              /\ \A q \in Runtimes : successor[q] \in 0 .. made
              /\ serial # made + 1 /\ made + 1 \notin closed
            BY <2>2, <1>1, <3>1, SerialAssumption DEF SerialTypes, HandlesFit, Runtimes
        <3>4. \A q \in Runtimes :
                /\ successor'[q] # 0 <=> reconnect'[q] \in {"opened", "spawned"}
                /\ reconnect'[q] # "none" => reader'[q] = "none"
                /\ made' < q => reader'[q] = "none" /\ reconnect'[q] = "none"
            BY <1>1, <2>2, <3>1, <3>2, <3>3, SerialAssumption DEF HandlesFit, Runtimes
        <3>5. ASSUME NEW q \in Runtimes, successor'[q] # 0
              PROVE  /\ reader'[successor'[q]] = IF reconnect'[q] = "spawned" THEN "gate" ELSE "none"
                     /\ reconnect'[successor'[q]] = "none"
                     /\ serial' # successor'[q] /\ successor'[q] \notin closed'
                     /\ \A o \in Runtimes \ {q} : successor'[o] # successor'[q]
            <4>1. CASE q = r
                BY <1>1, <3>1, <3>2, <3>3, <4>1
            <4>2. CASE q # r
                <5>1. successor'[q] = successor[q] /\ reconnect'[q] = reconnect[q] /\ successor[q] # 0
                      /\ successor[q] # r /\ successor[q] # made + 1 /\ successor[q] \in Runtimes
                    BY <1>1, <3>1, <3>2, <3>3, <3>5, <4>2, SerialAssumption DEF HandlesFit, Runtimes, SerialTypes
                <5>2. reconnect'[successor[q]] = reconnect[successor[q]]
                    BY <3>2, <5>1
                <5>3. \A o \in Runtimes \ {q} : successor'[o] # successor[q]
                    BY <3>2, <5>1 DEF HandlesFit
                <5> QED
                    BY <3>1, <5>1, <5>2, <5>3 DEF HandlesFit
            <4> QED
                BY <4>1, <4>2
        <3> QED
            BY <1>1, <3>4, <3>5 DEF HandlesFit, writeVars
    <2> QED
        BY <1>4, <2>1, <2>2 DEF ReconnectOpens
<1>5. CASE ReconnectSpawns(r)
    <2>1. CASE /\ Goto(r, "none", None, 0) /\ reader' = reader
               /\ UNCHANGED runtimeVars \/ StopRuntime(r)
        BY <1>1, <1>2, <1>5, <2>1, ThreadLetsGo DEF ReconnectSpawns, runtimeVars
    <2>2. CASE /\ Goto(r, "spawned", attempt[r], successor[r]) /\ UNCHANGED runtimeVars
               /\ reader' = [reader EXCEPT ![successor[r]] = "gate"]
        <3>1. reconnect[r] = "opened" /\ UNCHANGED <<serial, closed, made>>
              /\ successor[r] \in Runtimes /\ successor[r] # 0 /\ successor[r] \in 0 .. made
            BY <1>5, <1>1, <2>2, SerialAssumption DEF ReconnectSpawns, runtimeVars, SerialTypes, HandlesFit, Runtimes
        <3>2. /\ reconnect'[r] = "spawned" /\ successor'[r] = successor[r]
              /\ \A q \in Runtimes \ {r} : reconnect'[q] = reconnect[q] /\ successor'[q] = successor[q]
            BY <2>2, <3>1, GotoTypes DEF SerialTypes
        <3>3. /\ reader'[successor[r]] = "gate" /\ successor[r] # r /\ reconnect[successor[r]] = "none"
              /\ \A q \in Runtimes \ {successor[r]} : reader'[q] = reader[q]
            BY <2>2, <3>1 DEF SerialTypes, HandlesFit
        <3>4. \A q \in Runtimes :
                /\ successor'[q] # 0 <=> reconnect'[q] \in {"opened", "spawned"}
                /\ reconnect'[q] # "none" => reader'[q] = "none"
                /\ made' < q => reader'[q] = "none" /\ reconnect'[q] = "none"
            BY <1>1, <3>1, <3>2, <3>3 DEF HandlesFit
        <3>5. ASSUME NEW q \in Runtimes, successor'[q] # 0
              PROVE  /\ reader'[successor'[q]] = IF reconnect'[q] = "spawned" THEN "gate" ELSE "none"
                     /\ reconnect'[successor'[q]] = "none"
                     /\ serial' # successor'[q] /\ successor'[q] \notin closed'
                     /\ \A o \in Runtimes \ {q} : successor'[o] # successor'[q]
            <4>1. successor'[q] = successor[q] /\ successor[q] # 0 /\ successor[q] \in Runtimes /\ successor[q] # r
                BY <1>1, <3>1, <3>2, <3>5, SerialAssumption DEF HandlesFit, Runtimes, SerialTypes
            <4>2. reconnect'[successor[q]] = "none"
                BY <3>2, <4>1 DEF HandlesFit
            <4>3. \A o \in Runtimes \ {q} : successor'[o] # successor[q]
                BY <3>2, <4>1 DEF HandlesFit
            <4>4. reader'[successor[q]] = IF reconnect'[q] = "spawned" THEN "gate" ELSE "none"
                <5>1. CASE q = r
                    BY <5>1, <3>2, <3>3
                <5>2. CASE q # r
                    BY <5>2, <3>1, <3>2, <3>3, <4>1 DEF HandlesFit
                <5> QED
                    BY <5>1, <5>2
            <4> QED
                BY <3>1, <4>1, <4>2, <4>3, <4>4 DEF HandlesFit
        <3> QED
            BY <1>1, <3>4, <3>5 DEF HandlesFit, writeVars
    <2> QED
        BY <1>5, <2>1, <2>2 DEF ReconnectSpawns, FailInstall
<1>6. CASE ReconnectInstalls(r)
    <2>1. /\ reconnect[r] = "spawned" /\ serial' = successor[r] /\ UNCHANGED <<made, closed>>
          /\ reader' = [reader EXCEPT ![successor[r]] = "reading"] /\ Goto(r, "none", None, 0)
        BY <1>6 DEF ReconnectInstalls
    <2>2. /\ reconnect'[r] = "none" /\ successor'[r] = 0
          /\ \A q \in Runtimes \ {r} : reconnect'[q] = reconnect[q] /\ successor'[q] = successor[q]
        BY <1>1, <2>1, GotoTypes DEF SerialTypes
    <2>3. successor[r] \in Runtimes /\ successor[r] # 0 /\ successor[r] # r /\ successor[r] \in 0 .. made
        BY <1>1, <2>1, SerialAssumption DEF SerialTypes, HandlesFit, Runtimes
    <2>4. \A q \in Runtimes \ {successor[r]} : reader'[q] = reader[q]
        BY <2>1, <2>3 DEF SerialTypes
    <2>5. \A q \in Runtimes :
            /\ successor'[q] # 0 <=> reconnect'[q] \in {"opened", "spawned"}
            /\ reconnect'[q] # "none" => reader'[q] = "none"
            /\ made' < q => reader'[q] = "none" /\ reconnect'[q] = "none"
        BY <1>1, <2>1, <2>2, <2>3, <2>4 DEF HandlesFit
    <2>6. ASSUME NEW q \in Runtimes, successor'[q] # 0
          PROVE  /\ reader'[successor'[q]] = IF reconnect'[q] = "spawned" THEN "gate" ELSE "none"
                 /\ reconnect'[successor'[q]] = "none"
                 /\ serial' # successor'[q] /\ successor'[q] \notin closed'
                 /\ \A o \in Runtimes \ {q} : successor'[o] # successor'[q]
        <3>1. q # r /\ successor'[q] = successor[q] /\ reconnect'[q] = reconnect[q] /\ successor[q] # 0
              /\ successor[q] \in Runtimes /\ successor[q] # r /\ successor[q] # successor[r]
            BY <1>1, <2>1, <2>2, <2>6, SerialAssumption DEF HandlesFit, Runtimes, SerialTypes
        <3>2. reconnect'[successor[q]] = "none" /\ reader'[successor[q]] = reader[successor[q]]
            BY <2>2, <2>4, <3>1 DEF HandlesFit
        <3>3. \A o \in Runtimes \ {q} : successor'[o] # successor[q]
            BY <2>2, <3>1 DEF HandlesFit
        <3> QED
            BY <2>1, <3>1, <3>2, <3>3 DEF HandlesFit
    <2> QED
        BY <1>1, <2>5, <2>6 DEF HandlesFit, writeVars
<1>7. CASE ReconnectRefused(r)
    <2>1. /\ reconnect[r] = "spawned" /\ reader' = [reader EXCEPT ![successor[r]] = "none"]
          /\ UNCHANGED runtimeVars \/ StopRuntime(r)
          /\ Goto(r, "none", None, 0) \/ Goto(r, "waiting", None, 0)
        BY <1>7 DEF ReconnectRefused, StopDisabled, FailInstall
    <2> QED
        BY <1>1, <1>2, <2>1, ThreadLetsGo DEF runtimeVars
<1> QED
    BY <1>3, <1>4, <1>5, <1>6, <1>7 DEF Reconnecting

\* A write without a runtime is idle or registered.
LEMMA WritingHandles ==
    ASSUME SerialTypes, HandlesFit, NEW w \in Writers, Writing(w)
    PROVE  HandlesFit'
<1>1. UNCHANGED <<serial, made, closed, reader, reconnect, successor>>
    BY DEF Writing, runtimeVars, reconnectVars
<1>2. \A v \in Writers : write'[v] \in {"idle", "registered"} => target'[v] = 0
    <2>1. PICK s \in {"idle", "registered", "captured", "driver"}, r \in 0 .. made :
             WriteStep(w, s, r) /\ (s \in {"idle", "registered"} => r = 0)
        <3>1. made \in Nat /\ serial \in 0 .. made /\ target[w] \in 0 .. made
            BY SerialAssumption DEF SerialTypes
        <3> QED
            BY <3>1, WriteGoes
    <2> QED
        BY <1>1, <2>1, WriteTypes DEF HandlesFit
<1> QED
    BY <1>1, <1>2 DEF HandlesFit

\* A cancelled open waits for its blocking task: this part needs LatePrepare.
LEMMA PrepareFitsStep ==
    ASSUME SerialTypes, PrepareFits, LatePrepare = FALSE, [Next]_vars
    PROVE  PrepareFits'
<1> USE SerialAssumption DEF SerialTypes, PrepareFits, storeVars, runtimeVars, workerVars,
        laneVars, reconnectVars, writeVars, deviceVars, threadVars, Runtimes, NoRuntime,
        OpenSteps, CloseSteps, ActiveStatuses, Running, ShuttingDown, Registers, Active,
        Abandoned, Result, Pair, StopRuntime, Goto, Ends, Retries, Superseded, Pending,
        StopDisabled, FailInstall, WriteStep
<1>1. ASSUME NEW a \in Attempts, Open(a) PROVE PrepareFits'
  BY <1>1 DEF Open
<1>2. ASSUME NEW a \in Attempts, Preparing(a), PrepareBegins(a) PROVE PrepareFits'
  BY <1>2 DEF Preparing, PrepareBegins
<1>3. ASSUME NEW a \in Attempts, Preparing(a), PrepareOpens(a) PROVE PrepareFits'
  BY <1>3 DEF Preparing, PrepareOpens
<1>4. ASSUME NEW a \in Attempts, Preparing(a), PrepareReturns(a) PROVE PrepareFits'
  BY <1>4 DEF Preparing, PrepareReturns
<1>5. ASSUME CancelOpen PROVE PrepareFits'
  BY <1>5 DEF CancelOpen
<1>6. ASSUME Prepared PROVE PrepareFits'
  BY <1>6 DEF Prepared
<1>7. ASSUME InstallBegins PROVE PrepareFits'
  BY <1>7 DEF InstallBegins
<1>8. ASSUME InstallRuntime PROVE PrepareFits'
  BY <1>8 DEF InstallRuntime
<1>9. ASSUME InstallReader PROVE PrepareFits'
  BY <1>9 DEF InstallReader
<1>10. ASSUME InstallCommit PROVE PrepareFits'
  BY <1>10 DEF InstallCommit
<1>11. ASSUME OpenReturns PROVE PrepareFits'
  BY <1>11 DEF OpenReturns
<1>12. ASSUME CloseBegins PROVE PrepareFits'
  BY <1>12 DEF CloseBegins
<1>13. ASSUME CloseRuntime PROVE PrepareFits'
  BY <1>13 DEF CloseRuntime
<1>14. ASSUME CloseIdle PROVE PrepareFits'
  BY <1>14 DEF CloseIdle
<1>15. ASSUME CloseTimeout PROVE PrepareFits'
  BY <1>15 DEF CloseTimeout
<1>16. ASSUME CloseReturns PROVE PrepareFits'
  BY <1>16 DEF CloseReturns
<1>17. ASSUME CleanupObserves PROVE PrepareFits'
  BY <1>17 DEF CleanupObserves
<1>18. ASSUME CleanupEnds PROVE PrepareFits'
  BY <1>18 DEF CleanupEnds
<1>19. ASSUME NEW r \in Runtimes, Reading(r), ReaderStops(r) PROVE PrepareFits'
  BY <1>19 DEF Reading, ReaderStops
<1>20. ASSUME NEW r \in Runtimes, Reading(r), ReaderTransition(r) PROVE PrepareFits'
  BY <1>20 DEF Reading, ReaderTransition
<1>21. ASSUME NEW r \in Runtimes, Reading(r), ReaderReleases(r) PROVE PrepareFits'
  BY <1>21 DEF Reading, ReaderReleases
<1>22. ASSUME NEW r \in Runtimes, Reading(r), ReaderReconnects(r) PROVE PrepareFits'
  BY <1>22 DEF Reading, ReaderReconnects
<1>23. ASSUME NEW r \in Runtimes, Reading(r), ReaderDisconnects(r) PROVE PrepareFits'
  BY <1>23 DEF Reading, ReaderDisconnects
<1>24. ASSUME NEW r \in Runtimes, Reconnecting(r), ReconnectWaits(r) PROVE PrepareFits'
  BY <1>24 DEF Reconnecting, ReconnectWaits
<1>25. ASSUME NEW r \in Runtimes, Reconnecting(r), ReconnectOpens(r) PROVE PrepareFits'
  BY <1>25 DEF Reconnecting, ReconnectOpens
<1>26. ASSUME NEW r \in Runtimes, Reconnecting(r), ReconnectOpenFails(r) PROVE PrepareFits'
  BY <1>26 DEF Reconnecting, ReconnectOpenFails
<1>27. ASSUME NEW r \in Runtimes, Reconnecting(r), ReconnectSpawns(r) PROVE PrepareFits'
  BY <1>27 DEF Reconnecting, ReconnectSpawns
<1>28. ASSUME NEW r \in Runtimes, Reconnecting(r), ReconnectInstalls(r) PROVE PrepareFits'
  BY <1>28 DEF Reconnecting, ReconnectInstalls
<1>29. ASSUME NEW r \in Runtimes, Reconnecting(r), ReconnectRefused(r) PROVE PrepareFits'
  BY <1>29 DEF Reconnecting, ReconnectRefused
<1>30. ASSUME NEW w \in Writers, Writing(w), WriteRegisters(w) PROVE PrepareFits'
  BY <1>30 DEF Writing, WriteRegisters
<1>31. ASSUME NEW w \in Writers, Writing(w), WriteCaptures(w) PROVE PrepareFits'
  BY <1>31 DEF Writing, WriteCaptures
<1>32. ASSUME NEW w \in Writers, Writing(w), WriteEnters(w) PROVE PrepareFits'
  BY <1>32 DEF Writing, WriteEnters
<1>33. ASSUME NEW w \in Writers, Writing(w), WriteReturns(w) PROVE PrepareFits'
  BY <1>33 DEF Writing, WriteReturns
<1>34. ASSUME NEW w \in Writers, Writing(w), LinesApplied(w) PROVE PrepareFits'
  BY <1>34 DEF Writing, LinesApplied
<1>35. ASSUME NEW p \in Settings \cup {"off"}, EditProfile(p) PROVE PrepareFits'
  BY <1>35 DEF EditProfile
<1>36. ASSUME ShutdownBegins PROVE PrepareFits'
  BY <1>36 DEF ShutdownBegins
<1>37. ASSUME ShutdownDrains PROVE PrepareFits'
  BY <1>37 DEF ShutdownDrains
<1>38. ASSUME ShutdownEnds PROVE PrepareFits'
  BY <1>38 DEF ShutdownEnds
<1>39. ASSUME UNCHANGED vars PROVE PrepareFits'
  BY <1>39 DEF vars
<1> QED
  BY ONLY [Next]_vars, <1>1, <1>2, <1>3, <1>4, <1>5, <1>6, <1>7, <1>8, <1>9, <1>10,
     <1>11, <1>12, <1>13, <1>14, <1>15, <1>16, <1>17, <1>18, <1>19, <1>20, <1>21,
     <1>22, <1>23, <1>24, <1>25, <1>26, <1>27, <1>28, <1>29, <1>30, <1>31, <1>32,
     <1>33, <1>34, <1>35, <1>36, <1>37, <1>38, <1>39, Zenon
  DEF Next, Preparing, Reading, Reconnecting, Writing

\* No two threads hold a handle of the same runtime.
LEMMA HandlesFitStep ==
    ASSUME SerialTypes, HandlesFit, LaneFits, [Next]_vars
    PROVE  HandlesFit'
<1> USE SerialAssumption DEF SerialTypes, HandlesFit, LaneFits, Still, NoThreads, storeVars,
        runtimeVars, workerVars,
        laneVars, reconnectVars, writeVars, deviceVars, threadVars, Runtimes, NoRuntime,
        OpenSteps, CloseSteps, ActiveStatuses, Running, ShuttingDown, Registers, Active,
        Abandoned, Result, Pair, StopRuntime, Goto, Ends, Retries, Superseded, Pending,
        StopDisabled, FailInstall, WriteStep
<1>1. ASSUME NEW a \in Attempts, Open(a) PROVE HandlesFit'
  BY <1>1 DEF Open
<1>2. ASSUME NEW a \in Attempts, Preparing(a), PrepareBegins(a) PROVE HandlesFit'
  BY <1>2 DEF Preparing, PrepareBegins
<1>3. ASSUME NEW a \in Attempts, Preparing(a), PrepareOpens(a) PROVE HandlesFit'
  BY <1>3 DEF Preparing, PrepareOpens
<1>4. ASSUME NEW a \in Attempts, Preparing(a), PrepareReturns(a) PROVE HandlesFit'
  BY <1>4 DEF Preparing, PrepareReturns
<1>5. ASSUME CancelOpen PROVE HandlesFit'
  BY <1>5 DEF CancelOpen
<1>6. ASSUME Prepared PROVE HandlesFit'
  BY <1>6 DEF Prepared
<1>7. ASSUME InstallBegins PROVE HandlesFit'
  BY <1>7 DEF InstallBegins
<1>8. ASSUME InstallRuntime PROVE HandlesFit'
  BY <1>8 DEF InstallRuntime
<1>9. ASSUME InstallReader PROVE HandlesFit'
  BY <1>9 DEF InstallReader
<1>10. ASSUME InstallCommit PROVE HandlesFit'
  BY <1>10 DEF InstallCommit
<1>11. ASSUME OpenReturns PROVE HandlesFit'
  BY <1>11 DEF OpenReturns
<1>12. ASSUME CloseBegins PROVE HandlesFit'
  BY <1>12 DEF CloseBegins
<1>13. ASSUME CloseRuntime PROVE HandlesFit'
  BY <1>13 DEF CloseRuntime
<1>14. ASSUME CloseIdle PROVE HandlesFit'
  BY <1>14 DEF CloseIdle
<1>15. ASSUME CloseTimeout PROVE HandlesFit'
  BY <1>15 DEF CloseTimeout
<1>16. ASSUME CloseReturns PROVE HandlesFit'
  BY <1>16 DEF CloseReturns
<1>17. ASSUME CleanupObserves PROVE HandlesFit'
  BY <1>17 DEF CleanupObserves
<1>18. ASSUME CleanupEnds PROVE HandlesFit'
  BY <1>18 DEF CleanupEnds
<1>19. ASSUME NEW r \in Runtimes, Reading(r), ReaderStops(r) PROVE HandlesFit'
  BY <1>19 DEF Reading, ReaderStops
<1>20. ASSUME NEW r \in Runtimes, Reading(r), ReaderTransition(r) PROVE HandlesFit'
  BY <1>20 DEF Reading, ReaderTransition
<1>21. ASSUME NEW r \in Runtimes, Reading(r), ReaderReleases(r) PROVE HandlesFit'
  BY <1>21 DEF Reading, ReaderReleases
<1>22. ASSUME NEW r \in Runtimes, Reading(r), ReaderReconnects(r) PROVE HandlesFit'
  BY <1>22 DEF Reading, ReaderReconnects
<1>23. ASSUME NEW r \in Runtimes, Reading(r), ReaderDisconnects(r) PROVE HandlesFit'
  BY <1>23 DEF Reading, ReaderDisconnects
<1>24. ASSUME NEW r \in Runtimes, Reconnecting(r) PROVE HandlesFit'
  BY ONLY <1>24, ReconnectingHandles, SerialTypes, HandlesFit, Zenon
<1>25. ASSUME NEW w \in Writers, Writing(w) PROVE HandlesFit'
  BY ONLY <1>25, WritingHandles, SerialTypes, HandlesFit, Zenon
<1>26. ASSUME NEW p \in Settings \cup {"off"}, EditProfile(p) PROVE HandlesFit'
  BY <1>26 DEF EditProfile
<1>27. ASSUME ShutdownBegins PROVE HandlesFit'
  BY <1>27 DEF ShutdownBegins
<1>28. ASSUME ShutdownDrains PROVE HandlesFit'
  BY <1>28 DEF ShutdownDrains
<1>29. ASSUME ShutdownEnds PROVE HandlesFit'
  BY <1>29 DEF ShutdownEnds
<1>30. ASSUME UNCHANGED vars PROVE HandlesFit'
  BY <1>30 DEF vars
<1> QED
  BY ONLY [Next]_vars, <1>1, <1>2, <1>3, <1>4, <1>5, <1>6, <1>7, <1>8, <1>9, <1>10,
     <1>11, <1>12, <1>13, <1>14, <1>15, <1>16, <1>17, <1>18, <1>19, <1>20, <1>21,
     <1>22, <1>23, <1>24, <1>25, <1>26, <1>27, <1>28, <1>29, <1>30, Zenon
  DEF Next, Preparing, Reading

\* A command finds the registry as it left it.
LEMMA LaneFitsStep ==
    ASSUME SerialTypes, HandlesFit, LaneFits, [Next]_vars
    PROVE  LaneFits'
<1> USE SerialAssumption DEF SerialTypes, HandlesFit, LaneFits, Still, NoThreads, storeVars,
        runtimeVars, workerVars,
        laneVars, reconnectVars, writeVars, deviceVars, threadVars, Runtimes, NoRuntime,
        OpenSteps, CloseSteps, ActiveStatuses, Running, ShuttingDown, Registers, Active,
        Abandoned, Result, Pair, StopRuntime, Goto, Ends, Retries, Superseded, Pending,
        StopDisabled, FailInstall, WriteStep
<1>1. ASSUME NEW a \in Attempts, Open(a) PROVE LaneFits'
  BY <1>1 DEF Open
<1>2. ASSUME NEW a \in Attempts, Preparing(a), PrepareBegins(a) PROVE LaneFits'
  BY <1>2 DEF Preparing, PrepareBegins
<1>3. ASSUME NEW a \in Attempts, Preparing(a), PrepareOpens(a) PROVE LaneFits'
  BY <1>3 DEF Preparing, PrepareOpens
<1>4. ASSUME NEW a \in Attempts, Preparing(a), PrepareReturns(a) PROVE LaneFits'
  BY <1>4 DEF Preparing, PrepareReturns
<1>5. ASSUME CancelOpen PROVE LaneFits'
  BY <1>5 DEF CancelOpen
<1>6. ASSUME Prepared PROVE LaneFits'
  BY <1>6 DEF Prepared
<1>7. ASSUME InstallBegins PROVE LaneFits'
  BY <1>7 DEF InstallBegins
<1>8. ASSUME InstallRuntime PROVE LaneFits'
  BY <1>8 DEF InstallRuntime
<1>9. ASSUME InstallReader PROVE LaneFits'
  BY <1>9 DEF InstallReader
<1>10. ASSUME InstallCommit PROVE LaneFits'
  BY <1>10 DEF InstallCommit
<1>11. ASSUME OpenReturns PROVE LaneFits'
  BY <1>11 DEF OpenReturns
<1>12. ASSUME CloseBegins PROVE LaneFits'
  BY <1>12 DEF CloseBegins
<1>13. ASSUME CloseRuntime PROVE LaneFits'
  BY <1>13 DEF CloseRuntime
<1>14. ASSUME CloseIdle PROVE LaneFits'
  BY <1>14 DEF CloseIdle
<1>15. ASSUME CloseTimeout PROVE LaneFits'
  BY <1>15 DEF CloseTimeout
<1>16. ASSUME CloseReturns PROVE LaneFits'
  BY <1>16 DEF CloseReturns
<1>17. ASSUME CleanupObserves PROVE LaneFits'
  BY <1>17 DEF CleanupObserves
<1>18. ASSUME CleanupEnds PROVE LaneFits'
  BY <1>18 DEF CleanupEnds
<1>19. ASSUME NEW r \in Runtimes, Reading(r), ReaderStops(r) PROVE LaneFits'
  BY <1>19 DEF Reading, ReaderStops
<1>20. ASSUME NEW r \in Runtimes, Reading(r), ReaderTransition(r) PROVE LaneFits'
  BY <1>20 DEF Reading, ReaderTransition
<1>21. ASSUME NEW r \in Runtimes, Reading(r), ReaderReleases(r) PROVE LaneFits'
  BY <1>21 DEF Reading, ReaderReleases
<1>22. ASSUME NEW r \in Runtimes, Reading(r), ReaderReconnects(r) PROVE LaneFits'
  BY <1>22 DEF Reading, ReaderReconnects
<1>23. ASSUME NEW r \in Runtimes, Reading(r), ReaderDisconnects(r) PROVE LaneFits'
  BY <1>23 DEF Reading, ReaderDisconnects
<1>24. ASSUME NEW r \in Runtimes, Reconnecting(r), ReconnectWaits(r) PROVE LaneFits'
  BY <1>24 DEF Reconnecting, ReconnectWaits
<1>25. ASSUME NEW r \in Runtimes, Reconnecting(r), ReconnectOpens(r) PROVE LaneFits'
  BY <1>25 DEF Reconnecting, ReconnectOpens
<1>26. ASSUME NEW r \in Runtimes, Reconnecting(r), ReconnectOpenFails(r) PROVE LaneFits'
  BY <1>26 DEF Reconnecting, ReconnectOpenFails
<1>27. ASSUME NEW r \in Runtimes, Reconnecting(r), ReconnectSpawns(r) PROVE LaneFits'
  BY <1>27 DEF Reconnecting, ReconnectSpawns
<1>28. ASSUME NEW r \in Runtimes, Reconnecting(r), ReconnectInstalls(r) PROVE LaneFits'
  BY <1>28 DEF Reconnecting, ReconnectInstalls
<1>29. ASSUME NEW r \in Runtimes, Reconnecting(r), ReconnectRefused(r) PROVE LaneFits'
  BY <1>29 DEF Reconnecting, ReconnectRefused
<1>30. ASSUME NEW w \in Writers, Writing(w), WriteRegisters(w) PROVE LaneFits'
  BY <1>30 DEF Writing, WriteRegisters
<1>31. ASSUME NEW w \in Writers, Writing(w), WriteCaptures(w) PROVE LaneFits'
  BY <1>31 DEF Writing, WriteCaptures
<1>32. ASSUME NEW w \in Writers, Writing(w), WriteEnters(w) PROVE LaneFits'
  BY <1>32 DEF Writing, WriteEnters
<1>33. ASSUME NEW w \in Writers, Writing(w), WriteReturns(w) PROVE LaneFits'
  BY <1>33 DEF Writing, WriteReturns
<1>34. ASSUME NEW w \in Writers, Writing(w), LinesApplied(w) PROVE LaneFits'
  BY <1>34 DEF Writing, LinesApplied
<1>35. ASSUME NEW p \in Settings \cup {"off"}, EditProfile(p) PROVE LaneFits'
  BY <1>35 DEF EditProfile
<1>36. ASSUME ShutdownBegins PROVE LaneFits'
  BY <1>36 DEF ShutdownBegins
<1>37. ASSUME ShutdownDrains PROVE LaneFits'
  BY <1>37 DEF ShutdownDrains
<1>38. ASSUME ShutdownEnds PROVE LaneFits'
  BY <1>38 DEF ShutdownEnds
<1>39. ASSUME UNCHANGED vars PROVE LaneFits'
  BY <1>39 DEF vars
<1> QED
  BY ONLY [Next]_vars, <1>1, <1>2, <1>3, <1>4, <1>5, <1>6, <1>7, <1>8, <1>9, <1>10,
     <1>11, <1>12, <1>13, <1>14, <1>15, <1>16, <1>17, <1>18, <1>19, <1>20, <1>21,
     <1>22, <1>23, <1>24, <1>25, <1>26, <1>27, <1>28, <1>29, <1>30, <1>31, <1>32,
     <1>33, <1>34, <1>35, <1>36, <1>37, <1>38, <1>39, Zenon
  DEF Next, Preparing, Reading, Reconnecting, Writing

\* Nothing is registered behind the back of a shutdown.
LEMMA ShutdownFitsStep ==
    ASSUME SerialTypes, HandlesFit, LaneFits, ShutdownFits, [Next]_vars
    PROVE  ShutdownFits'
<1> USE SerialAssumption DEF SerialTypes, HandlesFit, LaneFits, ShutdownFits, Still,
        NoThreads, storeVars, runtimeVars, workerVars,
        laneVars, reconnectVars, writeVars, deviceVars, threadVars, Runtimes, NoRuntime,
        OpenSteps, CloseSteps, ActiveStatuses, Running, ShuttingDown, Registers, Active,
        Abandoned, Result, Pair, StopRuntime, Goto, Ends, Retries, Superseded, Pending,
        StopDisabled, FailInstall, WriteStep
<1>1. ASSUME NEW a \in Attempts, Open(a) PROVE ShutdownFits'
  BY <1>1 DEF Open
<1>2. ASSUME NEW a \in Attempts, Preparing(a), PrepareBegins(a) PROVE ShutdownFits'
  BY <1>2 DEF Preparing, PrepareBegins
<1>3. ASSUME NEW a \in Attempts, Preparing(a), PrepareOpens(a) PROVE ShutdownFits'
  BY <1>3 DEF Preparing, PrepareOpens
<1>4. ASSUME NEW a \in Attempts, Preparing(a), PrepareReturns(a) PROVE ShutdownFits'
  BY <1>4 DEF Preparing, PrepareReturns
<1>5. ASSUME CancelOpen PROVE ShutdownFits'
  BY <1>5 DEF CancelOpen
<1>6. ASSUME Prepared PROVE ShutdownFits'
  BY <1>6 DEF Prepared
<1>7. ASSUME InstallBegins PROVE ShutdownFits'
  BY <1>7 DEF InstallBegins
<1>8. ASSUME InstallRuntime PROVE ShutdownFits'
  BY <1>8 DEF InstallRuntime
<1>9. ASSUME InstallReader PROVE ShutdownFits'
  BY <1>9 DEF InstallReader
<1>10. ASSUME InstallCommit PROVE ShutdownFits'
  BY <1>10 DEF InstallCommit
<1>11. ASSUME OpenReturns PROVE ShutdownFits'
  BY <1>11 DEF OpenReturns
<1>12. ASSUME CloseBegins PROVE ShutdownFits'
  BY <1>12 DEF CloseBegins
<1>13. ASSUME CloseRuntime PROVE ShutdownFits'
  BY <1>13 DEF CloseRuntime
<1>14. ASSUME CloseIdle PROVE ShutdownFits'
  BY <1>14 DEF CloseIdle
<1>15. ASSUME CloseTimeout PROVE ShutdownFits'
  BY <1>15 DEF CloseTimeout
<1>16. ASSUME CloseReturns PROVE ShutdownFits'
  BY <1>16 DEF CloseReturns
<1>17. ASSUME CleanupObserves PROVE ShutdownFits'
  BY <1>17 DEF CleanupObserves
<1>18. ASSUME CleanupEnds PROVE ShutdownFits'
  BY <1>18 DEF CleanupEnds
<1>19. ASSUME NEW r \in Runtimes, Reading(r), ReaderStops(r) PROVE ShutdownFits'
  BY <1>19 DEF Reading, ReaderStops
<1>20. ASSUME NEW r \in Runtimes, Reading(r), ReaderTransition(r) PROVE ShutdownFits'
  BY <1>20 DEF Reading, ReaderTransition
<1>21. ASSUME NEW r \in Runtimes, Reading(r), ReaderReleases(r) PROVE ShutdownFits'
  BY <1>21 DEF Reading, ReaderReleases
<1>22. ASSUME NEW r \in Runtimes, Reading(r), ReaderReconnects(r) PROVE ShutdownFits'
  BY <1>22 DEF Reading, ReaderReconnects
<1>23. ASSUME NEW r \in Runtimes, Reading(r), ReaderDisconnects(r) PROVE ShutdownFits'
  BY <1>23 DEF Reading, ReaderDisconnects
<1>24. ASSUME NEW r \in Runtimes, Reconnecting(r), ReconnectWaits(r) PROVE ShutdownFits'
  BY <1>24 DEF Reconnecting, ReconnectWaits
<1>25. ASSUME NEW r \in Runtimes, Reconnecting(r), ReconnectOpens(r) PROVE ShutdownFits'
  BY <1>25 DEF Reconnecting, ReconnectOpens
<1>26. ASSUME NEW r \in Runtimes, Reconnecting(r), ReconnectOpenFails(r) PROVE ShutdownFits'
  BY <1>26 DEF Reconnecting, ReconnectOpenFails
<1>27. ASSUME NEW r \in Runtimes, Reconnecting(r), ReconnectSpawns(r) PROVE ShutdownFits'
  BY <1>27 DEF Reconnecting, ReconnectSpawns
<1>28. ASSUME NEW r \in Runtimes, Reconnecting(r), ReconnectInstalls(r) PROVE ShutdownFits'
  BY <1>28 DEF Reconnecting, ReconnectInstalls
<1>29. ASSUME NEW r \in Runtimes, Reconnecting(r), ReconnectRefused(r) PROVE ShutdownFits'
  BY <1>29 DEF Reconnecting, ReconnectRefused
<1>30. ASSUME NEW w \in Writers, Writing(w), WriteRegisters(w) PROVE ShutdownFits'
  BY <1>30 DEF Writing, WriteRegisters
<1>31. ASSUME NEW w \in Writers, Writing(w), WriteCaptures(w) PROVE ShutdownFits'
  BY <1>31 DEF Writing, WriteCaptures
<1>32. ASSUME NEW w \in Writers, Writing(w), WriteEnters(w) PROVE ShutdownFits'
  BY <1>32 DEF Writing, WriteEnters
<1>33. ASSUME NEW w \in Writers, Writing(w), WriteReturns(w) PROVE ShutdownFits'
  BY <1>33 DEF Writing, WriteReturns
<1>34. ASSUME NEW w \in Writers, Writing(w), LinesApplied(w) PROVE ShutdownFits'
  BY <1>34 DEF Writing, LinesApplied
<1>35. ASSUME NEW p \in Settings \cup {"off"}, EditProfile(p) PROVE ShutdownFits'
  BY <1>35 DEF EditProfile
<1>36. ASSUME ShutdownBegins PROVE ShutdownFits'
  BY <1>36 DEF ShutdownBegins
<1>37. ASSUME ShutdownDrains PROVE ShutdownFits'
  BY <1>37 DEF ShutdownDrains
<1>38. ASSUME ShutdownEnds PROVE ShutdownFits'
  BY <1>38 DEF ShutdownEnds
<1>39. ASSUME UNCHANGED vars PROVE ShutdownFits'
  BY <1>39 DEF vars
<1> QED
  BY ONLY [Next]_vars, <1>1, <1>2, <1>3, <1>4, <1>5, <1>6, <1>7, <1>8, <1>9, <1>10,
     <1>11, <1>12, <1>13, <1>14, <1>15, <1>16, <1>17, <1>18, <1>19, <1>20, <1>21,
     <1>22, <1>23, <1>24, <1>25, <1>26, <1>27, <1>28, <1>29, <1>30, <1>31, <1>32,
     <1>33, <1>34, <1>35, <1>36, <1>37, <1>38, <1>39, Zenon
  DEF Next, Preparing, Reading, Reconnecting, Writing

\* A runtime that is registered keeps the thread its status tells.
LEMMA ServedInvStep ==
    ASSUME SerialTypes, HandlesFit, LaneFits, ServedInv, [Next]_vars
    PROVE  ServedInv'
<1> USE SerialAssumption DEF SerialTypes, HandlesFit, LaneFits, ServedInv, Still, NoThreads,
        Served, storeVars, runtimeVars, workerVars,
        laneVars, reconnectVars, writeVars, deviceVars, threadVars, Runtimes, NoRuntime,
        OpenSteps, CloseSteps, ActiveStatuses, Running, ShuttingDown, Registers, Active,
        Abandoned, Result, Pair, StopRuntime, Goto, Ends, Retries, Superseded, Pending,
        StopDisabled, FailInstall, WriteStep
<1>1. ASSUME NEW a \in Attempts, Open(a) PROVE ServedInv'
  BY <1>1 DEF Open
<1>2. ASSUME NEW a \in Attempts, Preparing(a), PrepareBegins(a) PROVE ServedInv'
  BY <1>2 DEF Preparing, PrepareBegins
<1>3. ASSUME NEW a \in Attempts, Preparing(a), PrepareOpens(a) PROVE ServedInv'
  BY <1>3 DEF Preparing, PrepareOpens
<1>4. ASSUME NEW a \in Attempts, Preparing(a), PrepareReturns(a) PROVE ServedInv'
  BY <1>4 DEF Preparing, PrepareReturns
<1>5. ASSUME CancelOpen PROVE ServedInv'
  BY <1>5 DEF CancelOpen
<1>6. ASSUME Prepared PROVE ServedInv'
  BY <1>6 DEF Prepared
<1>7. ASSUME InstallBegins PROVE ServedInv'
  BY <1>7 DEF InstallBegins
<1>8. ASSUME InstallRuntime PROVE ServedInv'
  BY <1>8 DEF InstallRuntime
<1>9. ASSUME InstallReader PROVE ServedInv'
  BY <1>9 DEF InstallReader
<1>10. ASSUME InstallCommit PROVE ServedInv'
  BY <1>10 DEF InstallCommit
<1>11. ASSUME OpenReturns PROVE ServedInv'
  BY <1>11 DEF OpenReturns
<1>12. ASSUME CloseBegins PROVE ServedInv'
  BY <1>12 DEF CloseBegins
<1>13. ASSUME CloseRuntime PROVE ServedInv'
  BY <1>13 DEF CloseRuntime
<1>14. ASSUME CloseIdle PROVE ServedInv'
  BY <1>14 DEF CloseIdle
<1>15. ASSUME CloseTimeout PROVE ServedInv'
  BY <1>15 DEF CloseTimeout
<1>16. ASSUME CloseReturns PROVE ServedInv'
  BY <1>16 DEF CloseReturns
<1>17. ASSUME CleanupObserves PROVE ServedInv'
  BY <1>17 DEF CleanupObserves
<1>18. ASSUME CleanupEnds PROVE ServedInv'
  BY <1>18 DEF CleanupEnds
<1>19. ASSUME NEW r \in Runtimes, Reading(r), ReaderStops(r) PROVE ServedInv'
  BY <1>19 DEF Reading, ReaderStops
<1>20. ASSUME NEW r \in Runtimes, Reading(r), ReaderTransition(r) PROVE ServedInv'
  BY <1>20 DEF Reading, ReaderTransition
<1>21. ASSUME NEW r \in Runtimes, Reading(r), ReaderReleases(r) PROVE ServedInv'
  BY <1>21 DEF Reading, ReaderReleases
<1>22. ASSUME NEW r \in Runtimes, Reading(r), ReaderReconnects(r) PROVE ServedInv'
  <2>1. /\ reader[r] = "released" /\ UNCHANGED <<status, serial, life, fresh, shutdown, barrier>>
        /\ reader' = [reader EXCEPT ![r] = "none"]
        /\ \/ closed' = closed /\ reconnect' = [reconnect EXCEPT ![r] = "waiting"]
           \/ ~Registers /\ closed' = closed \cup {r} /\ reconnect' = reconnect
    BY <1>22 DEF Reading, ReaderReconnects
  <2>2. r # 0 /\ (life \in {"inserted", "spawned"} => serial # r)
    BY <2>1
  <2>3. ~ShuttingDown /\ serial = r /\ closed' # closed => life = "closing"
    BY <2>1, <2>2
  <2>4. ~ShuttingDown /\ life \in {"free", "installed"} /\ serial # 0 => Served(serial)'
    BY <2>1, <2>2
  <2> QED
    BY <2>1, <2>3, <2>4
<1>23. ASSUME NEW r \in Runtimes, Reading(r), ReaderDisconnects(r) PROVE ServedInv'
  BY <1>23 DEF Reading, ReaderDisconnects
<1>24. ASSUME NEW r \in Runtimes, Reconnecting(r), ReconnectWaits(r) PROVE ServedInv'
  BY <1>24 DEF Reconnecting, ReconnectWaits
<1>25. ASSUME NEW r \in Runtimes, Reconnecting(r), ReconnectOpens(r) PROVE ServedInv'
  BY <1>25 DEF Reconnecting, ReconnectOpens
<1>26. ASSUME NEW r \in Runtimes, Reconnecting(r), ReconnectOpenFails(r) PROVE ServedInv'
  BY <1>26 DEF Reconnecting, ReconnectOpenFails
<1>27. ASSUME NEW r \in Runtimes, Reconnecting(r), ReconnectSpawns(r) PROVE ServedInv'
  BY <1>27 DEF Reconnecting, ReconnectSpawns
<1>28. ASSUME NEW r \in Runtimes, Reconnecting(r), ReconnectInstalls(r) PROVE ServedInv'
  BY <1>28 DEF Reconnecting, ReconnectInstalls
<1>29. ASSUME NEW r \in Runtimes, Reconnecting(r), ReconnectRefused(r) PROVE ServedInv'
  BY <1>29 DEF Reconnecting, ReconnectRefused
<1>30. ASSUME NEW w \in Writers, Writing(w), WriteRegisters(w) PROVE ServedInv'
  BY <1>30 DEF Writing, WriteRegisters
<1>31. ASSUME NEW w \in Writers, Writing(w), WriteCaptures(w) PROVE ServedInv'
  BY <1>31 DEF Writing, WriteCaptures
<1>32. ASSUME NEW w \in Writers, Writing(w), WriteEnters(w) PROVE ServedInv'
  BY <1>32 DEF Writing, WriteEnters
<1>33. ASSUME NEW w \in Writers, Writing(w), WriteReturns(w) PROVE ServedInv'
  BY <1>33 DEF Writing, WriteReturns
<1>34. ASSUME NEW w \in Writers, Writing(w), LinesApplied(w) PROVE ServedInv'
  BY <1>34 DEF Writing, LinesApplied
<1>35. ASSUME NEW p \in Settings \cup {"off"}, EditProfile(p) PROVE ServedInv'
  BY <1>35 DEF EditProfile
<1>36. ASSUME ShutdownBegins PROVE ServedInv'
  BY <1>36 DEF ShutdownBegins
<1>37. ASSUME ShutdownDrains PROVE ServedInv'
  BY <1>37 DEF ShutdownDrains
<1>38. ASSUME ShutdownEnds PROVE ServedInv'
  BY <1>38 DEF ShutdownEnds
<1>39. ASSUME UNCHANGED vars PROVE ServedInv'
  BY <1>39 DEF vars
<1> QED
  BY ONLY [Next]_vars, <1>1, <1>2, <1>3, <1>4, <1>5, <1>6, <1>7, <1>8, <1>9, <1>10,
     <1>11, <1>12, <1>13, <1>14, <1>15, <1>16, <1>17, <1>18, <1>19, <1>20, <1>21,
     <1>22, <1>23, <1>24, <1>25, <1>26, <1>27, <1>28, <1>29, <1>30, <1>31, <1>32,
     <1>33, <1>34, <1>35, <1>36, <1>37, <1>38, <1>39, Zenon
  DEF Next, Preparing, Reading, Reconnecting, Writing

(* The two properties follow. *)
LEMMA PortIsReleased ==
    ASSUME SerialInv
    PROVE  ClosedIsQuiet /\ OpenFindsPortFree
<1> USE SerialAssumption DEF SerialInv, SerialTypes, PrepareFits, HandlesFit, LaneFits,
        ShutdownFits,
        Still, NoThreads, Runtimes, NoRuntime, OpenSteps, CloseSteps
<1>1. ASSUME Still PROVE \A r \in Runtimes :
        /\ serial = 0 /\ reader[r] = "none" /\ successor[r] = 0 /\ reconnect[r] = "none"
        /\ \A w \in Writers : target[w] = 0
    BY <1>1
<1>2. ASSUME Still, life \notin {"inserted", "spawned"} PROVE \A r \in Runtimes : ~Owned(r)
    BY <1>1, <1>2 DEF Owned
<1>3. ASSUME quiet, Running PROVE ClosedIsQuiet
    BY <1>1, <1>2, <1>3 DEF ClosedIsQuiet, PortFree, Pair, Running
<1>4. ASSUME shutdown = "released" PROVE ClosedIsQuiet
    BY <1>1, <1>2, <1>4 DEF ClosedIsQuiet, Running
<1>5. OpenFindsPortFree
    BY <1>1, <1>2 DEF OpenFindsPortFree, PortFree, Pair
<1> QED
    BY <1>3, <1>4, <1>5 DEF ClosedIsQuiet

\* What serves a runtime is what the property asks for.
LEMMA ServedIsServed == ASSUME SerialTypes, ServedInv PROVE StatusIsServed
BY DEF SerialTypes, ServedInv, Served, StatusIsServed, ShuttingDown, NoRuntime

\* Nothing is registered at the start.
LEMMA SerialInit == Init => SerialInv /\ ServedInv
BY SerialAssumption DEF Init, SerialInv, SerialTypes, PrepareFits, HandlesFit, LaneFits, ShutdownFits,
   ServedInv, Served, Still, NoThreads, NoRuntime, Runtimes, OpenSteps, CloseSteps, ShuttingDown

\* What serves a status does not depend on how early an open may be cancelled.
LEMMA ServedStep ==
    SerialTypes /\ HandlesFit /\ LaneFits /\ ServedInv /\ [Next]_vars
        => (SerialTypes /\ HandlesFit /\ LaneFits /\ ServedInv)'
BY SerialTypesStep, HandlesFitStep, LaneFitsStep, ServedInvStep, Zenon

\* Every step of a serial session keeps its invariant.
LEMMA SerialInvStep == LatePrepare = FALSE /\ SerialInv /\ [Next]_vars => SerialInv'
BY SerialTypesStep, PrepareFitsStep, HandlesFitStep, LaneFitsStep, ShutdownFitsStep, Zenon DEF SerialInv

-----------------------------------------------------------------------------
(* TCP and Telnet sessions: the inductive invariant.                        *)

TcpTypes ==
    /\ made \in 0 .. MaxRuntimes
    /\ left \in Budget
    /\ tcp \in 0 .. made
    /\ closed \subseteq 1 .. made
    /\ reader \in [Runtimes -> {"none", "reading", "replying", "ending", "handover", "removing"}]
    /\ reconnect \in [Runtimes -> {"none", "waiting", "loading", "trying",
                                    "stopping", "opened", "failing"}]

\* A registered runtime that is not being opened is in the hands of the one task
\* that its status tells.
TcpServed(r) ==
    \/ status = "Connected" /\ reader[r] \in {"reading", "replying", "ending"} /\ reconnect[r] = "none"
    \/ status = "Reconnecting" /\ reader[r] = "handover" /\ reconnect[r] = "none"
    \/ status = "Reconnecting" /\ reader[r] = "none" /\ reconnect[r] # "none"
    \/ status = "Disconnected" /\ reader[r] = "removing" /\ reconnect[r] = "none"

TcpInv ==
    /\ TcpTypes
    /\ tcp # 0 => tcp \notin closed
    /\ \A r \in Runtimes : made < r => reader[r] = "none" /\ reconnect[r] = "none"
    /\ life \in {"connecting", "cancelling", "tail"} => tcp = 0
    /\ life = "inserted" =>
         made \in Runtimes /\ tcp = made /\ reader[made] = "none" /\ reconnect[made] = "none"
    /\ life = "free" =>
         /\ tcp # 0 => TcpServed(tcp)
         /\ tcp = 0 => status \notin {"Connected", "Reconnecting"}

\* A bound that is used up by one remains a bound.
LEMMA SpendTypes ==
    ASSUME left \in Budget, NEW what \in {"chunks", "writes", "resizes", "edits"}, Tcp!Spend(what)
    PROVE  left' \in Budget
<1>1. CASE what = "chunks"
    BY <1>1 DEF Tcp!Spend, Budget
<1>2. CASE what = "writes"
    BY <1>2 DEF Tcp!Spend, Budget
<1>3. CASE what = "resizes"
    BY <1>3 DEF Tcp!Spend, Budget
<1>4. CASE what = "edits"
    BY <1>4 DEF Tcp!Spend, Budget
<1> QED
    BY <1>1, <1>2, <1>3, <1>4

\* Tasks that go on, with the registry as it was.
LEMMA TasksKeep ==
    ASSUME TcpInv, UNCHANGED <<made, left, tcp, closed, life, status>>,
           reader' \in [Runtimes -> {"none", "reading", "replying", "ending", "handover", "removing"}],
           reconnect' \in [Runtimes -> {"none", "waiting", "loading", "trying",
                                         "stopping", "opened", "failing"}],
           \A q \in Runtimes : made < q => reader'[q] = "none" /\ reconnect'[q] = "none",
           life = "inserted" => reader'[made] = "none" /\ reconnect'[made] = "none",
           life = "free" /\ tcp # 0 => TcpServed(tcp)'
    PROVE  TcpInv'
BY DEF TcpInv, TcpTypes

\* Every step of a TCP session keeps its invariant.
LEMMA TcpStepKeeps ==
    ASSUME TcpInv, [Tcp!Next]_(Tcp!vars)
    PROVE  TcpInv'
<1> USE SerialAssumption DEF TcpInv, TcpTypes, TcpServed, Runtimes, Tcp!Runtimes, Tcp!NoRuntime,
        Tcp!ActiveStatuses, Tcp!storeVars, Tcp!runtimeVars, Tcp!laneVars, Tcp!taskVars, Tcp!wireVars,
        Tcp!telnetVars, Tcp!writeVars, Tcp!resizeVars, Tcp!Current, Tcp!RemoveIfOwned,
        Tcp!Insert, Tcp!Pending, Tcp!ReconnectTo, Tcp!Superseded, Tcp!WriteEnds
<1>1. ASSUME Tcp!OpenSession PROVE TcpInv'
  BY <1>1 DEF Tcp!OpenSession
<1>2. ASSUME Tcp!CancelOpen PROVE TcpInv'
  BY <1>2 DEF Tcp!CancelOpen
<1>3. ASSUME Tcp!OpenCancelled PROVE TcpInv'
  BY <1>3 DEF Tcp!OpenCancelled
<1>4. ASSUME Tcp!OpenFailed PROVE TcpInv'
  BY <1>4 DEF Tcp!OpenFailed
<1>5. ASSUME Tcp!OpenInsert PROVE TcpInv'
  <2>1. left.runtimes \in 0 .. MaxRuntimes
    BY DEF Budget
  <2> QED
    BY <1>5, <2>1 DEF Tcp!OpenInsert
<1>6. ASSUME Tcp!OpenCommitted PROVE TcpInv'
  BY <1>6 DEF Tcp!OpenCommitted
<1>7. ASSUME Tcp!OpenCommitFailed PROVE TcpInv'
  BY <1>7 DEF Tcp!OpenCommitFailed
<1>8. ASSUME Tcp!CloseRemove PROVE TcpInv'
  BY <1>8 DEF Tcp!CloseRemove
<1>9. ASSUME Tcp!CloseFinish PROVE TcpInv'
  BY <1>9 DEF Tcp!CloseFinish
<1>10. ASSUME Tcp!EditProfile PROVE TcpInv'
  <2>1. left' \in Budget
    BY <1>10, SpendTypes DEF Tcp!EditProfile
  <2> QED
    BY <1>10, <2>1 DEF Tcp!EditProfile
<1>11. ASSUME NEW r \in Runtimes, Tcp!WriteReply(r) PROVE TcpInv'
  <2>1. reader' = reader \/ (reader[r] = "replying" /\ reader' = [reader EXCEPT ![r] = "reading"])
    BY <1>11 DEF Tcp!WriteReply
  <2>2. \A q \in Runtimes : reader'[q] = reader[q] \/ (reader[q] = "replying" /\ reader'[q] = "reading")
    BY <2>1
  <2>3. reader' \in [Runtimes -> {"none", "reading", "replying", "ending", "handover", "removing"}]
    BY <2>1
  <2>4. /\ UNCHANGED <<made, left, tcp, closed, reconnect, life, status>>
        /\ reconnect' \in [Runtimes -> {"none", "waiting", "loading", "trying",
                                         "stopping", "opened", "failing"}]
    BY <1>11 DEF Tcp!WriteReply
  <2>20. \A q \in Runtimes : made < q => reader'[q] = "none" /\ reconnect'[q] = "none"
    BY <2>2, <2>3, <2>4
  <2>21. life = "inserted" => reader'[made] = "none" /\ reconnect'[made] = "none"
    BY <2>2, <2>3, <2>4
  <2>22. life = "free" /\ tcp # 0 => TcpServed(tcp)'
    BY <2>2, <2>3, <2>4
  <2> QED
    BY ONLY <2>2, <2>3, <2>4, <2>20, <2>21, <2>22, TcpInv, TasksKeep, Zenon
<1>12. ASSUME NEW r \in Runtimes, Tcp!WriteReplyFails(r) PROVE TcpInv'
  BY <1>12 DEF Tcp!WriteReplyFails
<1>13. ASSUME NEW r \in Runtimes, Tcp!ReadEnds(r) PROVE TcpInv'
  BY <1>13 DEF Tcp!ReadEnds
<1>14. ASSUME NEW r \in Runtimes, Tcp!ReaderTransition(r) PROVE TcpInv'
  <2>1. PICK x \in {"none", "handover", "removing"} :
          /\ reader' = [reader EXCEPT ![r] = x]
          /\ reader[r] = "ending"
          /\ \/ tcp # r /\ x = "none" /\ status' = status
             \/ tcp = r /\ x = "handover" /\ status' = "Reconnecting"
             \/ tcp = r /\ x = "removing" /\ status' = "Disconnected"
    BY <1>14 DEF Tcp!ReaderTransition
  <2>2. UNCHANGED <<made, left, tcp, closed, reconnect, life>>
    BY <1>14 DEF Tcp!ReaderTransition
  <2>3. /\ reader' \in [Runtimes -> {"none", "reading", "replying", "ending", "handover", "removing"}]
        /\ reader'[r] = x /\ \A q \in Runtimes \ {r} : reader'[q] = reader[q]
    BY <2>1
  <2>4. TcpTypes' /\ \A q \in Runtimes : made' < q => reader'[q] = "none" /\ reconnect'[q] = "none"
    BY <2>1, <2>2, <2>3
  <2>5. life' = "inserted" => reader'[made'] = "none"
    BY <2>1, <2>2, <2>3
  <2>6. life = "free" /\ tcp # 0 => TcpServed(tcp)'
    BY <2>1, <2>2, <2>3
  <2>7. life = "free" /\ tcp = 0 => status' \notin {"Connected", "Reconnecting"}
    BY <2>1
  <2> QED
    BY <2>2, <2>4, <2>5, <2>6, <2>7
<1>15. ASSUME NEW r \in Runtimes, Tcp!ReaderHandsOver(r) PROVE TcpInv'
  BY <1>15 DEF Tcp!ReaderHandsOver
<1>16. ASSUME NEW r \in Runtimes, Tcp!ReaderRemoves(r) PROVE TcpInv'
  BY <1>16 DEF Tcp!ReaderRemoves
<1>17. ASSUME NEW r \in Runtimes, NEW chunk \in Chunks, Tcp!ReadChunk(r, chunk) PROVE TcpInv'
  <2>1. left' \in Budget
    BY <1>17, SpendTypes DEF Tcp!ReadChunk
  <2> QED
    BY <1>17, <2>1 DEF Tcp!ReadChunk
<1>18. ASSUME NEW r \in Runtimes, Tcp!ReconnectWait(r) PROVE TcpInv'
  BY <1>18 DEF Tcp!ReconnectWait
<1>19. ASSUME NEW r \in Runtimes, Tcp!ReconnectLoad(r) PROVE TcpInv'
  <2>1. PICK x \in {"trying", "stopping"} : reconnect' = [reconnect EXCEPT ![r] = x]
    BY <1>19 DEF Tcp!ReconnectLoad
  <2>2. /\ reconnect' \in [Runtimes -> {"none", "waiting", "loading", "trying",
                                       "stopping", "opened", "failing"}]
        /\ reconnect'[r] = x /\ \A q \in Runtimes \ {r} : reconnect'[q] = reconnect[q]
    BY <2>1
  <2>3. /\ reconnect[r] = "loading" /\ UNCHANGED <<made, left, tcp, closed, reader, life, status>>
        /\ reader' \in [Runtimes -> {"none", "reading", "replying", "ending", "handover", "removing"}]
    BY <1>19 DEF Tcp!ReconnectLoad
  <2>20. \A q \in Runtimes : made < q => reader'[q] = "none" /\ reconnect'[q] = "none"
    BY <2>2, <2>3
  <2>21. life = "inserted" => reader'[made] = "none" /\ reconnect'[made] = "none"
    BY <2>2, <2>3
  <2>22. life = "free" /\ tcp # 0 => TcpServed(tcp)'
    BY <2>2, <2>3
  <2> QED
    BY ONLY <2>2, <2>3, <2>20, <2>21, <2>22, TcpInv, TasksKeep, Zenon
<1>20. ASSUME NEW r \in Runtimes, Tcp!ReconnectStop(r) PROVE TcpInv'
  <2>1. PICK x \in {"none", "waiting"} : reconnect' = [reconnect EXCEPT ![r] = x]
    BY <1>20 DEF Tcp!ReconnectStop
  <2>2. /\ reconnect' \in [Runtimes -> {"none", "waiting", "loading", "trying",
                                       "stopping", "opened", "failing"}]
        /\ reconnect'[r] = x /\ \A q \in Runtimes \ {r} : reconnect'[q] = reconnect[q]
    BY <2>1
  <2>3. /\ reconnect[r] # "none" /\ UNCHANGED <<made, left, reader, life>>
        /\ \/ UNCHANGED <<tcp, closed, status>> /\ (x = "none" => tcp # r)
           \/ /\ tcp = r /\ tcp' = 0 /\ closed' = closed \cup {r}
              /\ status' = "Disconnected"
    BY <1>20, <2>2 DEF Tcp!ReconnectStop
  <2>4. r \in 1 .. made
    BY <2>3
  <2>5. CASE UNCHANGED <<tcp, closed, status>> /\ (x = "none" => tcp # r)
    <3>19. reader' \in [Runtimes -> {"none", "reading", "replying", "ending", "handover", "removing"}]
      BY <2>3
    <3>20. \A q \in Runtimes : made < q => reader'[q] = "none" /\ reconnect'[q] = "none"
      BY <2>2, <2>3, <2>5
    <3>21. life = "inserted" => reader'[made] = "none" /\ reconnect'[made] = "none"
      BY <2>2, <2>3, <2>5
    <3>22. life = "free" /\ tcp # 0 => TcpServed(tcp)'
      BY <2>2, <2>3, <2>5
    <3> QED
      BY ONLY <2>2, <2>3, <2>5, <3>19, <3>20, <3>21, <3>22, TcpInv, TasksKeep, Zenon
  <2>6. CASE tcp = r /\ tcp' = 0 /\ closed' = closed \cup {r} /\ status' = "Disconnected"
    BY <2>2, <2>3, <2>4, <2>6
  <2> QED
    BY <2>3, <2>5, <2>6
<1>21. ASSUME NEW r \in Runtimes, Tcp!ReconnectFails(r) PROVE TcpInv'
  BY <1>21 DEF Tcp!ReconnectFails
<1>22. ASSUME NEW r \in Runtimes, Tcp!ReconnectConnects(r) PROVE TcpInv'
  BY <1>22 DEF Tcp!ReconnectConnects
<1>23. ASSUME NEW r \in Runtimes, Tcp!ReconnectRefused(r) PROVE TcpInv'
  <2>1. PICK x \in {"none", "waiting"} : reconnect' = [reconnect EXCEPT ![r] = x]
    BY <1>23 DEF Tcp!ReconnectRefused
  <2>2. /\ reconnect' \in [Runtimes -> {"none", "waiting", "loading", "trying",
                                       "stopping", "opened", "failing"}]
        /\ reconnect'[r] = x /\ \A q \in Runtimes \ {r} : reconnect'[q] = reconnect[q]
    BY <2>1
  <2>3. /\ reconnect[r] # "none" /\ UNCHANGED <<made, left, reader, life>>
        /\ \/ UNCHANGED <<tcp, closed, status>> /\ (x = "none" => tcp # r)
           \/ /\ tcp = r /\ tcp' = 0 /\ closed' = closed \cup {r}
              /\ status' = "Disconnected"
    BY <1>23, <2>2 DEF Tcp!ReconnectRefused
  <2>4. r \in 1 .. made
    BY <2>3
  <2>5. CASE UNCHANGED <<tcp, closed, status>> /\ (x = "none" => tcp # r)
    <3>19. reader' \in [Runtimes -> {"none", "reading", "replying", "ending", "handover", "removing"}]
      BY <2>3
    <3>20. \A q \in Runtimes : made < q => reader'[q] = "none" /\ reconnect'[q] = "none"
      BY <2>2, <2>3, <2>5
    <3>21. life = "inserted" => reader'[made] = "none" /\ reconnect'[made] = "none"
      BY <2>2, <2>3, <2>5
    <3>22. life = "free" /\ tcp # 0 => TcpServed(tcp)'
      BY <2>2, <2>3, <2>5
    <3> QED
      BY ONLY <2>2, <2>3, <2>5, <3>19, <3>20, <3>21, <3>22, TcpInv, TasksKeep, Zenon
  <2>6. CASE tcp = r /\ tcp' = 0 /\ closed' = closed \cup {r} /\ status' = "Disconnected"
    BY <2>2, <2>3, <2>4, <2>6
  <2> QED
    BY <2>3, <2>5, <2>6
<1>24. ASSUME NEW r \in Runtimes, Tcp!ReconnectInstalls(r) PROVE TcpInv'
  <2>1. left.runtimes \in 0 .. MaxRuntimes
    BY DEF Budget
  <2> QED
    BY <1>24, <2>1 DEF Tcp!ReconnectInstalls
<1>25. ASSUME NEW r \in Runtimes, Tcp!ReconnectCommitFails(r) PROVE TcpInv'
  BY <1>25 DEF Tcp!ReconnectCommitFails
<1>26. ASSUME NEW r \in Runtimes, Tcp!ReconnectGivesUp(r) PROVE TcpInv'
  BY <1>26 DEF Tcp!ReconnectGivesUp
<1>27. ASSUME NEW w \in Writers, Tcp!WriteStart(w) PROVE TcpInv'
  <2>1. left' \in Budget
    BY <1>27, SpendTypes DEF Tcp!WriteStart
  <2> QED
    BY <1>27, <2>1 DEF Tcp!WriteStart
<1>28. ASSUME NEW w \in Writers, Tcp!WriteEncode(w) PROVE TcpInv'
  BY <1>28 DEF Tcp!WriteEncode
<1>29. ASSUME NEW w \in Writers, Tcp!WriteRefused(w) PROVE TcpInv'
  BY <1>29 DEF Tcp!WriteRefused
<1>30. ASSUME NEW w \in Writers, Tcp!WriteSends(w) PROVE TcpInv'
  BY <1>30 DEF Tcp!WriteSends
<1>31. ASSUME NEW w \in Writers, Tcp!WriteFails(w) PROVE TcpInv'
  BY <1>31 DEF Tcp!WriteFails
<1>32. ASSUME NEW s \in Sizes, Tcp!ResizeStart(s) PROVE TcpInv'
  <2>1. left' \in Budget
    BY <1>32, SpendTypes DEF Tcp!ResizeStart
  <2> QED
    BY <1>32, <2>1 DEF Tcp!ResizeStart
<1>33. ASSUME Tcp!ResizeTell PROVE TcpInv'
  BY <1>33 DEF Tcp!ResizeTell
<1>34. ASSUME Tcp!ResizeSends PROVE TcpInv'
  BY <1>34 DEF Tcp!ResizeSends
<1>35. ASSUME Tcp!ResizeFails PROVE TcpInv'
  BY <1>35 DEF Tcp!ResizeFails
<1>36. ASSUME Tcp!ResizeCommit PROVE TcpInv'
  BY <1>36 DEF Tcp!ResizeCommit
<1>37. ASSUME UNCHANGED Tcp!vars PROVE TcpInv'
  BY <1>37 DEF Tcp!vars
<1> QED
  BY ONLY [Tcp!Next]_(Tcp!vars), <1>1, <1>2, <1>3, <1>4, <1>5, <1>6, <1>7, <1>8, <1>9,
     <1>10, <1>11, <1>12, <1>13, <1>14, <1>15, <1>16, <1>17, <1>18, <1>19, <1>20,
     <1>21, <1>22, <1>23, <1>24, <1>25, <1>26, <1>27, <1>28, <1>29, <1>30, <1>31,
     <1>32, <1>33, <1>34, <1>35, <1>36, <1>37, Zenon
  DEF Tcp!Next, Tcp!Lifecycle, Tcp!ReaderStep, Tcp!ReconnectStep, Tcp!WriterStep,
          Tcp!ResizeStep, Runtimes, Tcp!Runtimes

\* Nothing is registered at the start.
LEMMA TcpInit == Tcp!Init => TcpInv
BY SerialAssumption, KindsAssumption
   DEF Tcp!Init, TcpInv, TcpTypes, TcpServed, Budget, Runtimes, Tcp!Runtimes, Tcp!NoRuntime

\* The property follows.
LEMMA TcpIsServed == TcpInv => Tcp!TcpStatusIsServed
BY SerialAssumption DEF TcpInv, TcpTypes, TcpServed, Tcp!TcpStatusIsServed, Tcp!NoRuntime, Runtimes

-----------------------------------------------------------------------------
(* Local shell sessions: the inductive invariant.                           *)

ShellTypes ==
    /\ made \in 0 .. MaxRuntimes
    /\ shell \in 0 .. made
    /\ start \in [Runtimes -> {"none", "starting", "ready", "failed", "taken", "dropped"}]
    /\ child \in [Runtimes -> {"none", "running", "exited", "reaped"}]
    /\ reaper \in [Runtimes -> {"none", "polling", "killed", "done", "panicked"}]
    /\ reader \in [Runtimes -> {"none", "gate", "reading", "ending", "reporting", "removing"}]
    /\ target \in [Writers -> 0 .. made]

\* A child that was not yet started has no reaper, one that was not yet handed
\* over has no reader, and who lets a child go has left it to the reaper.
ChildrenFit ==
    /\ \A r \in Runtimes :
         /\ made < r => start[r] = "none"
         /\ start[r] \in {"none", "starting"} => child[r] = "none" /\ reaper[r] = "none"
         /\ reaper[r] = "done" => child[r] = "reaped"
         /\ reader[r] # "none" => start[r] = "taken"
         /\ reader[r] \in {"reporting", "removing"} => reaper[r] # "none"
    /\ shell # 0 => start[shell] = "taken"
    /\ \A w \in Writers : target[w] # 0 => start[target[w]] = "taken"

\* What the lane, the registry and the status have to do with one another.
ShellFits ==
    /\ life \in {"preparing", "failed", "tail"} => shell = 0
    /\ life = "preparing" => made # 0
    /\ life \in {"inserted", "spawned"} => shell = made /\ shell # 0
    /\ life = "inserted" => reader[made] = "none"
    /\ life = "spawned" => reader[made] = "gate"
    /\ life \in {"free", "installed"} =>
         /\ shell # 0 =>
              \/ status = "Connected" /\ reader[shell] \in {"reading", "ending", "reporting"}
              \/ status = "Disconnected" /\ reader[shell] = "removing"
         /\ shell = 0 => status # "Connected"

ChildrenKept == Shell!NoChildIsLost

ShellInv == ShellTypes /\ ChildrenFit /\ ShellFits /\ ChildrenKept

\* Every step of a shell session keeps the types.
LEMMA ShellTypesStep ==
    ASSUME ShellInv, [Shell!Next]_(Shell!vars)
    PROVE  ShellTypes'
<1> USE SerialAssumption DEF ShellInv, ShellTypes, ChildrenFit, ShellFits, Runtimes,
        Shell!Runtimes, Shell!NoRuntime,
        Shell!ActiveStatuses, Shell!runtimeVars, Shell!laneVars, Shell!childVars, Shell!writeVars,
        Shell!Cleaned
<1>1. ASSUME Shell!OpenSession PROVE ShellTypes'
  BY <1>1 DEF Shell!OpenSession
<1>2. ASSUME Shell!CancelOpen PROVE ShellTypes'
  BY <1>2 DEF Shell!CancelOpen
<1>3. ASSUME Shell!OpenCancelled PROVE ShellTypes'
  BY <1>3 DEF Shell!OpenCancelled
<1>4. ASSUME Shell!OpenPrepareFailed PROVE ShellTypes'
  BY <1>4 DEF Shell!OpenPrepareFailed
<1>5. ASSUME Shell!InstallRuntime PROVE ShellTypes'
  BY <1>5 DEF Shell!InstallRuntime
<1>6. ASSUME Shell!InstallReader PROVE ShellTypes'
  BY <1>6 DEF Shell!InstallReader
<1>7. ASSUME Shell!InstallCommits PROVE ShellTypes'
  BY <1>7 DEF Shell!InstallCommits
<1>8. ASSUME Shell!InstallFails PROVE ShellTypes'
  BY <1>8 DEF Shell!InstallFails
<1>9. ASSUME Shell!OpenReturns PROVE ShellTypes'
  BY <1>9 DEF Shell!OpenReturns
<1>10. ASSUME Shell!CloseRemove PROVE ShellTypes'
  BY <1>10 DEF Shell!CloseRemove
<1>11. ASSUME Shell!CloseFinish PROVE ShellTypes'
  BY <1>11 DEF Shell!CloseFinish
<1>12. ASSUME NEW r \in Runtimes, Shell!ChildExits(r) PROVE ShellTypes'
  BY <1>12 DEF Shell!ChildExits
<1>13. ASSUME NEW r \in Runtimes, Shell!ReaperPolls(r) PROVE ShellTypes'
  <2>1. \E x \in {"polling", "killed", "done"} : reaper' = [reaper EXCEPT ![r] = x] \/ reaper' = reaper
    BY <1>13 DEF Shell!ReaperPolls
  <2>2. child' = child \/ child' = [child EXCEPT ![r] = "reaped"]
    BY <1>13 DEF Shell!ReaperPolls
  <2>3. UNCHANGED <<made, shell, start, reader, target>>
    BY <1>13 DEF Shell!ReaperPolls
  <2> QED
    BY <2>1, <2>2, <2>3
<1>14. ASSUME NEW r \in Runtimes, Shell!ReadEnds(r) PROVE ShellTypes'
  BY <1>14 DEF Shell!ReadEnds
<1>15. ASSUME NEW r \in Runtimes, Shell!ReadFindsExit(r) PROVE ShellTypes'
  BY <1>15 DEF Shell!ReadFindsExit
<1>16. ASSUME NEW r \in Runtimes, Shell!ReaderCleans(r) PROVE ShellTypes'
  BY <1>16 DEF Shell!ReaderCleans
<1>17. ASSUME NEW r \in Runtimes, Shell!ReaderReports(r) PROVE ShellTypes'
  BY <1>17 DEF Shell!ReaderReports
<1>18. ASSUME NEW r \in Runtimes, Shell!ReaderRemoves(r) PROVE ShellTypes'
  BY <1>18 DEF Shell!ReaderRemoves
<1>19. ASSUME NEW r \in Runtimes, Shell!PrepareStarts(r) PROVE ShellTypes'
  <2>1. /\ child' = [child EXCEPT ![r] = "running"]
        /\ \E x \in {"ready", "failed"} : start' = [start EXCEPT ![r] = x]
        /\ UNCHANGED <<made, shell, reader, target>>
    BY <1>19 DEF Shell!PrepareStarts
  <2>3. reaper' \in [Runtimes -> {"none", "polling", "killed", "done", "panicked"}]
    BY <1>19 DEF Shell!PrepareStarts
  <2>4. child' \in [Runtimes -> {"none", "running", "exited", "reaped"}]
    BY <2>1
  <2>5. start' \in [Runtimes -> {"none", "starting", "ready", "failed", "taken", "dropped"}]
    BY <2>1
  <2> QED
    BY <2>1, <2>3, <2>4, <2>5
<1>20. ASSUME NEW r \in Runtimes, Shell!PrepareFails(r) PROVE ShellTypes'
  BY <1>20 DEF Shell!PrepareFails
<1>21. ASSUME NEW r \in Runtimes, Shell!PrepareDropped(r) PROVE ShellTypes'
  BY <1>21 DEF Shell!PrepareDropped
<1>22. ASSUME NEW w \in Writers, Shell!WriteStarts(w) PROVE ShellTypes'
  BY <1>22 DEF Shell!WriteStarts
<1>23. ASSUME NEW w \in Writers, Shell!WriteCompletes(w) PROVE ShellTypes'
  BY <1>23 DEF Shell!WriteCompletes
<1>24. ASSUME NEW w \in Writers, Shell!WriteFails(w) PROVE ShellTypes'
  <2>1. target' \in [Writers -> 0 .. made] /\ UNCHANGED <<made, shell, start, child, reader>>
    BY <1>24 DEF Shell!WriteFails
  <2>2. reaper' \in [Runtimes -> {"none", "polling", "killed", "done", "panicked"}]
    BY <1>24 DEF Shell!WriteFails
  <2> QED
    BY <2>1, <2>2
<1>25. ASSUME UNCHANGED Shell!vars PROVE ShellTypes'
  BY <1>25 DEF Shell!vars
<1>26. ASSUME NEW r \in Runtimes, Shell!ReaperPanics(r) PROVE ShellTypes'
  BY <1>26 DEF Shell!ReaperPanics
<1> QED
  BY ONLY [Shell!Next]_(Shell!vars), <1>1, <1>2, <1>3, <1>4, <1>5, <1>6, <1>7, <1>8,
     <1>9, <1>10, <1>11, <1>12, <1>13, <1>14, <1>15, <1>16, <1>17, <1>18, <1>19,
     <1>20, <1>21, <1>22, <1>23, <1>24, <1>25, <1>26, Zenon
  DEF Shell!Next, Shell!Lifecycle, Shell!ReaderStep, Runtimes, Shell!Runtimes

\* A child belongs to the step its runtime has reached.
LEMMA ChildrenFitStep ==
    ASSUME ShellInv, [Shell!Next]_(Shell!vars)
    PROVE  ChildrenFit'
<1> USE SerialAssumption DEF ShellInv, ShellTypes, ChildrenFit, ShellFits, Runtimes,
        Shell!Runtimes, Shell!NoRuntime,
        Shell!ActiveStatuses, Shell!runtimeVars, Shell!laneVars, Shell!childVars, Shell!writeVars,
        Shell!Cleaned
<1>1. ASSUME Shell!OpenSession PROVE ChildrenFit'
  BY <1>1 DEF Shell!OpenSession
<1>2. ASSUME Shell!CancelOpen PROVE ChildrenFit'
  BY <1>2 DEF Shell!CancelOpen
<1>3. ASSUME Shell!OpenCancelled PROVE ChildrenFit'
  BY <1>3 DEF Shell!OpenCancelled
<1>4. ASSUME Shell!OpenPrepareFailed PROVE ChildrenFit'
  BY <1>4 DEF Shell!OpenPrepareFailed
<1>5. ASSUME Shell!InstallRuntime PROVE ChildrenFit'
  BY <1>5 DEF Shell!InstallRuntime
<1>6. ASSUME Shell!InstallReader PROVE ChildrenFit'
  BY <1>6 DEF Shell!InstallReader
<1>7. ASSUME Shell!InstallCommits PROVE ChildrenFit'
  BY <1>7 DEF Shell!InstallCommits
<1>8. ASSUME Shell!InstallFails PROVE ChildrenFit'
  BY <1>8 DEF Shell!InstallFails
<1>9. ASSUME Shell!OpenReturns PROVE ChildrenFit'
  BY <1>9 DEF Shell!OpenReturns
<1>10. ASSUME Shell!CloseRemove PROVE ChildrenFit'
  BY <1>10 DEF Shell!CloseRemove
<1>11. ASSUME Shell!CloseFinish PROVE ChildrenFit'
  BY <1>11 DEF Shell!CloseFinish
<1>12. ASSUME NEW r \in Runtimes, Shell!ChildExits(r) PROVE ChildrenFit'
  BY <1>12 DEF Shell!ChildExits
<1>13. ASSUME NEW r \in Runtimes, Shell!ReaperPolls(r) PROVE ChildrenFit'
  BY <1>13 DEF Shell!ReaperPolls
<1>14. ASSUME NEW r \in Runtimes, Shell!ReadEnds(r) PROVE ChildrenFit'
  BY <1>14 DEF Shell!ReadEnds
<1>15. ASSUME NEW r \in Runtimes, Shell!ReadFindsExit(r) PROVE ChildrenFit'
  BY <1>15 DEF Shell!ReadFindsExit
<1>16. ASSUME NEW r \in Runtimes, Shell!ReaderCleans(r) PROVE ChildrenFit'
  BY <1>16 DEF Shell!ReaderCleans
<1>17. ASSUME NEW r \in Runtimes, Shell!ReaderReports(r) PROVE ChildrenFit'
  BY <1>17 DEF Shell!ReaderReports
<1>18. ASSUME NEW r \in Runtimes, Shell!ReaderRemoves(r) PROVE ChildrenFit'
  BY <1>18 DEF Shell!ReaderRemoves
<1>19. ASSUME NEW r \in Runtimes, Shell!PrepareStarts(r) PROVE ChildrenFit'
  <2>1. /\ child' = [child EXCEPT ![r] = "running"] /\ start[r] = "starting"
        /\ \E x \in {"ready", "failed"} : start' = [start EXCEPT ![r] = x]
        /\ UNCHANGED <<made, shell, reader, target>>
    BY <1>19 DEF Shell!PrepareStarts
  <2>2. \A q \in Runtimes : reaper'[q] = reaper[q] \/ q = r
    BY <1>19 DEF Shell!PrepareStarts
  <2>3. reaper'[r] \in {"none", "polling"} /\ reader[r] = "none"
    BY <1>19 DEF Shell!PrepareStarts
  <2>4. /\ start'[r] \in {"ready", "failed"} /\ child'[r] = "running"
        /\ \A q \in Runtimes \ {r} : start'[q] = start[q] /\ child'[q] = child[q]
    BY <2>1
  <2>5. /\ made < r => start'[r] = "none"
        /\ shell # r
    BY <2>1
  <2>9. ASSUME NEW w \in Writers, target[w] # 0 PROVE target[w] \in Runtimes /\ target[w] # r
    BY <2>1, <2>9
  <2>6. \A q \in Runtimes :
         /\ made < q => start'[q] = "none"
         /\ start'[q] \in {"none", "starting"} => child'[q] = "none" /\ reaper'[q] = "none"
         /\ reaper'[q] = "done" => child'[q] = "reaped"
         /\ reader[q] # "none" => start'[q] = "taken"
         /\ reader[q] \in {"reporting", "removing"} => reaper'[q] # "none"
    BY <2>2, <2>3, <2>4, <2>5
  <2>7. shell # 0 => start'[shell] = "taken"
    BY <2>4, <2>5
  <2>8. \A w \in Writers : target[w] # 0 => start'[target[w]] = "taken"
    BY <2>4, <2>9
  <2> QED
    BY <2>1, <2>6, <2>7, <2>8
<1>20. ASSUME NEW r \in Runtimes, Shell!PrepareFails(r) PROVE ChildrenFit'
  BY <1>20 DEF Shell!PrepareFails
<1>21. ASSUME NEW r \in Runtimes, Shell!PrepareDropped(r) PROVE ChildrenFit'
  BY <1>21 DEF Shell!PrepareDropped
<1>22. ASSUME NEW w \in Writers, Shell!WriteStarts(w) PROVE ChildrenFit'
  BY <1>22 DEF Shell!WriteStarts
<1>23. ASSUME NEW w \in Writers, Shell!WriteCompletes(w) PROVE ChildrenFit'
  BY <1>23 DEF Shell!WriteCompletes
<1>24. ASSUME NEW w \in Writers, Shell!WriteFails(w) PROVE ChildrenFit'
  BY <1>24 DEF Shell!WriteFails
<1>25. ASSUME UNCHANGED Shell!vars PROVE ChildrenFit'
  BY <1>25 DEF Shell!vars
<1>26. ASSUME NEW r \in Runtimes, Shell!ReaperPanics(r) PROVE ChildrenFit'
  BY <1>26 DEF Shell!ReaperPanics
<1> QED
  BY ONLY [Shell!Next]_(Shell!vars), <1>1, <1>2, <1>3, <1>4, <1>5, <1>6, <1>7, <1>8,
     <1>9, <1>10, <1>11, <1>12, <1>13, <1>14, <1>15, <1>16, <1>17, <1>18, <1>19,
     <1>20, <1>21, <1>22, <1>23, <1>24, <1>25, <1>26, Zenon
  DEF Shell!Next, Shell!Lifecycle, Shell!ReaderStep, Runtimes, Shell!Runtimes

\* The lane, the registry and the status agree.
LEMMA ShellFitsStep ==
    ASSUME ShellInv, [Shell!Next]_(Shell!vars)
    PROVE  ShellFits'
<1> USE SerialAssumption DEF ShellInv, ShellTypes, ChildrenFit, ShellFits, Runtimes,
        Shell!Runtimes, Shell!NoRuntime,
        Shell!ActiveStatuses, Shell!runtimeVars, Shell!laneVars, Shell!childVars, Shell!writeVars,
        Shell!Cleaned
<1>1. ASSUME Shell!OpenSession PROVE ShellFits'
  BY <1>1 DEF Shell!OpenSession
<1>2. ASSUME Shell!CancelOpen PROVE ShellFits'
  BY <1>2 DEF Shell!CancelOpen
<1>3. ASSUME Shell!OpenCancelled PROVE ShellFits'
  BY <1>3 DEF Shell!OpenCancelled
<1>4. ASSUME Shell!OpenPrepareFailed PROVE ShellFits'
  BY <1>4 DEF Shell!OpenPrepareFailed
<1>5. ASSUME Shell!InstallRuntime PROVE ShellFits'
  BY <1>5 DEF Shell!InstallRuntime
<1>6. ASSUME Shell!InstallReader PROVE ShellFits'
  BY <1>6 DEF Shell!InstallReader
<1>7. ASSUME Shell!InstallCommits PROVE ShellFits'
  BY <1>7 DEF Shell!InstallCommits
<1>8. ASSUME Shell!InstallFails PROVE ShellFits'
  BY <1>8 DEF Shell!InstallFails
<1>9. ASSUME Shell!OpenReturns PROVE ShellFits'
  BY <1>9 DEF Shell!OpenReturns
<1>10. ASSUME Shell!CloseRemove PROVE ShellFits'
  BY <1>10 DEF Shell!CloseRemove
<1>11. ASSUME Shell!CloseFinish PROVE ShellFits'
  BY <1>11 DEF Shell!CloseFinish
<1>12. ASSUME NEW r \in Runtimes, Shell!ChildExits(r) PROVE ShellFits'
  BY <1>12 DEF Shell!ChildExits
<1>13. ASSUME NEW r \in Runtimes, Shell!ReaperPolls(r) PROVE ShellFits'
  BY <1>13 DEF Shell!ReaperPolls
<1>14. ASSUME NEW r \in Runtimes, Shell!ReadEnds(r) PROVE ShellFits'
  BY <1>14 DEF Shell!ReadEnds
<1>15. ASSUME NEW r \in Runtimes, Shell!ReadFindsExit(r) PROVE ShellFits'
  BY <1>15 DEF Shell!ReadFindsExit
<1>16. ASSUME NEW r \in Runtimes, Shell!ReaderCleans(r) PROVE ShellFits'
  BY <1>16 DEF Shell!ReaderCleans
<1>17. ASSUME NEW r \in Runtimes, Shell!ReaderReports(r) PROVE ShellFits'
  BY <1>17 DEF Shell!ReaderReports
<1>18. ASSUME NEW r \in Runtimes, Shell!ReaderRemoves(r) PROVE ShellFits'
  BY <1>18 DEF Shell!ReaderRemoves
<1>19. ASSUME NEW r \in Runtimes, Shell!PrepareStarts(r) PROVE ShellFits'
  BY <1>19 DEF Shell!PrepareStarts
<1>20. ASSUME NEW r \in Runtimes, Shell!PrepareFails(r) PROVE ShellFits'
  BY <1>20 DEF Shell!PrepareFails
<1>21. ASSUME NEW r \in Runtimes, Shell!PrepareDropped(r) PROVE ShellFits'
  BY <1>21 DEF Shell!PrepareDropped
<1>22. ASSUME NEW w \in Writers, Shell!WriteStarts(w) PROVE ShellFits'
  BY <1>22 DEF Shell!WriteStarts
<1>23. ASSUME NEW w \in Writers, Shell!WriteCompletes(w) PROVE ShellFits'
  BY <1>23 DEF Shell!WriteCompletes
<1>24. ASSUME NEW w \in Writers, Shell!WriteFails(w) PROVE ShellFits'
  BY <1>24 DEF Shell!WriteFails
<1>25. ASSUME UNCHANGED Shell!vars PROVE ShellFits'
  BY <1>25 DEF Shell!vars
<1>26. ASSUME NEW r \in Runtimes, Shell!ReaperPanics(r) PROVE ShellFits'
  BY <1>26 DEF Shell!ReaperPanics
<1> QED
  BY ONLY [Shell!Next]_(Shell!vars), <1>1, <1>2, <1>3, <1>4, <1>5, <1>6, <1>7, <1>8,
     <1>9, <1>10, <1>11, <1>12, <1>13, <1>14, <1>15, <1>16, <1>17, <1>18, <1>19,
     <1>20, <1>21, <1>22, <1>23, <1>24, <1>25, <1>26, Zenon
  DEF Shell!Next, Shell!Lifecycle, Shell!ReaderStep, Runtimes, Shell!Runtimes

\* A child never loses its last owner.
LEMMA ChildrenKeptStep ==
    ASSUME ShellInv, [Shell!Next]_(Shell!vars)
    PROVE  ChildrenKept'
<1> USE SerialAssumption DEF ShellInv, ShellTypes, ChildrenFit, ShellFits, ChildrenKept,
        Shell!NoChildIsLost, Runtimes, Shell!Runtimes, Shell!NoRuntime,
        Shell!ActiveStatuses, Shell!runtimeVars, Shell!laneVars, Shell!childVars, Shell!writeVars,
        Shell!Cleaned
<1>1. ASSUME Shell!OpenSession PROVE ChildrenKept'
  BY <1>1 DEF Shell!OpenSession
<1>2. ASSUME Shell!CancelOpen PROVE ChildrenKept'
  BY <1>2 DEF Shell!CancelOpen
<1>3. ASSUME Shell!OpenCancelled PROVE ChildrenKept'
  BY <1>3 DEF Shell!OpenCancelled
<1>4. ASSUME Shell!OpenPrepareFailed PROVE ChildrenKept'
  BY <1>4 DEF Shell!OpenPrepareFailed
<1>5. ASSUME Shell!InstallRuntime PROVE ChildrenKept'
  BY <1>5 DEF Shell!InstallRuntime
<1>6. ASSUME Shell!InstallReader PROVE ChildrenKept'
  BY <1>6 DEF Shell!InstallReader
<1>7. ASSUME Shell!InstallCommits PROVE ChildrenKept'
  BY <1>7 DEF Shell!InstallCommits
<1>8. ASSUME Shell!InstallFails PROVE ChildrenKept'
  BY <1>8 DEF Shell!InstallFails
<1>9. ASSUME Shell!OpenReturns PROVE ChildrenKept'
  BY <1>9 DEF Shell!OpenReturns
<1>10. ASSUME Shell!CloseRemove PROVE ChildrenKept'
  BY <1>10 DEF Shell!CloseRemove
<1>11. ASSUME Shell!CloseFinish PROVE ChildrenKept'
  BY <1>11 DEF Shell!CloseFinish
<1>12. ASSUME NEW r \in Runtimes, Shell!ChildExits(r) PROVE ChildrenKept'
  BY <1>12 DEF Shell!ChildExits
<1>13. ASSUME NEW r \in Runtimes, Shell!ReaperPolls(r) PROVE ChildrenKept'
  BY <1>13 DEF Shell!ReaperPolls
<1>14. ASSUME NEW r \in Runtimes, Shell!ReadEnds(r) PROVE ChildrenKept'
  BY <1>14 DEF Shell!ReadEnds
<1>15. ASSUME NEW r \in Runtimes, Shell!ReadFindsExit(r) PROVE ChildrenKept'
  BY <1>15 DEF Shell!ReadFindsExit
<1>16. ASSUME NEW r \in Runtimes, Shell!ReaderCleans(r) PROVE ChildrenKept'
  BY <1>16 DEF Shell!ReaderCleans
<1>17. ASSUME NEW r \in Runtimes, Shell!ReaderReports(r) PROVE ChildrenKept'
  BY <1>17 DEF Shell!ReaderReports
<1>18. ASSUME NEW r \in Runtimes, Shell!ReaderRemoves(r) PROVE ChildrenKept'
  BY <1>18 DEF Shell!ReaderRemoves
<1>19. ASSUME NEW r \in Runtimes, Shell!PrepareStarts(r) PROVE ChildrenKept'
  BY <1>19 DEF Shell!PrepareStarts
<1>20. ASSUME NEW r \in Runtimes, Shell!PrepareFails(r) PROVE ChildrenKept'
  BY <1>20 DEF Shell!PrepareFails
<1>21. ASSUME NEW r \in Runtimes, Shell!PrepareDropped(r) PROVE ChildrenKept'
  BY <1>21 DEF Shell!PrepareDropped
<1>22. ASSUME NEW w \in Writers, Shell!WriteStarts(w) PROVE ChildrenKept'
  BY <1>22 DEF Shell!WriteStarts
<1>23. ASSUME NEW w \in Writers, Shell!WriteCompletes(w) PROVE ChildrenKept'
  BY <1>23 DEF Shell!WriteCompletes
<1>24. ASSUME NEW w \in Writers, Shell!WriteFails(w) PROVE ChildrenKept'
  BY <1>24 DEF Shell!WriteFails
<1>25. ASSUME UNCHANGED Shell!vars PROVE ChildrenKept'
  BY <1>25 DEF Shell!vars
<1>26. ASSUME NEW r \in Runtimes, Shell!ReaperPanics(r) PROVE ChildrenKept'
  BY <1>26 DEF Shell!ReaperPanics
<1> QED
  BY ONLY [Shell!Next]_(Shell!vars), <1>1, <1>2, <1>3, <1>4, <1>5, <1>6, <1>7, <1>8,
     <1>9, <1>10, <1>11, <1>12, <1>13, <1>14, <1>15, <1>16, <1>17, <1>18, <1>19,
     <1>20, <1>21, <1>22, <1>23, <1>24, <1>25, <1>26, Zenon
  DEF Shell!Next, Shell!Lifecycle, Shell!ReaderStep, Runtimes, Shell!Runtimes

\* Nothing is registered at the start.
LEMMA ShellInit == Shell!Init => ShellInv
BY SerialAssumption DEF Shell!Init, ShellInv, ShellTypes, ChildrenFit, ShellFits, ChildrenKept,
   Runtimes, Shell!Runtimes, Shell!NoRuntime, Shell!NoChildIsLost

\* Every step of a shell session keeps its invariant.
LEMMA ShellInvStep == ShellInv /\ [Shell!Next]_(Shell!vars) => ShellInv'
BY ShellTypesStep, ChildrenFitStep, ShellFitsStep, ChildrenKeptStep, Zenon DEF ShellInv

\* The first property follows; the second one is a part of the invariant.
LEMMA ShellIsServed == ShellInv => Shell!ShellStatusIsServed
BY DEF ShellInv, ShellTypes, ShellFits, Shell!ShellStatusIsServed, Shell!NoRuntime

-----------------------------------------------------------------------------
(* The composition: a session is of one kind for good, and its kind's invariant
   holds of it. *)

ServedKindsInv ==
    /\ kind = "Serial" => SerialTypes /\ HandlesFit /\ LaneFits /\ ServedInv
    /\ kind = "Tcp" => TcpInv
    /\ kind = "Shell" => ShellInv

\* A step leaves the kind alone and is a step of that kind's own module, or none.
LEMMA StepOfAKind ==
    ASSUME [KindsNext]_allVars
    PROVE  /\ kind' = kind
           /\ kind = "Serial" => [Next]_vars
           /\ kind = "Tcp" => [Tcp!Next]_(Tcp!vars)
           /\ kind = "Shell" => [Shell!Next]_(Shell!vars)
<1>1. CASE UNCHANGED allVars
    <2>1. kind' = kind /\ UNCHANGED vars /\ UNCHANGED tcpOnly /\ UNCHANGED shellOnly
        BY <1>1, Zenon DEF allVars
    <2>2. UNCHANGED Tcp!vars
        BY <2>1 DEF vars, storeVars, runtimeVars, workerVars, laneVars, threadVars, reconnectVars,
           writeVars, deviceVars, tcpOnly, Tcp!vars, Tcp!storeVars, Tcp!runtimeVars, Tcp!laneVars,
           Tcp!taskVars, Tcp!telnetVars, Tcp!wireVars, Tcp!writeVars, Tcp!resizeVars
    <2>3. UNCHANGED Shell!vars
        BY <2>1 DEF vars, storeVars, runtimeVars, workerVars, laneVars, threadVars, reconnectVars,
           writeVars, deviceVars, shellOnly, Shell!vars, Shell!runtimeVars, Shell!laneVars,
           Shell!childVars, Shell!writeVars
    <2> QED
        BY <2>1, <2>2, <2>3, Zenon
<1>2. CASE SerialStep(Next)
    BY <1>2, Zenon DEF SerialStep
<1>3. CASE TcpStep(Tcp!Next)
    BY <1>3, Zenon DEF TcpStep
<1>4. CASE ShellStep(Shell!Next)
    BY <1>4, Zenon DEF ShellStep
<1>5. CASE CodecStep(Codec!Next)
    BY <1>5, Zenon DEF CodecStep
<1> QED
    BY ONLY [KindsNext]_allVars, <1>1, <1>2, <1>3, <1>4, <1>5, Zenon DEF KindsNext

\* Whatever the kind, its invariant holds at the start.
LEMMA ServedKindsInit == KindsInit => ServedKindsInv
BY SerialInit, TcpInit, ShellInit, Zenon DEF KindsInit, ServedKindsInv, SerialInv

\* Whatever the kind, a step keeps its invariant.
LEMMA ServedKindsStep == ServedKindsInv /\ [KindsNext]_allVars => ServedKindsInv'
<1> SUFFICES ASSUME ServedKindsInv, [KindsNext]_allVars
             PROVE  ServedKindsInv'
    OBVIOUS
<1>1. ASSUME kind = "Serial" PROVE (SerialTypes /\ HandlesFit /\ LaneFits /\ ServedInv)'
    BY <1>1, StepOfAKind, ServedStep, Zenon DEF ServedKindsInv
<1>2. ASSUME kind = "Tcp" PROVE TcpInv'
    BY <1>2, StepOfAKind, TcpStepKeeps, Zenon DEF ServedKindsInv
<1>3. ASSUME kind = "Shell" PROVE ShellInv'
    BY <1>3, StepOfAKind, ShellInvStep, Zenon DEF ServedKindsInv
<1> QED
    BY <1>1, <1>2, <1>3, StepOfAKind, Zenon DEF ServedKindsInv

\* Whatever the kind of a session: a status that says it is live has a registered
\* runtime and a thread or task that will report its end (session_commands.rs,
\* the installs; serial_transport.rs, tcp_transport.rs and shell_transport.rs, the
\* readers and reconnects that replace them).
THEOREM StatusesStayServed == KindsSpec => []EveryStatusIsServed
<1>1. ServedKindsInv => EveryStatusIsServed
    BY ServedIsServed, TcpIsServed, ShellIsServed, Zenon DEF ServedKindsInv, EveryStatusIsServed
<1> QED
    BY <1>1, ServedKindsInit, ServedKindsStep, PTL DEF KindsSpec

\* However a local shell's open, reader and close race: a child that nobody else
\* owns has a reaper (unless that panicked) that waits for it (shell_transport.rs).
THEOREM ShellChildrenAreKept == KindsSpec => []NoShellChildIsLost
<1>1. ServedKindsInv => NoShellChildIsLost
    BY Zenon DEF ServedKindsInv, ShellInv, ChildrenKept, NoShellChildIsLost
<1> QED
    BY <1>1, ServedKindsInit, ServedKindsStep, PTL DEF KindsSpec

\* A serial port is released for good: a close that completed, or a shutdown that
\* saw its workers end, has left no handle behind, and no open meets one that this
\* application still owns (session_close.rs, state.rs, serial_transport.rs).  With
\* LatePrepare an open may be cancelled before its blocking task has begun; the
\* task then takes its guard after the close has counted the guards, and this fails.
THEOREM SerialPortStaysReleased ==
    ASSUME LatePrepare = FALSE
    PROVE  KindsSpec => []SerialPortIsReleased
<1> DEFINE Inv == kind = "Serial" => SerialInv
<1>1. KindsInit => Inv
    BY SerialInit, Zenon DEF KindsInit
<1>2. Inv /\ [KindsNext]_allVars => Inv'
    <2> SUFFICES ASSUME Inv, [KindsNext]_allVars, kind' = "Serial"
                 PROVE  SerialInv'
        BY Zenon
    <2>1. kind = "Serial" /\ [Next]_vars
        BY StepOfAKind, Zenon
    <2> QED
        BY <2>1, SerialInvStep, Zenon
<1>3. Inv => SerialPortIsReleased
    BY PortIsReleased, Zenon DEF SerialPortIsReleased
<1> QED
    BY <1>1, <1>2, <1>3, PTL DEF KindsSpec
=============================================================================
