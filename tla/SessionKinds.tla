---------------------------- MODULE SessionKinds ----------------------------
(***************************************************************************)
(* The session kinds that own their transport in this process: a session   *)
(* is a serial port, a TCP or Telnet connection or a local shell, and      *)
(* behaves as its own module says.  The kinds share the lifecycle lane,    *)
(* the stored status and the reader, reconnect and write tasks, and so the *)
(* variables of those names.  The Telnet codec is a fourth kind, of which  *)
(* only the bytes are modelled.                                            *)
(***************************************************************************)
EXTENDS SerialSession, Sequences

CONSTANTS Sizes, Chunks, Budgets,        \* TcpSession
          MaxKillFaults,                 \* ShellSession
          Data, MaxData, MaxSub          \* TelnetCodec

\* What a TCP behaviour may still spend: the bounds of one TLC run.
Budget == [runtimes : 0 .. MaxRuntimes, chunks : Nat, writes : Nat, resizes : Nat, edits : Nat]

ASSUME KindsAssumption == Budgets \subseteq Budget

VARIABLES
    kind,
    settings, tcp, lane, options, replies, peer, broken, encoding, resize, resized, left,
    shell, start, child, reaper, kills,
    data, coding, control, stream, parser, remoteBinary, afterCr, sub, overflow, output, answers

serialOnly == <<profile, serial, writer, workerVars, shutdown, fresh, quiet, prepare,
                successor>>
tcpOnly == <<settings, tcp, lane, options, replies, peer, broken, encoding, resize,
             resized, left>>
shellOnly == <<shell, start, child, reaper, kills>>
codecOnly == <<data, coding, control, stream, parser, remoteBinary, afterCr, sub,
               overflow, output, answers>>
allVars == <<kind, vars, tcpOnly, shellOnly, codecOnly>>

Tcp == INSTANCE TcpSession
Shell == INSTANCE ShellSession
Codec == INSTANCE TelnetCodec

Kinds == {"Serial", "Tcp", "Shell", "Codec"}

KindsInit ==
    /\ kind \in Kinds
    /\ Init /\ Tcp!Init /\ Shell!Init
    /\ kind # "Serial" => profile = "off"
    /\ kind # "Tcp" => ~settings.reconnect /\ left = CHOOSE b \in Budgets : TRUE
    /\ IF kind = "Codec" THEN Codec!Init
       ELSE /\ data = <<>> /\ control = <<>> /\ stream = <<>> /\ sub = <<>>
            /\ coding = [before |-> "text", after |-> "text", at |-> 0]
            /\ parser = "Data" /\ output = <<>> /\ answers = 0
            /\ remoteBinary = FALSE /\ afterCr = FALSE /\ overflow = FALSE

SerialStep(A) == kind = "Serial" /\ A /\ UNCHANGED <<kind, tcpOnly, shellOnly, codecOnly>>
TcpStep(A) == kind = "Tcp" /\ A /\ UNCHANGED <<kind, serialOnly, shellOnly, codecOnly>>
ShellStep(A) ==
    /\ kind = "Shell"
    /\ A
    /\ UNCHANGED <<kind, serialOnly, opener, reconnect, attempt, tcpOnly, codecOnly>>
CodecStep(A) == kind = "Codec" /\ A /\ UNCHANGED <<kind, vars, tcpOnly, shellOnly>>

KindsNext ==
    \/ SerialStep(Next)
    \/ TcpStep(Tcp!Next)
    \/ ShellStep(Shell!Next)
    \/ CodecStep(Codec!Next)

\* The fairness of SerialSession, for a serial session.
KindsFairness ==
    /\ WF_allVars(SerialStep(LaneStep))
    /\ WF_allVars(SerialStep(CleanupObserves)) /\ WF_allVars(SerialStep(CleanupEnds))
    /\ WF_allVars(SerialStep(ShutdownDrains)) /\ WF_allVars(SerialStep(ShutdownEnds))
    /\ \A a \in Attempts : WF_allVars(SerialStep(Preparing(a)))
    /\ \A r \in Runtimes :
         /\ WF_allVars(SerialStep(Reading(r) /\ (reader[r] = "reading" => r \in closed)))
         /\ WF_allVars(SerialStep(Reconnecting(r)))
    /\ \A w \in Writers : WF_allVars(SerialStep(Writing(w) /\ write[w] # "idle"))

KindsSpec == KindsInit /\ [][KindsNext]_allVars /\ KindsFairness

-----------------------------------------------------------------------------
(* Properties.                                                              *)

\* SerialSession: a close that completed has left nothing behind, and no open of
\* the session meets a handle that this application still owns.
SerialPortIsReleased == kind = "Serial" => ClosedIsQuiet /\ OpenFindsPortFree

\* Whatever its kind, a session whose status says it is live has a registered
\* runtime and a task that will report the end of it.
EveryStatusIsServed ==
    /\ kind = "Serial" => StatusIsServed
    /\ kind = "Tcp" => Tcp!TcpStatusIsServed
    /\ kind = "Shell" => Shell!ShellStatusIsServed

\* TcpSession and TelnetCodec: the peer reads text in the mode it was told and
\* knows the size, and the terminal gets the data, wherever a command falls.
TelnetIsFaithful == (kind = "Tcp" => Tcp!PeerInStep) /\ Codec!TextSurvives

\* ShellSession: a child that nobody else owns has its reaper, unless that panicked.
NoShellChildIsLost == kind = "Shell" => Shell!NoChildIsLost

-----------------------------------------------------------------------------
(* Constants for TLC: what a Telnet peer may send, and the bounds of a TCP
   behaviour: negotiation on one runtime, then reconnects. *)
MCChunks == {<<"DO BINARY", "DO NAWS">>, <<"DONT NAWS", "DO NAWS">>, <<"DONT BINARY">>}

Bounds(r, c, w, s, e) ==
    [runtimes |-> r, chunks |-> c, writes |-> w, resizes |-> s, edits |-> e]
MCBudgets == {Bounds(1, 2, 1, 1, 0), Bounds(2, 1, 0, 1, 0),
              Bounds(2, 1, 1, 0, 0), Bounds(2, 0, 0, 0, 2)}

MCData == {"CR", "LF", "NUL", "IAC", "x"}
=============================================================================
