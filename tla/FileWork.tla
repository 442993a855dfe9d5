------------------------------ MODULE FileWork ------------------------------
(***************************************************************************)
(* The work on files: a transfer to or from a device, a copy by SFTP, SCP  *)
(* or between local files, an export, a change of paths in the file panes, *)
(* the walk of a tree, or the planning of a batch.  Each behaves as its    *)
(* own module says; a behaviour is about one of them.                      *)
(***************************************************************************)
EXTENDS ModemTransfer, TftpTransfer

CONSTANTS Methods, Contents, Leftovers, MaxAttempts, MaxEdits,           \* FileCopy
          ExportKinds, MaxExportFaults,                                  \* ExportFiles
          MoveRequests, Paths, Folders, NameOf, Parent,                  \* FileManager
          Walks, EntryLimits, BatchFiles, BatchFolders, Standing, MaxSuffix, Capacity

VARIABLES
    work,
    method, source, edits, inode, part, goal, attempt, total, versions, agent, shell,
    report, author, crowded,
    export, file, before, failures,
    job, entry, stirred,
    walk, limit, stage, holds, stack, bound, listed, visited, removed, swapped,
    batch, planned, there, found, reserved, prepared, skipped, tasks, current, visitor

-----------------------------------------------------------------------------
(* A transfer to or from a device by any of the protocols that run through  *)
(* a terminal session, with the user's cancellation beside it.              *)

vars == <<linkVars, modemVars, tftpVars>>

Init == LinkInit /\ ModemInit /\ TftpInit

Next ==
    \/ LinkStep /\ UNCHANGED tftpVars
    \/ TransferStep /\ UNCHANGED tftpVars
    \/ PeerStep /\ UNCHANGED tftpVars
    \/ Disturbance /\ UNCHANGED tftpVars
    \/ ServerStep /\ UNCHANGED modemVars
    \/ DeviceStep /\ UNCHANGED modemVars

-----------------------------------------------------------------------------

Copy == INSTANCE FileCopy WITH target <- goal, client <- agent, outcome <- report
Exports == INSTANCE ExportFiles
Manager == INSTANCE FileManager

copyVars == <<method, source, edits, inode, part, goal, attempt, total, versions, agent,
              shell, report, author, crowded>>
exportVars == <<export, file, before, failures>>
managerVars == <<job, entry, stirred>>
treeVars == <<walk, limit, stage, holds, stack, bound, listed, visited, removed, swapped>>
batchVars == <<batch, planned, there, found, reserved, prepared, skipped, tasks, current,
               visitor>>
workVars == <<work, vars, copyVars, exportVars, managerVars, treeVars, batchVars>>

Idle == "idle"

CopyIdle ==
    /\ method = Idle /\ source = Idle /\ edits = 0 /\ inode = Idle /\ part = 0 /\ goal = 0
    /\ attempt = 0 /\ total = 0 /\ versions = Idle /\ agent = Idle /\ shell = Idle
    /\ report = Idle /\ author = 0 /\ crowded = FALSE
ExportIdle == export = Idle /\ file = Idle /\ before = Idle /\ failures = 0
ManagerIdle == job = Idle /\ entry = Idle /\ stirred = FALSE
TreeIdle ==
    /\ walk = Idle /\ limit = 0 /\ stage = Idle /\ holds = Idle /\ stack = Idle /\ bound = Idle
    /\ listed = Idle /\ visited = 0 /\ removed = Idle /\ swapped = FALSE
BatchIdle ==
    /\ batch = Idle /\ planned = Idle /\ there = Idle /\ found = Idle /\ reserved = Idle
    /\ prepared = Idle /\ skipped = Idle /\ tasks = Idle /\ current = TRUE /\ visitor = FALSE

WorkInit ==
    /\ work \in {"device", "copy", "export", "manage", "walk", "batch"}
    /\ Init
    /\ work # "device" => proto = "tftp" /\ size = 0 /\ dev.offer = <<0, FALSE>>
    /\ IF work = "copy" THEN Copy!CopyInit ELSE CopyIdle
    /\ IF work = "export" THEN Exports!ExportInit ELSE ExportIdle
    /\ IF work = "manage" THEN Manager!ManagerInit ELSE ManagerIdle
    /\ IF work = "walk" THEN Manager!TreeInit ELSE TreeIdle
    /\ IF work = "batch" THEN Manager!BatchInit ELSE BatchIdle

files == <<copyVars, exportVars, managerVars, treeVars, batchVars>>

DeviceWork(A) == work = "device" /\ A /\ UNCHANGED <<work, files>>

WorkNext ==
    \/ DeviceWork(Next)
    \/ /\ work = "copy" /\ Copy!CopyNext
       /\ UNCHANGED <<work, vars, exportVars, managerVars, treeVars, batchVars>>
    \/ /\ work = "export" /\ Exports!ExportNext
       /\ UNCHANGED <<work, vars, copyVars, managerVars, treeVars, batchVars>>
    \/ /\ work = "manage" /\ Manager!ManagerNext
       /\ UNCHANGED <<work, vars, copyVars, exportVars, treeVars, batchVars>>
    \/ /\ work = "walk" /\ Manager!TreeNext
       /\ UNCHANGED <<work, vars, copyVars, exportVars, managerVars, batchVars>>
    \/ /\ work = "batch" /\ Manager!BatchNext
       /\ UNCHANGED <<work, vars, copyVars, exportVars, managerVars, treeVars>>

\* The transfer and the spawned write are tasks of the runtime's executor; a
\* wait ends because something comes or because its deadline passes.  The
\* deadlines of the waits for an answer, a call or a marker, and of the server,
\* are absolute: no chatter puts them off.  (The one for the next packet starts
\* again with every byte.)  The peer reads the line as long as it does not hang.
WorkFairness ==
    /\ WF_workVars(DeviceWork(Binding /\ LinkStep /\ UNCHANGED tftpVars))
    /\ WF_workVars(DeviceWork(TransferStep /\ UNCHANGED tftpVars))
    /\ WF_workVars(DeviceWork(/\ TransferStep
                              /\ AnswerTimesOut \/ (pc # "marker" /\ WaitFails)
                              /\ UNCHANGED tftpVars))
    /\ WF_workVars(DeviceWork(PeerStep /\ UNCHANGED tftpVars))
    /\ WF_workVars(DeviceWork(ServerStep /\ UNCHANGED modemVars))
    /\ WF_workVars(DeviceWork(ServerStep /\ ServingFails /\ UNCHANGED modemVars))

WorkSpec == WorkInit /\ [][WorkNext]_workVars /\ WorkFairness

-----------------------------------------------------------------------------
(* Properties.                                                              *)

\* What is reported as transferred is the file of the sending side, whole
\* (ModemTransfer, TftpTransfer, FileCopy), and no export, move, deletion or
\* batch loses or replaces a file that was not given to it (ExportFiles,
\* FileManager): the modules say what that means for them.
FilesAreIntact ==
    /\ work = "device" => IntactFile /\ LostAckTolerated /\ ServedIsWhole
    /\ work = "copy" => Copy!CopyIsWhole
    /\ work = "export" => Exports!ExportsInStep
    /\ work = "manage" => Manager!MovesLoseNothing
    /\ work = "walk" => Manager!WalkStaysInTree
    /\ work = "batch" => Manager!BatchIsSound

\* A transfer leaves a device it has started with on a runtime that is still
\* open.  Cancelled after it was bound, it has told the peer: either it finds the
\* flag once its binding is registered, or the canceller finds the binding.  A
\* boot loader with a TFTP command is brought back to its prompt also when the
\* transfer fails.  And a rate that was changed is restored before a success or
\* a cancellation is reported, wherever between the prompts it came.
DeviceLeftAlone ==
    work = "device" /\ pc = "ended" /\ begun /\ live =>
        /\ outcome = "cancelled" /\ ~Tftp /\ canceller \in {"idle", "done"} => aborted
        /\ outcome # "ok" /\ Tftp /\ lines > 0 => aborted
        /\ outcome \in {"ok", "cancelled"} => baud = "original"

\* A transfer ends: a peer that hangs, a line that loses and a wait for a
\* marker that never comes are left by retry limits and deadlines.
TransferEnds == work = "device" => <>(pc = "ended")

-----------------------------------------------------------------------------
(* Constants for TLC. *)
\* Blocks of two bytes: no block; one that ends in 0x1A; three, the second of
\* which looks like padding, and the last of which is padded.
MCSources == {<<>>, <<"b", "e">>, <<"b", "b", "e", "e", "b">>}

\* With blocks of two bytes by default and of three at most: no option, none
\* about the size, one that is too small and one that is too large.
MCOffers == {<<0, FALSE>>, <<0, TRUE>>, <<1, FALSE>>, <<4, TRUE>>}

\* A source, a longer one, one that differs in its first byte and an empty one;
\* a part that is missing, a prefix of some of them, another byte, and too long.
MCContents == {<<"a">>, <<"a", "b">>, <<"b", "b">>, <<>>}
MCLeftovers == {<<>>, <<<<"a">>>>, <<<<"b", "a", "b">>>>}

\* Two files of one name, another file, and a directory with a file in it.
MCPaths == {"x/a", "y/a", "x/b", "x/d", "x/d/c"}
MCNameOf == [p \in MCPaths |-> CASE p \in {"x/a", "y/a"} -> "z/a" [] p = "x/b" -> "z/b"
                                 [] p = "x/d" -> "z/d" [] p = "x/d/c" -> "z/c"]
MCParent == [p \in MCPaths |-> IF p = "x/d/c" THEN "x/d" ELSE "none"]
MCRequests == {<<p>> : p \in MCPaths} \cup {<<p, q>> : p \in MCPaths, q \in MCPaths}

\* A file with the name that another gets when it is renamed, before and after
\* it, too many files, a file twice, and a directory with the name of a file.
MCFiles == {<<<<"f", 1>>, <<"f">>>>, <<<<"f">>, <<"g">>, <<"h">>>>, <<<<"f">>, <<"f", 1>>>>,
            <<<<"f">>, <<"f">>>>, <<<<"f">>, <<"g">>>>}
MCFolders == {<<>>, <<<<"d">>>>, <<<<"g">>>>}
MCStanding == [{<<"f">>} -> {"File", "Directory"}] \cup [{<<"d">>} -> {"File"}]
              \cup [{<<"g">>} -> {"File"}] \cup {<<>>}
=============================================================================
