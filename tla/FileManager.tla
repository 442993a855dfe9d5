---------------------------- MODULE FileManager ----------------------------
(***************************************************************************)
(* What the file panes do to paths, while somebody else changes the tree:  *)
(* a request to move, rename, delete or create, which is planned against   *)
(* the tree as it is and carried out item by item; the walk of a directory *)
(* tree for a batch or a deletion; and the planning of a batch of          *)
(* transfers.  Each has its own variables and its own specification.       *)
(***************************************************************************)
EXTENDS Integers, Sequences, FiniteSets

CONSTANTS
    MoveRequests,   \* sequences of paths
    Paths,          \* the paths that exist at first, each its own object
    Folders,        \* those of them that are directories
    NameOf, Parent, \* a path's name, and the directory of these it is in
    Walks,          \* subset of {"localPlan", "remotePlan", "remoteDelete"}
    EntryLimits,    \* values for MAX_EXTERNAL_DROP_ENTRIES
    BatchFiles,     \* the files of the sources, in their order
    BatchFolders,   \* their directories, in the same way
    Standing,       \* what may stand at the destination at first
    MaxSuffix,      \* 10000: names that are tried
    Capacity        \* free places in the queue

VARIABLES
    job,        \* what was asked for and where it is
    entry,      \* the object that a path stands for: "none" or "foreign" too
    stirred,    \* somebody else has changed the tree, or a call has failed
    walk,       \* the kind of walk
    limit,      \* its limit of entries
    stage,      \* "walk", "check", "done", "failed"
    holds,      \* what every directory contains: the object of each name
    stack,      \* the directories that are open and not done with
    bound,      \* the directories to look at again before the plan is used
    listed,     \* files listed, and whether their path led elsewhere by then
    visited,    \* entries visited
    removed,    \* objects removed
    swapped,    \* somebody has put something in a directory's place
    batch,      \* the destination is the host's, a side is, the policy, the place
    planned,    \* the files and directories found in the sources
    there,      \* the destination: paths and what they are
    found,      \* the targets that were missing when they were asked for
    reserved,   \* reserved_targets
    prepared,   \* the files with their targets
    skipped,
    tasks,      \* the transfers queued
    current,    \* the runtime is the one that the batch was planned on
    visitor     \* somebody else has made a file at the destination

managerVars == <<job, entry, stirred>>

\* The path of the name in the destination directory.
TargetOf(p) == NameOf[p]
Places == Paths \cup {TargetOf(p) : p \in Paths}

ManagerInit ==
    /\ \E does \in {"move", "rename", "delete", "create"}, remote \in BOOLEAN,
          request \in MoveRequests :
         job = [does |-> does, remote |-> remote, request |-> request, at |-> "plan", next |-> 1]
    /\ \E taken \in SUBSET (Places \ Paths) :
         entry = [p \in Places |-> IF p \in Paths THEN p
                                   ELSE IF p \in taken THEN "foreign" ELSE "none"]
    /\ stirred = FALSE

Item == job.request[job.next]
Items == {job.request[i] : i \in DOMAIN job.request}
Arrive(place) == job' = [job EXCEPT !.at = place]
Here(p) == entry[p] # "none"
IsFolder(p) == entry[p] \in Folders

\* What lies in a directory goes with it.
Vacated(p) == [q \in Places |-> IF q = p \/ (q \in Paths /\ IsFolder(p) /\ Parent[q] = entry[p])
                                THEN "none" ELSE entry[q]]

NextItem == job' = IF job.next = Len(job.request) THEN [job EXCEPT !.at = "ok"]
                   ELSE [job EXCEPT !.next = @ + 1, !.at = "carry"]

-----------------------------------------------------------------------------

\* Mutant: only the names that exist already are conflicts.
NoConflictYet(request) == TRUE

\* No path twice, and in a move no two that would get the same name.
NoConflict(request) ==
    \A i, j \in DOMAIN request : i # j =>
        /\ request[i] # request[j]
        /\ job.does = "move" => TargetOf(request[i]) # TargetOf(request[j])

\* No path lies in another of the request.
NotNested == \A p, q \in Items : IsFolder(p) => Parent[q] # p

MoveAccepted ==
    /\ NoConflict(job.request) /\ NotNested
    /\ \A p \in Items : Here(p) /\ ~Here(TargetOf(p))

DeleteAccepted ==
    NoConflict(job.request) /\ NotNested /\ \A p \in Items : Here(p)

\* A rename gives one path another name; on the host not to a directory.
RenameAccepted ==
    /\ Len(job.request) = 1 /\ Here(Item) /\ ~Here(TargetOf(Item))
    /\ ~(job.remote /\ IsFolder(Item))

\* A request is refused as a whole, before anything is changed.
Plan ==
    /\ job.at = "plan"
    /\ Arrive(IF CASE job.does = "move" -> MoveAccepted
                   [] job.does = "rename" -> RenameAccepted
                   [] job.does = "delete" -> DeleteAccepted
                   [] job.does = "create" -> Len(job.request) = 1
              THEN "carry" ELSE "refused")
    /\ UNCHANGED <<entry, stirred>>

Moving == job.does \in {"move", "rename"}

\* create_new, or CREATE | EXCLUDE on the host: an existing name is refused.
CreateItem ==
    /\ job.at = "carry" /\ job.does = "create"
    /\ IF Here(TargetOf(Item)) THEN Arrive("failed") /\ UNCHANGED entry
       ELSE entry' = [entry EXCEPT ![TargetOf(Item)] = "made"] /\ NextItem
    /\ UNCHANGED stirred

\* A rename that refuses an existing target.
MoveLocal ==
    /\ job.at = "carry" /\ Moving /\ ~job.remote
    /\ IF Here(Item) /\ ~Here(TargetOf(Item))
       THEN entry' = [Vacated(Item) EXCEPT ![TargetOf(Item)] = entry[Item]] /\ NextItem
       ELSE Arrive("failed") /\ UNCHANGED entry
    /\ UNCHANGED stirred

\* rename_without_overwrite: a hard link, which an existing target refuses and a
\* directory cannot have ...
MoveLink ==
    /\ job.at = "carry" /\ Moving /\ job.remote
    /\ IF Here(Item) /\ ~Here(TargetOf(Item)) /\ ~IsFolder(Item)
       THEN entry' = [entry EXCEPT ![TargetOf(Item)] = entry[Item]] /\ Arrive("unlink")
       ELSE Arrive("failed") /\ UNCHANGED entry
    /\ UNCHANGED stirred

\* ... and the removal of the old name.
MoveUnlink ==
    /\ job.at = "unlink"
    /\ IF Here(Item) THEN entry' = [entry EXCEPT ![Item] = "none"] /\ NextItem
       ELSE Arrive("failed") /\ UNCHANGED entry
    /\ UNCHANGED stirred

\* delete_paths_inner: the item is looked at again and removed with all in it.
DeleteItem ==
    /\ job.at = "carry" /\ job.does = "delete"
    /\ IF Here(Item) THEN entry' = Vacated(Item) /\ NextItem
       ELSE Arrive("failed") /\ UNCHANGED entry
    /\ UNCHANGED stirred

\* An error of the file system or the loss of the connection.
CallFails ==
    /\ job.at \in {"carry", "unlink"} /\ ~stirred
    /\ Arrive("failed") /\ stirred' = TRUE
    /\ UNCHANGED entry

\* Somebody else makes a file, or removes one.
Stir ==
    /\ ~stirred /\ job.at \in {"carry", "unlink"}
    /\ \E p \in Places : \/ ~Here(p) /\ entry' = [entry EXCEPT ![p] = "foreign"]
                         \/ entry[p] = "foreign" /\ entry' = [entry EXCEPT ![p] = "none"]
    /\ stirred' = TRUE
    /\ UNCHANGED job

ManagerNext ==
    \/ Plan \/ CreateItem \/ MoveLocal \/ MoveLink \/ MoveUnlink \/ DeleteItem \/ CallFails \/ Stir

ManagerSpec == ManagerInit /\ [][ManagerNext]_managerVars

-----------------------------------------------------------------------------
(* Properties.                                                              *)

\* The objects that can be reached: by a name, or in a directory that can be.
Reached(o) == \/ o \in {entry[p] : p \in Places}
              \/ Parent[o] # "none" /\ Parent[o] \in {entry[p] : p \in Places}

\* A move loses no file and replaces none, whatever fails and whoever else
\* takes a name; one that succeeds has brought every item to its name and left
\* no other; and a move or a deletion that was planned is carried out in full
\* when nobody interferes (but for a move of a directory on the host, which the
\* plan accepts and the move refuses, and a new file whose name is taken).
MovesLoseNothing ==
    /\ job.does # "delete" => \A o \in Paths : Reached(o)
    /\ job.at = "ok" /\ ~stirred =>
         \A p \in Items : (Moving => entry[TargetOf(p)] = p) /\ (job.does # "create" => ~Here(p))
    /\ job.at = "failed" /\ ~stirred =>
         \/ job.remote /\ job.does = "move" /\ Item \in Folders
         \/ job.does = "create" /\ entry[TargetOf(Item)] = "foreign"

-----------------------------------------------------------------------------
(***************************************************************************)
(* The walk of a directory tree for a file batch or a deletion: here with  *)
(* BoundDirectory, on the host with a script.  Directories are held by a   *)
(* descriptor and their entries are reached from it; meanwhile somebody    *)
(* else puts something in the place of a directory.                        *)
(*                                                                         *)
(* A name stands for an object.  In the directory P are t, which is to be  *)
(* walked (the directory T, with the file f and the directory d), and x,   *)
(* another directory with files of the same names.                         *)
(***************************************************************************)

treeVars == <<walk, limit, stage, holds, stack, bound, listed, visited, removed, swapped>>

Dirs == {"P", "T", "D", "X"}
Entries(dir) == DOMAIN holds[dir]
Remote == walk # "localPlan"
Deleting == walk = "remoteDelete"

\* The object that a path leads to, "none" when it leads through a link.
ChildOf(dir, name) ==
    IF dir \in Dirs THEN (IF name \in Entries(dir) THEN holds[dir][name] ELSE "none") ELSE "none"
Resolve(path) ==
    CASE Len(path) = 0 -> "P"
      [] Len(path) = 1 -> ChildOf("P", path[1])
      [] Len(path) = 2 -> ChildOf(ChildOf("P", path[1]), path[2])

Frame(parent, path, dir) ==
    [parent |-> parent, path |-> path, dir |-> dir, todo |-> {}, names |-> FALSE,
     looked |-> "none", seen |-> "none"]

TreeInit ==
    /\ walk \in Walks /\ limit \in EntryLimits
    /\ stage = "walk"
    /\ holds = [P |-> [t |-> "T", x |-> "X"], T |-> [d |-> "D", f |-> "F"],
                D |-> [g |-> "G"], X |-> [f |-> "K", g |-> "L"]]
    /\ stack = <<[Frame("P", <<>>, "P") EXCEPT !.todo = {"t"}, !.names = TRUE]>>
    /\ bound = {} /\ listed = {} /\ visited = 0 /\ removed = {} /\ swapped = FALSE

Top == Head(stack)
SetTop(frame) == stack' = <<frame>> \o Tail(stack)
Rest == [Top EXCEPT !.todo = @ \ {Top.looked}, !.looked = "none"]
Break == stage' = "failed" /\ UNCHANGED <<holds, stack, bound, listed, removed>>

\* The entry as it is by now.
Present == ChildOf(Top.dir, Top.looked)

Without(dir, name) == [n \in Entries(dir) \ {name} |-> holds[dir][n]]

-----------------------------------------------------------------------------
(* The walk.                                                                *)

\* BoundDirectory::names, os.scandir: the names of a held directory.
List ==
    /\ stage = "walk" /\ stack # <<>> /\ ~Top.names
    /\ SetTop([Top EXCEPT !.names = TRUE, !.todo = Entries(Top.dir)])
    /\ UNCHANGED <<walk, limit, stage, holds, bound, listed, visited, removed, swapped>>

\* An entry is looked at without following links, and counts.
Look ==
    /\ stage = "walk" /\ stack # <<>> /\ Top.names /\ Top.todo # {} /\ Top.looked = "none"
    /\ visited' = visited + 1
    /\ \E name \in Top.todo :
         IF visited' > limit \/ ChildOf(Top.dir, name) = "none" THEN Break
         ELSE /\ SetTop([Top EXCEPT !.looked = name, !.seen = ChildOf(Top.dir, name)])
              /\ UNCHANGED <<stage, holds, bound, listed, removed>>
    /\ UNCHANGED <<walk, limit, swapped>>

\* Mutant: the open follows a symbolic link.
EnterFollowing ==
    LET dir == IF Present = "link" THEN "X" ELSE Present
    IN IF dir \notin Dirs THEN Break
       ELSE /\ stack' = <<Frame(Top.dir, Append(Top.path, Top.looked), dir), Rest>> \o Tail(stack)
            /\ UNCHANGED <<stage, holds, bound, listed, removed>>

\* A directory is opened from its parent; a link in its place is refused, and
\* the script also refuses another directory.  The script goes down at once,
\* BoundDirectory when it has opened all the entries.
Enter ==
    IF Present \notin Dirs \/ (Remote /\ Present # Top.seen) THEN Break
    ELSE LET child == Frame(Top.dir, Append(Top.path, Top.looked), Present)
         IN /\ stack' = (IF Remote THEN <<child, Rest>> ELSE <<Rest, child>>) \o Tail(stack)
            /\ UNCHANGED <<stage, holds, bound, listed, removed>>

\* Anything else is listed, passed over or, in a deletion, unlinked from the
\* directory that is held.
TakeFile ==
    CASE Deleting /\ Present \in Dirs \cup {"none"} -> Break
      [] Deleting /\ Present \notin Dirs \cup {"none"} ->
           /\ holds' = [holds EXCEPT ![Top.dir] = Without(Top.dir, Top.looked)]
           /\ removed' = removed \cup {Present}
           /\ SetTop(Rest)
           /\ UNCHANGED <<stage, bound, listed>>
      [] ~Deleting ->
           /\ listed' = IF Top.seen = "link" THEN listed
                        ELSE listed \cup {<<Top.seen, Resolve(Top.path) # Top.dir>>}
           /\ SetTop(Rest)
           /\ UNCHANGED <<stage, holds, bound, removed>>

Take ==
    /\ stage = "walk" /\ stack # <<>> /\ Top.looked # "none"
    /\ IF Top.seen \in Dirs THEN Enter ELSE TakeFile
    /\ UNCHANGED <<walk, limit, visited, swapped>>

\* ensure_current opens the whole path again; the script asks the parent that it
\* holds.
Current(frame) ==
    IF Remote THEN frame.path = <<>>
                   \/ ChildOf(frame.parent, frame.path[Len(frame.path)]) = frame.dir
    ELSE Resolve(frame.path) = frame.dir

\* All entries of a directory are done with: it must still be there, and a
\* deletion removes its name, if it is empty.
Leave ==
    /\ stage = "walk" /\ stack # <<>> /\ Top.names /\ Top.todo = {}
    /\ IF ~Current(Top) THEN Break
       ELSE IF Deleting /\ Top.path # <<>> /\ Entries(Top.dir) # {} THEN Break
       ELSE /\ stack' = Tail(stack)
            /\ bound' = bound \cup {Top}
            /\ IF Deleting /\ Top.path # <<>>
               THEN /\ holds' = [holds EXCEPT ![Top.parent] =
                                   Without(Top.parent, Top.path[Len(Top.path)])]
                    /\ removed' = removed \cup {Top.dir}
               ELSE UNCHANGED <<holds, removed>>
            /\ UNCHANGED <<stage, listed>>
    /\ UNCHANGED <<walk, limit, visited, swapped>>

WalkDone ==
    /\ stage = "walk" /\ stack = <<>>
    /\ stage' = IF Deleting THEN "done" ELSE "check"
    /\ UNCHANGED <<walk, limit, holds, stack, bound, listed, visited, removed, swapped>>

\* Before a plan is used every directory is looked at once more.
Recheck ==
    /\ stage = "check"
    /\ IF bound = {} THEN stage' = "done" /\ UNCHANGED bound
       ELSE \E frame \in bound :
              /\ bound' = bound \ {frame}
              /\ stage' = IF Current(frame) THEN "check" ELSE "failed"
    /\ UNCHANGED <<walk, limit, holds, stack, listed, visited, removed, swapped>>

\* Somebody else moves a directory away and puts a link to x, or x itself, in
\* its place.
Swap ==
    /\ ~swapped /\ stage \in {"walk", "check"}
    /\ \E place \in {<<"P", "t">>, <<"T", "d">>}, thing \in {"link", "X"} :
         /\ place[2] \in Entries(place[1])
         /\ holds' = [d \in Dirs |->
              CASE d = place[1] /\ thing = "X" /\ d = "P" -> [t |-> "X"]
                [] d = place[1] /\ ~(thing = "X" /\ d = "P") ->
                     [holds[d] EXCEPT ![place[2]] = thing]
                [] d # place[1] /\ d = "P" /\ thing = "X" -> Without("P", "x")
                [] OTHER -> holds[d]]
    /\ swapped' = TRUE
    /\ UNCHANGED <<walk, limit, stage, stack, bound, listed, visited, removed>>

TreeNext == List \/ Look \/ Take \/ Leave \/ WalkDone \/ Recheck \/ Swap

TreeSpec == TreeInit /\ [][TreeNext]_treeVars

-----------------------------------------------------------------------------
(* Properties.                                                              *)

\* A plan that is used lists no file that was found in a directory to which its
\* path led no longer: what is copied later by that path would be another file.
\* A deletion removes nothing of a directory that was never in the tree, and one
\* that reports success has removed the tree.
WalkStaysInTree ==
    /\ stage = "done" /\ ~Deleting => \A file \in listed : ~file[2]
    /\ holds["P"] # [t |-> "X"] /\ "x" \in Entries("P") => removed \cap {"K", "L", "X"} = {}
    /\ stage = "done" /\ Deleting => "t" \notin Entries("P")

-----------------------------------------------------------------------------
(***************************************************************************)
(* A batch of files and directories between the panes, or dropped on one   *)
(* of them: what stands at every target is asked for one after the other,  *)
(* the conflicts are settled by the user's policy, the directories are     *)
(* made, and a transfer is queued for every file, on the runtime that the  *)
(* batch was planned on.                                                   *)
(*                                                                         *)
(* A path is a name and the numbers that were added to it, so <<"f", 1>>   *)
(* is "f (1)".                                                             *)
(***************************************************************************)

batchVars == <<batch, planned, there, found, reserved, prepared, skipped, tasks, current, visitor>>

Policies == {"Fail", "Skip", "Overwrite", "Rename"}
KindAt(path) == IF path \in DOMAIN there THEN there[path] ELSE "Missing"
Numbered(path, n) == Append(path, n)

BatchInit ==
    /\ \E remote, host \in BOOLEAN, policy \in Policies :
         /\ remote => host
         /\ batch = [remote |-> remote, host |-> host, policy |-> policy, at |-> "validate",
                     next |-> 1]
    /\ there \in Standing
    /\ \E files \in BatchFiles, folders \in BatchFolders :
         planned = [files |-> files, folders |-> folders, before |-> there]
    /\ found = {} /\ reserved = {} /\ prepared = <<>> /\ skipped = {} /\ tasks = <<>>
    /\ current = TRUE /\ visitor = FALSE

Onto(place) == batch' = [batch EXCEPT !.at = place, !.next = 1]
Further == batch' = [batch EXCEPT !.next = @ + 1]
AllDone(items) == batch.next > Len(items)

-----------------------------------------------------------------------------
(* The plan.                                                                *)

\* A host's files are not replaced, and no two paths of the sources are the same.
ValidateBatch ==
    /\ batch.at = "validate"
    /\ LET files == planned.files
           folders == planned.folders
           distinct == /\ \A i, j \in DOMAIN files : i # j => files[i] # files[j]
                       /\ \A i \in DOMAIN files, j \in DOMAIN folders : files[i] # folders[j]
       IN Onto(IF distinct /\ ~(batch.remote /\ batch.policy = "Overwrite")
               THEN "folders" ELSE "failed")
    /\ UNCHANGED <<planned, there, found, reserved, prepared, skipped, tasks, current, visitor>>

\* A directory's place may be free or a directory's.
LookAtFolder ==
    /\ batch.at = "folders"
    /\ IF AllDone(planned.folders) THEN Onto("files")
       ELSE IF KindAt(planned.folders[batch.next]) \in {"Missing", "Directory"} THEN Further
       ELSE Onto("failed")
    /\ UNCHANGED <<planned, there, found, reserved, prepared, skipped, tasks, current, visitor>>

Prepare(source, path) ==
    /\ prepared' = Append(prepared, [source |-> source, target |-> path])
    /\ reserved' = reserved \cup {path}
    /\ found' = IF KindAt(path) = "Missing" THEN found \cup {path} ELSE found

\* Mutant: a name is free when nothing stands there.
FreeNow(path) == KindAt(path) = "Missing"

\* A name is free when nothing stands there and the batch has no file for it.
Free(path) == path \notin reserved /\ KindAt(path) = "Missing"

\* A file's target, or what the policy makes of a conflict.
LookAtFile ==
    /\ batch.at = "files" /\ ~AllDone(planned.files)
    /\ LET path == planned.files[batch.next]
           kind == KindAt(path)
           free == {n \in 1 .. MaxSuffix : Free(Numbered(path, n))}
       IN IF kind = "Missing" /\ path \notin reserved
          THEN Prepare(path, path) /\ Further /\ UNCHANGED skipped
          ELSE CASE batch.policy = "Skip" ->
                      skipped' = skipped \cup {path} /\ Further /\ UNCHANGED <<prepared, reserved, found>>
                 [] batch.policy = "Rename" /\ free # {} ->
                      /\ LET n == CHOOSE n \in free : \A k \in free : n <= k
                         IN Prepare(path, Numbered(path, n))
                      /\ Further /\ UNCHANGED skipped
                 [] batch.policy = "Overwrite" /\ kind \in {"File", "Missing"} ->
                      Prepare(path, path) /\ Further /\ UNCHANGED skipped
                 [] OTHER -> Onto("failed") /\ UNCHANGED <<prepared, reserved, found, skipped>>
    /\ UNCHANGED <<planned, there, tasks, current, visitor>>

\* ensure_transfer_batch_capacity, before anything is made.
CheckCapacity ==
    /\ batch.at = "files" /\ AllDone(planned.files)
    /\ Onto(IF Len(prepared) <= Capacity THEN "make" ELSE "failed")
    /\ UNCHANGED <<planned, there, found, reserved, prepared, skipped, tasks, current, visitor>>

-----------------------------------------------------------------------------
(* The directories and the transfers.                                       *)

MakeFolder ==
    /\ batch.at = "make"
    /\ IF AllDone(planned.folders)
       THEN Onto(IF current \/ ~batch.host THEN "queue" ELSE "failed") /\ UNCHANGED there
       ELSE LET path == planned.folders[batch.next]
            IN IF KindAt(path) \in {"Missing", "Directory"}
               THEN /\ there' = [p \in DOMAIN there \cup {path} |->
                                   IF p = path THEN "Directory" ELSE there[p]]
                    /\ Further
               ELSE Onto("failed") /\ UNCHANGED there
    /\ UNCHANGED <<planned, found, reserved, prepared, skipped, tasks, current, visitor>>

\* start_transfer_inner_for_ssh_runtime: a batch that touches the host is bound
\* to the runtime it was planned on.
QueueTransfer ==
    /\ batch.at = "queue"
    /\ IF AllDone(prepared) THEN Onto("ok") /\ UNCHANGED tasks
       ELSE IF ~current /\ batch.host THEN Onto("failed") /\ UNCHANGED tasks
       ELSE Further /\ tasks' = Append(tasks, prepared[batch.next])
    /\ UNCHANGED <<planned, there, found, reserved, prepared, skipped, current, visitor>>

\* An answer of the host or of the file system is an error.
AskingFails ==
    /\ batch.at \notin {"validate", "ok", "failed"}
    /\ Onto("failed")
    /\ UNCHANGED <<planned, there, found, reserved, prepared, skipped, tasks, current, visitor>>

\* The session reconnects.
Replaced ==
    /\ current /\ batch.at \notin {"ok", "failed"}
    /\ current' = FALSE
    /\ UNCHANGED <<batch, planned, there, found, reserved, prepared, skipped, tasks, visitor>>

Visit ==
    /\ ~visitor /\ batch.at \notin {"ok", "failed"}
    /\ visitor' = TRUE
    /\ \E path \in {planned.files[i] : i \in DOMAIN planned.files}
                   \cup {Numbered(planned.files[i], 1) : i \in DOMAIN planned.files} :
         /\ KindAt(path) = "Missing"
         /\ there' = [p \in DOMAIN there \cup {path} |-> IF p = path THEN "File" ELSE there[p]]
    /\ UNCHANGED <<batch, planned, found, reserved, prepared, skipped, tasks, current>>

BatchNext ==
    \/ ValidateBatch \/ LookAtFolder \/ LookAtFile \/ CheckCapacity \/ MakeFolder
    \/ QueueTransfer \/ AskingFails \/ Replaced \/ Visit

BatchSpec == BatchInit /\ [][BatchNext]_batchVars

-----------------------------------------------------------------------------
(* Properties.                                                              *)

\* No two transfers of a batch have the same target, none has one that stood
\* there when it was asked for unless the user wanted it replaced, nothing is
\* made or queued before all files have been settled and the queue was found to
\* have room, and a batch that succeeds has a transfer for every file, or says
\* that it was skipped.
BatchIsSound ==
    /\ \A i, j \in DOMAIN tasks : i # j => tasks[i].target # tasks[j].target
    /\ batch.policy # "Overwrite" => \A i \in DOMAIN tasks : tasks[i].target \in found
    /\ \/ tasks # <<>>
       \/ \E p \in DOMAIN there : there[p] = "Directory" /\ p \notin DOMAIN planned.before
       => Len(prepared) <= Capacity /\ \A i \in DOMAIN planned.files :
            planned.files[i] \in skipped \/ \E j \in DOMAIN prepared : prepared[j].source = planned.files[i]
    /\ batch.at = "ok" =>
         \A i \in DOMAIN planned.files :
            \/ planned.files[i] \in skipped
            \/ \E j \in DOMAIN tasks : tasks[j].source = planned.files[i]
=============================================================================
