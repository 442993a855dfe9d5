--------------------------- MODULE ContentUpload ---------------------------
(***************************************************************************)
(* Content an MCP client uploads in pieces before a transfer sends it.     *)
(*                                                                         *)
(* Every server process (stdio or HTTP, of any client) works on the same   *)
(* directory.  One lock file guards the beginning of uploads, one in each  *)
(* upload's directory guards that upload; both are freed by the operating  *)
(* system when a process dies.  The desktop reads an upload without any    *)
(* lock while the process that asked for the transfer holds it, or has     *)
(* stopped waiting.                                                        *)
(***************************************************************************)
EXTENDS Naturals, Sequences, FiniteSets, FiniteSetsExt

CONSTANTS
    Callers,        \* requests that run at the same time, each in a process
    Assignments,    \* which client each of them serves
    FirstClient,    \* a client with an upload
    Uploads,        \* upload ids
    SizeChoices,    \* declared sizes, in units of content
    MaxUploads,     \* MAX_MCP_CONTENT_UPLOADS
    MaxTotal,       \* MAX_MCP_CONTENT_UPLOAD_TOTAL_BYTES
    MaxCalls,       \* bound: requests of a behaviour
    MaxAges,        \* bound: uploads that grow older than their expiry
    MaxLocks        \* bound: lock files ever made in one directory

VARIABLES
    clientOf,   \* client of each caller
    dir,        \* directory of each upload
    lockFile,   \* lock file of each directory: its inode, 0 when there is none
    held,       \* locks held: <<upload, inode, caller>>
    root,       \* holder of uploads.lock
    call,       \* progress of each caller's request
    desk,       \* what the desktop does for it
    calls,      \* requests made
    ages,       \* uploads aged
    acked,      \* auxiliary: acknowledged pieces, <<upload, offset, piece>>
    staged,     \* auxiliary: <<upload, client, content>> of each transfer started
    dropped     \* auxiliary: uploads given up by their owner or handed over

uploadVars == <<clientOf, dir, lockFile, held, root, call, desk, calls, ages, acked, staged,
                dropped>>

Nobody == "nobody"

(* An upload's directory; "old" once its time, or that of a directory      *)
(* without metadata, has passed.                                           *)
NoDir == [is |-> "none", meta |-> FALSE, payload |-> <<>>, file |-> FALSE, client |-> Nobody,
          size |-> 0, old |-> FALSE]
NoCall == [op |-> "none", at |-> "idle", upload |-> 0, ino |-> 0, size |-> 0, piece |-> 0,
           offset |-> 0, todo |-> {}, seen |-> FALSE]

NoTask == [at |-> "none", upload |-> 0]

(* The content whose digest was declared. *)
Wanted(size) == [i \in 1..size |-> i]

(* A complete upload that an earlier process left. *)
Uploaded == [u \in Uploads |->
    IF u = 1 THEN [NoDir EXCEPT !.is = "dir", !.meta = TRUE, !.file = TRUE, !.size = 1,
                                !.payload = Wanted(1), !.client = FirstClient]
    ELSE NoDir]

UploadInit ==
    /\ clientOf \in Assignments
    /\ dir \in {[u \in Uploads |-> NoDir], Uploaded}
    /\ lockFile = [u \in Uploads |-> 0]
    /\ held = {} /\ root = Nobody
    /\ call = [p \in Callers |-> NoCall]
    /\ desk = [p \in Callers |-> NoTask]
    /\ calls = 0 /\ ages = 0
    /\ acked = {} /\ staged = {} /\ dropped = {}

Exists(u) == dir[u].is = "dir"
Fresh     == {u \in Uploads : dir[u].is = "none"}

To(p, rec)  == call' = [call EXCEPT ![p] = rec]
At(p, at)   == To(p, [call[p] EXCEPT !.at = at])
End(p)      == To(p, NoCall)
FreeOf(p)   == {l \in held : l[3] # p}
SetDir(u, rec) == dir' = [dir EXCEPT ![u] = rec]

Gone(u) == [NoDir EXCEPT !.is = "gone", !.old = dir[u].old]

(* The metadata is there and names this client. *)
Owned(p) == LET d == dir[call[p].upload] IN d.meta /\ d.client = clientOf[p]

Call(p, op) ==
    /\ calls < MaxCalls /\ call[p] = NoCall
    /\ calls' = calls + 1

----------------------------------------------------------------------------
(* begin_content_upload.                                                   *)

(* The arguments are good; the root lock is asked for. *)
BeginUpload(p, size) ==
    /\ Call(p, "begin")
    /\ To(p, [NoCall EXCEPT !.op = "begin", !.at = "root", !.size = size])
    /\ UNCHANGED <<clientOf, dir, lockFile, held, root, desk, ages, acked, staged, dropped>>

LockRoot(p) ==
    /\ call[p].at = "root" /\ root = Nobody
    /\ root' = p
    /\ To(p, [call[p] EXCEPT !.at = "sweep", !.todo = {u \in Uploads : Exists(u)}])
    /\ UNCHANGED <<clientOf, dir, lockFile, held, desk, calls, ages, acked, staged, dropped>>

(* cleanup_expired_uploads looks at one directory: whether it is expired,  *)
(* and whether its metadata can be read, decides before the lock is tried. *)
SweepLooks(p, u) ==
    /\ call[p].at = "sweep" /\ u \in call[p].todo
    /\ IF Exists(u) /\ dir[u].old
       THEN To(p, [call[p] EXCEPT !.at = "try", !.upload = u, !.todo = @ \ {u},
                                  !.seen = dir[u].meta])
       ELSE To(p, [call[p] EXCEPT !.todo = @ \ {u}])
    /\ UNCHANGED <<clientOf, dir, lockFile, held, root, desk, calls, ages, acked, staged,
                   dropped>>

(* open_upload_lock makes the file when it is not there; a directory that  *)
(* is gone fails the request.                                              *)
NextInode(u) == IF lockFile[u] # 0 THEN lockFile[u]
                ELSE 1 + Max({0} \cup {l[2] : l \in {h \in held : h[1] = u}}
                             \cup {call[q].ino : q \in {r \in Callers : call[r].upload = u}})
Locked(u, ino) == \E l \in held : l[1] = u /\ l[2] = ino

\* Mutant: whoever sweeps removes what is expired, in use or not.
SweepTakes(p) ==
    LET u == call[p].upload
    IN  /\ call[p].at = "try" /\ Exists(u) /\ NextInode(u) <= MaxLocks
        /\ lockFile' = [lockFile EXCEPT ![u] = NextInode(u)]
        /\ held' = held \cup {<<u, NextInode(u), p>>}
        /\ To(p, [call[p] EXCEPT !.at = "clean", !.ino = NextInode(u)])
        /\ UNCHANGED <<clientOf, dir, root, desk, calls, ages, acked, staged, dropped>>

SweepTries(p) ==
    LET u == call[p].upload
    IN  /\ call[p].at = "try"
        /\ \/ /\ ~Exists(u)
              /\ root' = Nobody /\ End(p)
              /\ UNCHANGED <<lockFile, held>>
           \/ /\ Exists(u) /\ NextInode(u) <= MaxLocks
              /\ lockFile' = [lockFile EXCEPT ![u] = NextInode(u)]
              /\ IF Locked(u, NextInode(u))
                 THEN /\ To(p, [call[p] EXCEPT !.at = "sweep", !.upload = 0])
                      /\ UNCHANGED held
                 ELSE /\ To(p, [call[p] EXCEPT !.at = "clean", !.ino = NextInode(u)])
                      /\ held' = held \cup {<<u, NextInode(u), p>>}
              /\ UNCHANGED root
        /\ UNCHANGED <<clientOf, dir, desk, calls, ages, acked, staged, dropped>>

(* An orphan, which had no metadata, is removed as a whole. *)
SweepsOrphan(p) ==
    LET u == call[p].upload
    IN  /\ call[p].at = "clean" /\ ~call[p].seen
        /\ SetDir(u, Gone(u)) /\ lockFile' = [lockFile EXCEPT ![u] = 0]
        /\ held' = FreeOf(p)
        /\ At(p, "swept")
        /\ UNCHANGED <<clientOf, root, desk, calls, ages, acked, staged, dropped>>

(* remove_upload_content_files, for an expired upload, one that is given   *)
(* up by its owner, and one that was handed over: the payload, then the    *)
(* metadata and with it the lock.                                          *)
RemovesPayload(p) ==
    LET u == call[p].upload
    IN  /\ \/ call[p].at = "clean" /\ call[p].seen /\ UNCHANGED dropped
           \/ /\ \/ call[p].at = "remove"
                 \/ call[p].at = "locked" /\ call[p].op = "cancel" /\ Owned(p) /\ dir[u].file
              /\ dropped' = dropped \cup {u}
        /\ SetDir(u, [dir[u] EXCEPT !.file = FALSE])
        /\ At(p, "removeMeta")
        /\ UNCHANGED <<clientOf, lockFile, held, root, desk, calls, ages, acked, staged>>

RemovesMeta(p) ==
    LET u == call[p].upload
    IN  /\ call[p].at = "removeMeta"
        /\ SetDir(u, [dir[u] EXCEPT !.meta = FALSE])
        /\ held' = FreeOf(p)
        /\ At(p, IF call[p].op = "begin" THEN "swept" ELSE "finish")
        /\ UNCHANGED <<clientOf, lockFile, root, desk, calls, ages, acked, staged, dropped>>

(* finish_upload_directory_cleanup: the lock file goes, and the directory  *)
(* if nobody made another lock file in it.                                 *)
RemoveLock(u) == lockFile' = [lockFile EXCEPT ![u] = 0]
RemoveDir(u)  == IF Exists(u) /\ lockFile[u] = 0 /\ ~dir[u].meta /\ ~dir[u].file
                 THEN SetDir(u, Gone(u)) ELSE UNCHANGED dir

Unlinks(p) ==
    /\ call[p].at \in {"swept", "finish"}
    /\ RemoveLock(call[p].upload)
    /\ At(p, IF call[p].at = "swept" THEN "sweptDir" ELSE "finishDir")
    /\ UNCHANGED <<clientOf, dir, held, root, desk, calls, ages, acked, staged, dropped>>

RemovesDir(p) ==
    /\ call[p].at \in {"sweptDir", "finishDir"}
    /\ RemoveDir(call[p].upload)
    /\ IF call[p].at = "sweptDir"
       THEN To(p, [call[p] EXCEPT !.at = "sweep", !.upload = 0, !.ino = 0])
       ELSE End(p)
    /\ UNCHANGED <<clientOf, lockFile, held, root, desk, calls, ages, acked, staged, dropped>>

(* upload_usage: directories count, with what their metadata declares. *)
ActiveUploads == {u \in Uploads : Exists(u)}
DeclaredBytes == FoldSet(LAMBDA u, n : n + (IF dir[u].meta THEN dir[u].size ELSE 0), 0,
                         ActiveUploads)

\* Mutant: the limit is compared with what was there before the sweep began.
CreatesDirUnchecked(p) ==
    /\ call[p].at = "sweep" /\ call[p].todo = {} /\ Fresh # {}
    /\ LET u == CHOOSE x \in Fresh : \A y \in Fresh : x <= y
       IN  /\ SetDir(u, [NoDir EXCEPT !.is = "dir", !.client = clientOf[p], !.size = call[p].size])
           /\ To(p, [call[p] EXCEPT !.at = "meta", !.upload = u])
    /\ UNCHANGED <<clientOf, lockFile, held, root, desk, calls, ages, acked, staged, dropped>>

(* The quota is checked and the directory made, or the request refused.    *)
CreatesDir(p) ==
    LET fits == /\ Cardinality(ActiveUploads) < MaxUploads
                /\ DeclaredBytes + call[p].size <= MaxTotal
    IN  /\ call[p].at = "sweep" /\ call[p].todo = {}
        /\ \/ /\ fits /\ Fresh # {}
              /\ LET u == CHOOSE x \in Fresh : \A y \in Fresh : x <= y
                 IN  /\ SetDir(u, [NoDir EXCEPT !.is = "dir", !.client = clientOf[p],
                                                !.size = call[p].size])
                     /\ To(p, [call[p] EXCEPT !.at = "meta", !.upload = u])
              /\ UNCHANGED root
           \/ /\ ~fits \/ Fresh = {}
              /\ root' = Nobody /\ End(p) /\ UNCHANGED dir
        /\ UNCHANGED <<clientOf, lockFile, held, desk, calls, ages, acked, staged, dropped>>

(* write_upload_metadata and the empty payload; when one of them fails the *)
(* directory is removed again.                                             *)
WritesMeta(p) ==
    LET u == call[p].upload
    IN  /\ call[p].at = "meta"
        /\ \/ /\ SetDir(u, [dir[u] EXCEPT !.meta = TRUE])
              /\ At(p, "payload") /\ UNCHANGED <<root, dropped>>
           \/ /\ SetDir(u, Gone(u)) /\ dropped' = dropped \cup {u}
              /\ End(p) /\ root' = Nobody
        /\ UNCHANGED <<clientOf, lockFile, held, desk, calls, ages, acked, staged>>

CreatesPayload(p) ==
    LET u == call[p].upload
    IN  /\ call[p].at = "payload"
        /\ \/ SetDir(u, [dir[u] EXCEPT !.file = TRUE]) /\ UNCHANGED dropped
           \/ SetDir(u, Gone(u)) /\ dropped' = dropped \cup {u}
        /\ End(p) /\ root' = Nobody
        /\ UNCHANGED <<clientOf, lockFile, held, desk, calls, ages, acked, staged>>

----------------------------------------------------------------------------
(* append_content_upload, start_transfer with an uploadId and              *)
(* cancel_content_upload.                                                  *)

(* owned_upload_dir, then open_upload_lock. *)
OpensLock(p, op, u, offset, piece) ==
    /\ Call(p, op) /\ Exists(u) /\ NextInode(u) <= MaxLocks
    /\ lockFile' = [lockFile EXCEPT ![u] = NextInode(u)]
    /\ To(p, [NoCall EXCEPT !.op = op, !.at = "lock", !.upload = u, !.ino = NextInode(u),
                            !.offset = offset, !.piece = piece])
    /\ UNCHANGED <<clientOf, dir, held, root, desk, ages, acked, staged, dropped>>

AppendUpload(p, u, offset, piece) == OpensLock(p, "append", u, offset, piece)
StartUpload(p, u)  == OpensLock(p, "start", u, 0, 0)
CancelUpload(p, u) == OpensLock(p, "cancel", u, 0, 0)

\* Mutant: the lock file is opened and not locked.
TakesNoLock(p) ==
    /\ call[p].at = "lock"
    /\ At(p, "locked")
    /\ UNCHANGED <<clientOf, dir, lockFile, held, root, desk, calls, ages, acked, staged, dropped>>

TakesLock(p) ==
    /\ call[p].at = "lock" /\ ~Locked(call[p].upload, call[p].ino)
    /\ held' = held \cup {<<call[p].upload, call[p].ino, p>>}
    /\ At(p, "locked")
    /\ UNCHANGED <<clientOf, dir, lockFile, root, desk, calls, ages, acked, staged, dropped>>

(* verify_payload. *)
Verified(u) == dir[u].file /\ dir[u].payload = Wanted(dir[u].size)

(* The checks under the lock.  A session or a grant that is gone refuses   *)
(* the request as well.                                                    *)
Refuses(p) ==
    /\ call[p].at = "locked"
    /\ held' = FreeOf(p) /\ End(p)
    /\ UNCHANGED <<clientOf, dir, lockFile, root, desk, calls, ages, acked, staged, dropped>>

ChecksAppend(p) ==
    LET d == dir[call[p].upload]
    IN  /\ call[p].at = "locked" /\ call[p].op = "append"
        /\ Owned(p) /\ d.file
        /\ call[p].offset = Len(d.payload) /\ Len(d.payload) < d.size
        /\ At(p, "write")
        /\ UNCHANGED <<clientOf, dir, lockFile, held, root, desk, calls, ages, acked, staged,
                       dropped>>

(* The piece is written at the offset that was checked, and acknowledged.  *)
WritesPiece(p) ==
    LET u == call[p].upload
        d == dir[u]
    IN  /\ call[p].at = "write"
        /\ IF d.file
           THEN /\ SetDir(u, [d EXCEPT !.payload =
                      [i \in 1..Max({Len(d.payload), call[p].offset + 1}) |->
                          IF i = call[p].offset + 1 THEN call[p].piece ELSE d.payload[i]]])
           ELSE UNCHANGED dir
        /\ acked' = acked \cup {<<u, call[p].offset, call[p].piece>>}
        /\ held' = FreeOf(p) /\ End(p)
        /\ UNCHANGED <<clientOf, lockFile, root, desk, calls, ages, staged, dropped>>

(* start_completed_upload_transfer verifies the payload and asks the       *)
(* desktop, keeping the lock.                                              *)
AsksDesktop(p) ==
    /\ call[p].at = "locked" /\ call[p].op = "start"
    /\ Owned(p) /\ Verified(call[p].upload) /\ desk[p] = NoTask
    /\ desk' = [desk EXCEPT ![p] = [at |-> "asked", upload |-> call[p].upload]]
    /\ At(p, "asking")
    /\ UNCHANGED <<clientOf, dir, lockFile, held, root, calls, ages, acked, staged, dropped>>

(* The desktop's answer, or none within IPC_RESPONSE_TIMEOUT: then it may  *)
(* still be at work.                                                       *)
DesktopAnswers(p) ==
    /\ call[p].at = "asking" /\ desk[p].at \in {"started", "failed"}
    /\ desk' = [desk EXCEPT ![p] = NoTask]
    /\ IF desk[p].at = "started"
       THEN At(p, "remove") /\ UNCHANGED held
       ELSE held' = FreeOf(p) /\ End(p)
    /\ UNCHANGED <<clientOf, dir, lockFile, root, calls, ages, acked, staged, dropped>>

StopsWaiting(p) ==
    /\ call[p].at = "asking"
    /\ held' = FreeOf(p) /\ End(p)
    /\ UNCHANGED <<clientOf, dir, lockFile, root, desk, calls, ages, acked, staged, dropped>>

----------------------------------------------------------------------------
(* The desktop.  A request it works on may have lost its requester.  *)

Works(p, at) == desk' = [desk EXCEPT ![p].at = at]

(* load_mcp_content_upload_metadata, once the user has approved. *)
DesktopLoads(p) ==
    LET d == dir[desk[p].upload]
    IN  /\ desk[p].at = "asked"
        /\ Works(p, IF d.meta /\ d.client = clientOf[p] THEN "loaded" ELSE "failed")
        /\ UNCHANGED <<clientOf, dir, lockFile, held, root, call, calls, ages, acked, staged,
                       dropped>>

(* stage_mcp_content_upload copies and checks the content; the transfer is *)
(* queued, or refused and the copy removed.                                *)
DesktopStages(p) ==
    LET u == desk[p].upload
    IN  /\ desk[p].at = "loaded"
        /\ \/ /\ Verified(u)
              /\ staged' = staged \cup {<<u, clientOf[p], dir[u].payload>>}
              /\ Works(p, "started")
           \/ Works(p, "failed") /\ UNCHANGED staged
        /\ UNCHANGED <<clientOf, dir, lockFile, held, root, call, calls, ages, acked, dropped>>

(* Nobody waits for the answer. *)
DesktopForgets(p) ==
    /\ desk[p].at \in {"started", "failed"} /\ call[p].at # "asking"
    /\ desk' = [desk EXCEPT ![p] = NoTask]
    /\ UNCHANGED <<clientOf, dir, lockFile, held, root, call, calls, ages, acked, staged, dropped>>

----------------------------------------------------------------------------
(* An upload passes its expiry, and a process dies with its locks. *)

Ages(u) ==
    /\ ages < MaxAges /\ Exists(u) /\ ~dir[u].old
    /\ \A p \in Callers : call[p].op = "begin" => call[p].upload # u
    /\ SetDir(u, [dir[u] EXCEPT !.old = TRUE])
    /\ ages' = ages + 1
    /\ UNCHANGED <<clientOf, lockFile, held, root, call, desk, calls, acked, staged, dropped>>

Dies(p) ==
    /\ call[p] # NoCall
    /\ held' = FreeOf(p)
    /\ root' = IF root = p THEN Nobody ELSE root
    /\ End(p)
    /\ UNCHANGED <<clientOf, dir, lockFile, desk, calls, ages, acked, staged, dropped>>

----------------------------------------------------------------------------
CallerStep(p) ==
    \/ LockRoot(p) \/ (\E u \in Uploads : SweepLooks(p, u)) \/ SweepTries(p)
    \/ SweepsOrphan(p) \/ RemovesPayload(p) \/ RemovesMeta(p) \/ Unlinks(p) \/ RemovesDir(p) \/ CreatesDir(p) \/ WritesMeta(p)
    \/ CreatesPayload(p)
    \/ TakesLock(p) \/ Refuses(p) \/ ChecksAppend(p) \/ WritesPiece(p) \/ AsksDesktop(p)
    \/ DesktopAnswers(p) \/ StopsWaiting(p)
    \/ DesktopLoads(p) \/ DesktopStages(p) \/ DesktopForgets(p)

UploadNext ==
    \/ \E p \in Callers :
         \/ \E size \in SizeChoices : BeginUpload(p, size)
         \/ \E u \in Uploads :
              \/ StartUpload(p, u) \/ CancelUpload(p, u)
              \/ \E offset \in 0..1, piece \in 0..1 : AppendUpload(p, u, offset, (offset + 1) * piece)
         \/ CallerStep(p) \/ Dies(p)
    \/ \E u \in Uploads : Ages(u)

UploadSpec == UploadInit /\ [][UploadNext]_uploadVars

----------------------------------------------------------------------------
(* Whatever other processes begin, expire or give up at the same time, and *)
(* whichever dies: the uploads stay within the quota; a piece that was     *)
(* acknowledged is in the payload where it belongs; an upload that is      *)
(* written or offered to the desktop keeps its payload; none disappears    *)
(* before its time unless its owner ended it; and a transfer sends the     *)
(* content that was declared, for the client that declared it              *)
(* (begin_content_upload, cleanup_expired_uploads, stage_mcp_content_upload). *)
UploadsHold ==
    /\ Cardinality(ActiveUploads) <= MaxUploads /\ DeclaredBytes <= MaxTotal
    /\ \A a \in acked :
        dir[a[1]].file => Len(dir[a[1]].payload) > a[2] /\ dir[a[1]].payload[a[2] + 1] = a[3]
    /\ \A p \in Callers :
        call[p].at \in {"write", "asking"} =>
            dir[call[p].upload].file /\ dir[call[p].upload].meta
    /\ \A u \in Uploads : dir[u].is = "gone" => dir[u].old \/ u \in dropped
    /\ \A s \in staged : s[3] = Wanted(Len(s[3])) /\ s[3] # <<>>
=============================================================================
