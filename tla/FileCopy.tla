------------------------------ MODULE FileCopy ------------------------------
(***************************************************************************)
(* A file transfer by SFTP, by SCP or between local files, from its first  *)
(* attempt to its last: the part file next to the target, what an attempt  *)
(* reuses of it, the copy and the step that puts the part in the target's  *)
(* place.  The source may be edited meanwhile, every step may fail, be     *)
(* cancelled or lose its runtime, and the part may be left by another      *)
(* attempt or by another source.                                           *)
(*                                                                         *)
(* Names and contents are kept apart (an inode is a content with a number) *)
(* because the remote commits are a link followed by an unlink, and because*)
(* a shell whose client has gone keeps its file open.                      *)
(***************************************************************************)
EXTENDS Integers, Sequences, FiniteSets

CONSTANTS Methods,      \* how the file travels
          Contents,     \* what the source may contain
          Leftovers,    \* what a part left by somebody else may contain
          MaxAttempts, MaxEdits

VARIABLES
    method,
    source,      \* the content of the source now
    edits,
    inode,       \* the content of every file made so far next to the target
    part,        \* the inode that the part's name stands for, 0 for none
    target,      \* the inode that the target's name stands for
    attempt,     \* the number of the running or last attempt
    total,       \* the size an attempt found when it opened its source
    versions,    \* the contents that the source has had during an attempt
    client,      \* the attempt in this process
    shell,       \* the remote command of every attempt
    outcome,     \* what the attempt reports
    author,      \* the attempt that has put a file in the target's place
    crowded      \* an attempt began beside the remote command of an earlier one

context == <<method, source, edits, crowded>>
fileVars == <<inode, part, target>>
copyVars == <<method, source, edits, fileVars, attempt, total, versions, client, shell,
              outcome, author, crowded>>

Attempts == 1 .. MaxAttempts
Old == <<"old">>

\* The target of these is a local file.
ToLocal == method \in {"local", "sftpDownload", "scpDownload"}

\* These run a command on the host (scp_upload_command, remote_copy_command).
Scripted == method \in {"scpUpload", "scpCopy"}

SftpToRemote == method \in {"sftpUpload", "sftpCopy"}

Content(i) == IF i = 0 THEN <<>> ELSE inode[i]
Fresh == Len(inode) + 1
Prefix(s, n) == SubSeq(s, 1, n)
IsPrefixOf(s, t) == Len(s) <= Len(t) /\ Prefix(t, Len(s)) = s

NoShell == [at |-> "none", fd |-> 0, candidate |-> 0, digest |-> Old, wire |-> <<>>,
            eof |-> FALSE, resume |-> -1, done |-> -1]
Resting == [at |-> "rest", copied |-> 0, fd |-> 0]

CopyInit ==
    /\ method \in Methods
    /\ source \in Contents /\ edits = 0
    /\ \E left \in Leftovers, here \in BOOLEAN :
         /\ inode = <<Old>> \o left
         /\ part = IF left = <<>> THEN 0 ELSE 2
         /\ target = IF here THEN 1 ELSE 0
    /\ attempt = 0 /\ client = Resting
    /\ total = [a \in Attempts |-> 0] /\ versions = [a \in Attempts |-> {}]
    /\ shell = [a \in Attempts |-> NoShell]
    /\ outcome = "none" /\ author = 0 /\ crowded = FALSE

Now == shell[attempt]
Goto(at) == client' = [client EXCEPT !.at = at]
Shell(a, s) == shell' = [shell EXCEPT ![a] = s]
Ends(result) == client' = Resting /\ outcome' = result

-----------------------------------------------------------------------------
(* An attempt begins, and the source changes.                               *)

\* The lease, the check that the runtime is the planned one, and the source,
\* opened with its size; with SCP the remote command starts.
Begin ==
    /\ client.at = "rest" /\ attempt < MaxAttempts /\ outcome # "ok"
    /\ attempt' = attempt + 1
    /\ total' = [total EXCEPT ![attempt + 1] = Len(source)]
    /\ versions' = [versions EXCEPT ![attempt + 1] = {source}]
    /\ client' = [Resting EXCEPT !.at = IF Scripted THEN "await" ELSE "resume"]
    /\ Shell(attempt + 1, [NoShell EXCEPT !.at = IF Scripted THEN "check" ELSE "none"])
    /\ outcome' = "none"
    /\ crowded' = (crowded \/ \E a \in Attempts : shell[a].at \notin {"none", "ended"})
    /\ UNCHANGED <<method, source, edits, fileVars, author>>

Edit ==
    /\ edits < MaxEdits /\ attempt > 0
    /\ \E content \in Contents \ {source} :
         /\ source' = content
         /\ versions' = [a \in Attempts |->
                           IF a <= attempt THEN versions[a] \cup {content} ELSE {}]
    /\ edits' = edits + 1
    /\ UNCHANGED <<method, fileVars, attempt, total, client, shell, outcome, author,
                   crowded>>

-----------------------------------------------------------------------------
(* The part.                                                                *)

\* Mutant: a part that is not too long is taken for a prefix of the source.
OffsetByLength(size) == IF Len(Content(part)) <= size THEN Len(Content(part)) ELSE 0

\* A local part is reused when it is a prefix of the source as it is now.
MatchingOffset(size) ==
    IF Len(Content(part)) <= size /\ IsPrefixOf(Content(part), source)
    THEN Len(Content(part)) ELSE 0

\* An oversized local part is removed; one that does not match is removed when
\* the writer is opened.
ResumeLocal ==
    /\ client.at = "resume" /\ method \in {"local", "sftpDownload"}
    /\ part' = IF Len(Content(part)) > total[attempt] THEN 0 ELSE part
    /\ client' = [client EXCEPT !.at = "open", !.copied = MatchingOffset(total[attempt])]
    /\ UNCHANGED <<context, inode, target, attempt, total, versions, shell,
                   outcome, author>>

\* Plain scp sends the file from its first byte: an old part is never reused.
ResumeScpDownload ==
    /\ client.at = "resume" /\ method = "scpDownload"
    /\ Goto("open")
    /\ UNCHANGED <<context, fileVars, attempt, total, versions, shell,
                   outcome, author>>

\* A remote part is removed, whatever its size.
ResumeRemote ==
    /\ client.at = "resume" /\ SftpToRemote
    /\ part' = 0
    /\ Goto("open")
    /\ UNCHANGED <<context, inode, target, attempt, total, versions, shell,
                   outcome, author>>

OpenWriter ==
    /\ client.at = "open"
    /\ SftpToRemote => part = 0
    /\ IF client.copied = 0
       THEN /\ inode' = Append(inode, <<>>)
            /\ part' = Fresh
            /\ client' = [client EXCEPT !.at = "copy", !.fd = Fresh]
       ELSE /\ client' = [client EXCEPT !.at = "copy", !.fd = part]
            /\ UNCHANGED <<inode, part>>
    /\ UNCHANGED <<context, target, attempt, total, versions, shell, outcome,
                   author>>

-----------------------------------------------------------------------------
(* The copy.                                                                *)

Written == inode' = [inode EXCEPT ![client.fd] = Append(@, source[client.copied + 1])]

\* One read and one write.  The read asks for a byte more than is due, so that
\* a source that has grown is noticed.
CopyByte ==
    /\ client.at = "copy" /\ method # "scpDownload" /\ client.copied < Len(source)
    /\ Written
    /\ IF client.copied + 1 > total[attempt] THEN Ends("failed")
       ELSE /\ client' = [client EXCEPT !.copied = @ + 1]
            /\ UNCHANGED outcome
    /\ UNCHANGED <<context, part, target, attempt, total, versions, shell,
                   author>>

\* Plain scp sends as much as it announced.
ReceiveByte ==
    /\ client.at = "copy" /\ method = "scpDownload"
    /\ client.copied < Len(source) /\ client.copied < total[attempt]
    /\ Written
    /\ client' = [client EXCEPT !.copied = @ + 1]
    /\ UNCHANGED <<context, part, target, attempt, total, versions, shell, outcome,
                   author>>

\* ensure_exact_transfer_size
Exact ==
    IF client.copied = total[attempt] THEN Goto("finalize") /\ UNCHANGED outcome
    ELSE Ends("failed")

\* The end of the source.
CopyEnds ==
    /\ client.at = "copy" /\ method # "scpDownload" /\ client.copied = Len(source)
    /\ Exact
    /\ UNCHANGED <<context, fileVars, attempt, total, versions, shell, author>>

\* The final acknowledgement, the end of the channel and its exit status.  Plain
\* scp reports a file that has shrunk in place of the acknowledgement.
ReceiveEnds ==
    /\ client.at = "copy" /\ method = "scpDownload"
    /\ client.copied \in {Len(source), total[attempt]}
    /\ Exact
    /\ UNCHANGED <<context, fileVars, attempt, total, versions, shell, author>>

-----------------------------------------------------------------------------
(* The part takes the target's place.                                       *)

\* A local rename replaces the target.
FinalizeLocal ==
    /\ client.at = "finalize" /\ ToLocal /\ part # 0
    /\ target' = part /\ part' = 0
    /\ author' = attempt
    /\ Ends("ok")
    /\ UNCHANGED <<context, inode, attempt, total, versions, shell>>

\* rename_without_overwrite: a hard link, which an existing target refuses ...
FinalizeLink ==
    /\ client.at = "finalize" /\ SftpToRemote /\ part # 0 /\ target = 0
    /\ target' = part
    /\ author' = attempt
    /\ Goto("unlink")
    /\ UNCHANGED <<context, inode, part, attempt, total, versions, shell,
                   outcome>>

\* ... and the removal of the old name.
FinalizeUnlink ==
    /\ client.at = "unlink"
    /\ part' = 0
    /\ Ends("ok")
    /\ UNCHANGED <<context, inode, target, attempt, total, versions, shell,
                   author>>

\* An error, the user's cancellation, a timeout or the loss of the runtime.
\* Nothing is undone: the part stays for the next attempt, and what was begun
\* on the host may still happen.  The last check of the runtime turns even a
\* finished transfer into a failed one.
Fails ==
    /\ client.at # "rest"
    /\ \/ UNCHANGED <<part, target, author>>
       \/ /\ client.at = "unlink"
          /\ part' = 0
          /\ UNCHANGED <<target, author>>
       \/ /\ client.at = "finalize" /\ SftpToRemote /\ part # 0 /\ target = 0
          /\ target' = part /\ author' = attempt
          /\ part' \in {0, part}
    /\ Ends("failed")
    /\ shell' = [shell EXCEPT ![attempt].eof = TRUE]
    /\ UNCHANGED <<context, inode, attempt, total, versions>>

-----------------------------------------------------------------------------
(* SCP: the client beside its remote command.                               *)

\* The digest of the prefix, over the source as it is now; a source that has
\* become shorter ends the attempt.
SendDigest ==
    /\ client.at = "await" /\ method = "scpUpload"
    /\ Now.at = "candidate" /\ Now.digest = Old
    /\ IF Len(source) < Now.candidate THEN Ends("failed") /\ UNCHANGED shell
       ELSE /\ Shell(attempt, [Now EXCEPT !.digest = Prefix(source, Now.candidate)])
            /\ UNCHANGED <<client, outcome>>
    /\ UNCHANGED <<context, fileVars, attempt, total, versions, author>>

\* The resume marker must be zero or the candidate that was verified.
TakeResume ==
    /\ client.at = "await" /\ method = "scpUpload" /\ Now.resume >= 0
    /\ Now.resume \in {0, Now.candidate}
    /\ client' = [client EXCEPT !.at = "send", !.copied = Now.resume]
    /\ UNCHANGED <<context, fileVars, attempt, total, versions, shell, outcome,
                   author>>

SendByte ==
    /\ client.at = "send"
    /\ client.copied < total[attempt] /\ client.copied < Len(source)
    /\ Shell(attempt, [Now EXCEPT !.wire = Append(@, source[client.copied + 1])])
    /\ client' = [client EXCEPT !.copied = @ + 1]
    /\ UNCHANGED <<context, fileVars, attempt, total, versions, outcome, author>>

\* The size is checked, and that the source has not grown, before the EOF.
SendEof ==
    /\ client.at = "send"
    /\ client.copied = total[attempt] \/ client.copied >= Len(source)
    /\ IF client.copied = total[attempt] /\ Len(source) <= total[attempt]
       THEN /\ Goto("await2")
            /\ Shell(attempt, [Now EXCEPT !.eof = TRUE])
            /\ UNCHANGED outcome
       ELSE Ends("failed") /\ Shell(attempt, [Now EXCEPT !.eof = TRUE])
    /\ UNCHANGED <<context, fileVars, attempt, total, versions, author>>

\* The done marker must be the size; the exit status must not say otherwise.
Done == Ends(IF Now.done = total[attempt] THEN "ok" ELSE "failed")

TakeUploadDone ==
    /\ client.at = "await2" /\ method = "scpUpload" /\ Now.at = "ended"
    /\ Done
    /\ UNCHANGED <<context, fileVars, attempt, total, versions, shell, author>>

TakeCopyDone ==
    /\ client.at = "await" /\ method = "scpCopy" /\ Now.at = "ended"
    /\ Done
    /\ UNCHANGED <<context, fileVars, attempt, total, versions, shell, author>>

-----------------------------------------------------------------------------
(* SCP: the remote command.                                                 *)

\* Mutant: a part with a second name is used as any other.
PrivateOrNot == TRUE

\* ensure_private_part: the part has one name.
PrivatePart == part # 0 => part # target

\* `: > "$part"` cuts the file that is there, or makes one.
Truncated ==
    IF part = 0 THEN inode' = Append(inode, <<>>) /\ part' = Fresh
    ELSE inode' = [inode EXCEPT ![part] = <<>>] /\ UNCHANGED part

Exit(a) == Shell(a, [shell[a] EXCEPT !.at = "ended"])

\* The command looks at the part.  A copy compares it with the source itself;
\* an upload asks for the digest of the source's prefix.
CheckPart(a) ==
    /\ shell[a].at = "check"
    /\ CASE ~PrivatePart -> Exit(a) /\ UNCHANGED fileVars
         [] PrivatePart /\ part # 0 /\ inode[part] = <<>> ->
              /\ Shell(a, [shell[a] EXCEPT !.at = "write", !.fd = part, !.resume = 0])
              /\ UNCHANGED fileVars
         [] PrivatePart /\ part # 0 /\ Len(Content(part)) \in 1 .. total[a] ->
              IF method = "scpUpload"
              THEN /\ Shell(a, [shell[a] EXCEPT !.at = "candidate",
                                                !.candidate = Len(inode[part])])
                   /\ UNCHANGED fileVars
              ELSE IF IsPrefixOf(inode[part], source)
              THEN /\ Shell(a, [shell[a] EXCEPT !.at = "write", !.fd = part,
                                                !.resume = Len(inode[part])])
                   /\ UNCHANGED fileVars
              ELSE /\ Truncated
                   /\ Shell(a, [shell[a] EXCEPT !.at = "write", !.fd = part, !.resume = 0])
                   /\ UNCHANGED target
         [] OTHER ->
              /\ Truncated
              /\ Shell(a, [shell[a] EXCEPT !.at = "write", !.fd = part', !.resume = 0])
              /\ UNCHANGED target
    /\ UNCHANGED <<context, attempt, total, versions, client, outcome, author>>

\* The digests are compared; at the end of the input there is none to compare.
CheckDigest(a) ==
    /\ shell[a].at = "candidate"
    /\ \/ /\ shell[a].eof /\ shell[a].digest = Old
          /\ Exit(a) /\ UNCHANGED fileVars
       \/ /\ shell[a].digest # Old
          /\ IF shell[a].digest = Content(part)
             THEN /\ Shell(a, [shell[a] EXCEPT !.at = "write", !.fd = part,
                                               !.resume = shell[a].candidate])
                  /\ UNCHANGED fileVars
             ELSE /\ Truncated
                  /\ Shell(a, [shell[a] EXCEPT !.at = "write", !.fd = part', !.resume = 0])
                  /\ UNCHANGED target
    /\ UNCHANGED <<context, attempt, total, versions, client, outcome, author>>

\* `cat >> "$part"` appends what comes; `tail -c +N "$src" >> "$part"` what the
\* source has.
Position(a) == shell[a].resume + Len(shell[a].wire)

WriteByte(a) ==
    /\ shell[a].at \in {"write", "orphan"} /\ shell[a].resume < total[a]
    /\ IF method = "scpUpload"
       THEN /\ shell[a].wire # <<>>
            /\ inode' = [inode EXCEPT ![shell[a].fd] = Append(@, Head(shell[a].wire))]
            /\ Shell(a, [shell[a] EXCEPT !.wire = Tail(@)])
       ELSE /\ Position(a) < Len(source)
            /\ inode' = [inode EXCEPT ![shell[a].fd] = Append(@, source[Position(a) + 1])]
            /\ Shell(a, [shell[a] EXCEPT !.wire = Append(@, "copied")])
    /\ UNCHANGED <<context, part, target, attempt, total, versions, client,
                   outcome, author>>

\* The input or the source is at its end.  A `tail` whose shell was killed just
\* stops.
WriteEnds(a) ==
    /\ shell[a].at \in {"write", "orphan"}
    /\ \/ shell[a].resume >= total[a]
       \/ method = "scpUpload" /\ shell[a].wire = <<>> /\ shell[a].eof
       \/ method = "scpCopy" /\ Position(a) >= Len(source)
    /\ Shell(a, [shell[a] EXCEPT !.at = IF @ = "orphan" THEN "ended" ELSE "commit"])
    /\ UNCHANGED <<context, fileVars, attempt, total, versions, client, outcome,
                   author>>

\* A copy's shell dies of its closed output; its `tail` lives on.
ShellKilled(a) ==
    /\ method = "scpCopy" /\ shell[a].eof /\ shell[a].at = "write"
    /\ Shell(a, [shell[a] EXCEPT !.at = "orphan"])
    /\ UNCHANGED <<context, fileVars, attempt, total, versions, client, outcome,
                   author>>

\* The size of the part, its link count, and `ln`, which an existing target
\* refuses.
CommitLink(a) ==
    /\ shell[a].at = "commit"
    /\ IF part # 0 /\ Len(Content(part)) = total[a] /\ PrivatePart /\ target = 0
       THEN /\ target' = part /\ author' = a
            /\ Shell(a, [shell[a] EXCEPT !.at = "unlink"])
       ELSE Exit(a) /\ UNCHANGED <<target, author>>
    /\ UNCHANGED <<context, inode, part, attempt, total, versions, client,
                   outcome>>

\* `rm`, which may fail, and the done marker with the size of the target.
CommitUnlink(a) ==
    /\ shell[a].at = "unlink"
    /\ \/ /\ part' = 0
          /\ Shell(a, [shell[a] EXCEPT !.at = "ended", !.done = Len(Content(target))])
       \/ Exit(a) /\ UNCHANGED part
    /\ UNCHANGED <<context, inode, target, attempt, total, versions, client,
                   outcome, author>>

-----------------------------------------------------------------------------
ClientStep ==
    \/ Begin \/ ResumeLocal \/ ResumeScpDownload \/ ResumeRemote \/ OpenWriter
    \/ CopyByte \/ ReceiveByte \/ CopyEnds \/ ReceiveEnds \/ FinalizeLocal
    \/ FinalizeLink \/ FinalizeUnlink \/ Fails
    \/ SendDigest \/ TakeResume \/ SendByte \/ SendEof \/ TakeUploadDone
    \/ TakeCopyDone

ShellStep ==
    \E a \in Attempts :
        \/ CheckPart(a) \/ CheckDigest(a) \/ WriteByte(a) \/ WriteEnds(a) \/ ShellKilled(a)
        \/ CommitLink(a) \/ CommitUnlink(a)

CopyNext == ClientStep \/ ShellStep \/ Edit

CopySpec == CopyInit /\ [][CopyNext]_copyVars

-----------------------------------------------------------------------------
(* Properties.                                                              *)

\* What stands in the target's place is what stood there before, or it has the
\* size that the attempt which put it there found, and every byte of it was in
\* the source at that place while the attempt ran: no part of another source,
\* of another attempt or of a source that has changed its size is ever put
\* there.  A remote target that exists is never replaced.  And an attempt that
\* reports success has put its own file there and left no part.  (A command that
\* outlives its client may append to the part of the next attempt; the checks of
\* the size, before and after the commit, are then all that is left.)
CopyIsWhole ==
    /\ author = 0 => target \in {0, 1} /\ inode[1] = Old
    /\ author # 0 /\ ~crowded =>
         /\ Len(Content(target)) = total[author]
         /\ \A i \in 1 .. total[author] :
              \E v \in versions[author] : i <= Len(v) /\ v[i] = Content(target)[i]
    /\ ~ToLocal => inode[1] = Old /\ (target = 1 => author = 0)
    /\ outcome = "ok" /\ ~crowded => author = attempt /\ part = 0
=============================================================================
