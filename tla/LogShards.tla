----------------------------- MODULE LogShards -----------------------------
(***************************************************************************)
(* One log shard of a session and the directory it is in.  Appends, the    *)
(* retention that an append runs first, the user's deletes and the reads   *)
(* of what an append returned share it; nobody holds anything but the      *)
(* shard's lock, and the directory is not covered by that.                 *)
(***************************************************************************)
EXTENDS Integers, Sequences, FiniteSets

CONSTANTS
    Appends,    \* appends, 1, 2, ... in the order in which they begin
    MaxTime,    \* the time passes to at most this; a unit is the check interval
    Retention,  \* the profile's retention; 0: keep everything
    KeysAgree,  \* appends find the same lock under the path they use as the
                \* others do under its canonical form
    MaxDeletes  \* how often the user deletes the shard

VARIABLES
    time,
    dir,        \* does the directory exist?
    file,       \* the shard: which file it is (0: none), its bytes, its time
    files,      \* how many files there were
    locks,      \* the holder of each lock, "none" when free
    append,     \* each append
    checked,    \* LOG_RETENTION_CHECKS: when retention ran last, -1 when not
    remover,    \* the user's delete
    deletes,    \* how many there may still be
    removed,    \* what was removed: [id, at, by, cutoff]
    read        \* what reads of a reference returned: <<its append, the bytes' append>>

shardVars == <<time, dir, file, files, locks, append, checked, remover, deletes, removed, read>>

NoFile   == [id |-> 0, bytes |-> <<>>, modified |-> 0]
NoAppend == [at |-> "new", cutoff |-> 0, file |-> 0, offset |-> 0]
Key(who) == IF KeysAgree \/ who # "append" THEN "canonical" ELSE "given"

ShardInit ==
    /\ time = 0 /\ dir = FALSE /\ file = NoFile /\ files = 0
    /\ locks = [k \in {"canonical", "given"} |-> "none"]
    /\ append = [a \in Appends |-> NoAppend]
    /\ checked = -1 /\ remover = "idle" /\ deletes = MaxDeletes
    /\ removed = {} /\ read = {}

To(a, at) == append' = [append EXCEPT ![a].at = at]
Takes(who, holder) == locks[Key(who)] = "none" /\ locks' = [locks EXCEPT ![Key(who)] = holder]
Gives(who) == locks' = [locks EXCEPT ![Key(who)] = "none"]

TimePasses ==
    /\ time < MaxTime /\ time' = time + 1
    /\ UNCHANGED <<dir, file, files, locks, append, checked, remover, deletes, removed, read>>

----------------------------------------------------------------------------
(* Retention.                                                              *)

(* The first append since the last check lists what is older; the check is *)
(* noted before it is made.                                                *)
MaybePrune(a) ==
    /\ append[a].at = "new" /\ \A b \in Appends : b < a => append[b].at # "new"
    /\ IF Retention = 0
       THEN To(a, "dir") /\ checked' = -1
       ELSE IF checked # -1 /\ time < checked + 1
       THEN To(a, "dir") /\ UNCHANGED checked
       ELSE To(a, "list") /\ checked' = time
    /\ UNCHANGED <<time, dir, file, files, locks, remover, deletes, removed, read>>

ListExpired(a) ==
    LET cutoff == time - Retention
    IN  /\ append[a].at = "list"
        /\ append' = [append EXCEPT ![a].cutoff = cutoff,
                         ![a].at = IF file.id # 0 /\ file.modified < cutoff THEN "expired" ELSE "dir"]
        /\ UNCHANGED <<time, dir, file, files, locks, checked, remover, deletes, removed, read>>

(* A scan or a removal that failed is not counted as a check.              *)
PruneFails(a) ==
    /\ append[a].at \in {"list", "expired"}
    /\ To(a, "dir") /\ checked' = -1
    /\ UNCHANGED <<time, dir, file, files, locks, remover, deletes, removed, read>>

Removes(by, cutoff) ==
    /\ removed' = removed \cup {[id |-> file.bytes[i].id, at |-> file.bytes[i].at, by |-> by,
                                 cutoff |-> cutoff] : i \in DOMAIN file.bytes}
    /\ file' = NoFile

\* Mutant: what was listed is removed without another look.
RemoveListed(a) ==
    /\ append[a].at = "expired" /\ Takes("prune", "prune")
    /\ IF file.id # 0
       THEN Removes("retention", append[a].cutoff) /\ To(a, "rmdir")
       ELSE To(a, "unlock") /\ UNCHANGED <<file, removed>>
    /\ UNCHANGED <<time, dir, files, checked, remover, deletes, read>>

(* Under the lock the shard's time is read again. *)
RemoveExpired(a) ==
    /\ append[a].at = "expired" /\ Takes("prune", "prune")
    /\ IF file.id # 0 /\ file.modified < append[a].cutoff
       THEN Removes("retention", append[a].cutoff) /\ To(a, "rmdir")
       ELSE To(a, "unlock") /\ UNCHANGED <<file, removed>>
    /\ UNCHANGED <<time, dir, files, checked, remover, deletes, read>>

(* An empty directory goes too. *)
RemoveDirectory == dir' = (dir /\ file.id # 0)

PruneEnds(a) ==
    /\ append[a].at \in {"rmdir", "unlock"}
    /\ IF append[a].at = "rmdir" THEN RemoveDirectory ELSE UNCHANGED dir
    /\ Gives("prune") /\ To(a, "dir")
    /\ UNCHANGED <<time, file, files, checked, remover, deletes, removed, read>>

----------------------------------------------------------------------------
(* An append: it makes the directory, then takes the lock, opens the file  *)
(* (which may have to be created), notes its end and writes.               *)

CreateDirectory(a) ==
    /\ append[a].at = "dir"
    /\ dir' = TRUE /\ To(a, "lock")
    /\ UNCHANGED <<time, file, files, locks, checked, remover, deletes, removed, read>>

Opened(a) ==
    IF ~dir THEN To(a, "failed") /\ UNCHANGED <<file, files>>
    ELSE LET new == IF file.id # 0 THEN file ELSE [NoFile EXCEPT !.id = files + 1, !.modified = time]
         IN  /\ file' = new /\ files' = IF file.id # 0 THEN files ELSE files + 1
             /\ append' = [append EXCEPT ![a].at = "write", ![a].file = new.id,
                                         ![a].offset = Len(new.bytes)]

\* Mutant: the file is opened before the lock is there.
OpensUnlocked(a) ==
    /\ append[a].at = "lock"
    /\ Opened(a)
    /\ UNCHANGED <<time, dir, locks, checked, remover, deletes, removed, read>>

OpenShard(a) ==
    /\ append[a].at = "lock" /\ locks[Key("append")] = "none"
    /\ Opened(a)
    /\ locks' = [locks EXCEPT ![Key("append")] = IF dir THEN "append" ELSE "none"]
    /\ UNCHANGED <<time, dir, checked, remover, deletes, removed, read>>

(* The bytes go to the file that was opened, whether the shard still is    *)
(* that file or not.  A write that fails may leave a part (0).             *)
WriteShard(a) ==
    /\ append[a].at = "write"
    /\ \E id \in {a, 0} :
        /\ To(a, IF id = a THEN "done" ELSE "failed")
        /\ file' = IF file.id # append[a].file THEN file
                   ELSE [file EXCEPT !.bytes = Append(@, [id |-> id, at |-> time]), !.modified = time]
    /\ Gives("append")
    /\ UNCHANGED <<time, dir, files, checked, remover, deletes, removed, read>>

----------------------------------------------------------------------------
(* The user deletes the shard: it must be there when it is resolved, and   *)
(* again when it is removed.                                               *)

DeleteResolves ==
    /\ remover = "idle" /\ deletes > 0 /\ file.id # 0
    /\ remover' = "lock" /\ deletes' = deletes - 1
    /\ UNCHANGED <<time, dir, file, files, locks, append, checked, removed, read>>

DeleteRemoves ==
    /\ remover = "lock" /\ Takes("delete", "delete")
    /\ IF file.id # 0 THEN Removes("user", time) ELSE UNCHANGED <<file, removed>>
    /\ remover' = IF file.id # 0 THEN "rmdir" ELSE "unlock"
    /\ UNCHANGED <<time, dir, files, append, checked, deletes, read>>

DeleteEnds ==
    /\ remover \in {"rmdir", "unlock"}
    /\ IF remover = "rmdir" THEN RemoveDirectory ELSE UNCHANGED dir
    /\ Gives("delete") /\ remover' = "idle"
    /\ UNCHANGED <<time, file, files, append, checked, deletes, removed, read>>

----------------------------------------------------------------------------
(* A reference is the offset, the length and the digest that an append     *)
(* returned.                                                               *)

\* Mutant: the digest is not compared.
InRange(a) == append[a].offset < Len(file.bytes)

(* The range must be in the shard, and the digest must be that of what is  *)
(* there.                                                                  *)
Verified(a) == append[a].offset < Len(file.bytes) /\ file.bytes[append[a].offset + 1].id = a

ReadReference(a) ==
    /\ append[a].at = "done" /\ file.id # 0 /\ locks[Key("read")] = "none"
    /\ Verified(a)
    /\ read' = read \cup {<<a, file.bytes[append[a].offset + 1].id>>}
    /\ UNCHANGED <<time, dir, file, files, locks, append, checked, remover, deletes, removed>>

----------------------------------------------------------------------------
ShardNext ==
    \/ TimePasses \/ DeleteResolves \/ DeleteRemoves \/ DeleteEnds
    \/ \E a \in Appends :
        \/ MaybePrune(a) \/ ListExpired(a) \/ PruneFails(a) \/ RemoveExpired(a) \/ PruneEnds(a)
        \/ CreateDirectory(a) \/ OpenShard(a) \/ WriteShard(a) \/ ReadReference(a)

(* What an append reported as written is where its reference says, until   *)
(* the shard is removed as a whole: no append goes to a file that is       *)
(* already gone, and no two are given the same place (append_log_bytes).   *)
WritesLand ==
    \A a \in Appends : append[a].at = "done" =>
        \/ \E r \in removed : r.id = a
        \/ Verified(a)

(* Retention removes nothing that is younger than the cutoff it computed,  *)
(* although others append while it works                                   *)
(* (prune_expired_log_shards_for_profile).                                 *)
YoungIsKept == \A r \in removed : r.by = "retention" => r.at < r.cutoff

(* A reference reads what its append wrote, or nothing                     *)
(* (read_parsed_log_bytes_ref).                                            *)
ReadsAreOwn == \A r \in read : r[1] = r[2]

ShardsAreKept == WritesLand /\ YoungIsKept /\ ReadsAreOwn
============================================================================
