---------------------------- MODULE ExportFiles ----------------------------
(***************************************************************************)
(* Exports that come in pairs or triples: an artifact, its checksum and,   *)
(* for a session bundle, its signature.  They are written under temporary  *)
(* names and installed one after the other; every call of the file system  *)
(* may fail, and the process may stop between any two of them.             *)
(***************************************************************************)
EXTENDS Integers, FiniteSets

CONSTANTS ExportKinds,   \* subset of {"text", "replace", "archive", "bundle"}
          MaxExportFaults

VARIABLES
    export,      \* the kind of export, and where it is
    file,        \* what every name stands for: "none", or whose content it is
    before,      \* the same when the export began
    failures     \* calls that have failed

exportVars == <<export, file, before, failures>>

\* "text" is write_atomic_export_with_checksum, "replace" the same with
\* overwrite; "archive" is finalize_archive_with_checksum and "bundle"
\* finalize_signed_bundle_archive.
Text == export.kind \in {"text", "replace"}

Public == {"artifact", "checksum", "signature"}
Temporary == {"temp", "checksumTemp", "signatureTemp"}
Backups == {"backup", "checksumBackup"}
Names == Public \cup Temporary \cup Backups

TempOf(name) == CASE name = "artifact" -> "temp"
                  [] name = "checksum" -> "checksumTemp"
                  [] name = "signature" -> "signatureTemp"
BackupOf(name) == IF name = "artifact" THEN "backup" ELSE "checksumBackup"

\* The names of text exports may be the user's and stand for something already;
\* those of archives and bundles end in a fresh UUID.
ExportInit ==
    /\ \E kind \in ExportKinds, here \in SUBSET {"artifact", "checksum"} :
         /\ kind \in {"archive", "bundle"} => here = {}
         /\ export = [kind |-> kind, at |-> "validate"]
         /\ file = [n \in Names |-> IF n \in here THEN "old" ELSE "none"]
    /\ before = file
    /\ failures = 0

Exists(name) == file[name] # "none"

At(place) == export.at = place
ToPlace(place) == export' = [export EXCEPT !.at = place]

Fine == UNCHANGED failures

\* The export fails, because of `fault` errors.  What it has made so far is
\* removed and the backups are moved back (restore_export_backups); the errors
\* of that are ignored, and a backup that cannot be moved stays where it is.
Undo(fault, given, made) ==
    \E kept \in SUBSET {n \in made : given[n] # "none"},
       stuck \in SUBSET {n \in {"artifact", "checksum"} : given[BackupOf(n)] # "none"} :
        /\ failures' = failures + fault + Cardinality(kept) + Cardinality(stuck)
        /\ failures' <= MaxExportFaults
        /\ file' = [n \in Names |->
             CASE n \in {"artifact", "checksum"} /\ given[BackupOf(n)] # "none" /\ n \notin stuck
                    -> given[BackupOf(n)]
               [] n \in Backups -> IF \E p \in stuck : n = BackupOf(p) THEN given[n] ELSE "none"
               [] OTHER -> IF n \in made \ kept THEN "none" ELSE given[n]]
        /\ ToPlace("failed")

-----------------------------------------------------------------------------
(* The text exports' targets are looked at first: a checksum that stands    *)
(* alone is never replaced.                                                 *)

ValidateText ==
    /\ At("validate") /\ Text
    /\ LET overwrite == export.kind = "replace"
           taken == \/ Exists("artifact") /\ ~overwrite
                    \/ Exists("checksum") /\ ~(overwrite /\ Exists("artifact"))
       IN ToPlace(IF taken THEN "failed" ELSE "write")
    /\ UNCHANGED <<file, before, failures>>

\* What goes into an archive is looked up and measured; nothing is made yet.
GatherShards ==
    /\ At("validate") /\ export.kind = "archive"
    /\ \E place \in {"write", "failed"} : ToPlace(place)
    /\ UNCHANGED <<file, before, failures>>

\* The bundle's entries, its attachments and the key that signs it.
GatherBundle ==
    /\ At("validate") /\ export.kind = "bundle"
    /\ \E place \in {"write", "failed"} : ToPlace(place)
    /\ UNCHANGED <<file, before, failures>>

\* The artifact is written and synced under its temporary name.  A partial file
\* is removed.
WriteTemp(next) ==
    /\ LET written == [file EXCEPT !["temp"] = "new"]
       IN \/ Fine /\ file' = written /\ ToPlace(next)
          \/ Undo(1, written, {"temp"})
    /\ UNCHANGED before

WriteText == At("write") /\ Text /\ WriteTemp("sum")
WriteShards == At("write") /\ export.kind = "archive" /\ WriteTemp("look")
WriteBundle == At("write") /\ export.kind = "bundle" /\ WriteTemp("look")

\* Archives and bundles: nothing may stand in the way.
LookAround(ours, next) ==
    /\ IF \E n \in ours : Exists(n) THEN Undo(0, file, {"temp"})
       ELSE ToPlace(next) /\ UNCHANGED <<file, failures>>
    /\ UNCHANGED before

LookAroundArchive ==
    /\ At("look") /\ export.kind = "archive"
    /\ LookAround({"artifact", "checksum", "checksumTemp"}, "artifact")

LookAroundBundle ==
    /\ At("look") /\ export.kind = "bundle"
    /\ LookAround(Public \cup {"checksumTemp", "signatureTemp"}, "sum")

\* The places of an export in their order.
AfterSum == CASE export.kind = "text" -> "artifact"
              [] export.kind = "replace" -> "backup"
              [] export.kind = "archive" -> "checksum"
              [] export.kind = "bundle" -> "sign"

\* A bundle that fails removes all of its names.
MadeBy(names) == IF export.kind = "bundle" THEN Public \cup Temporary ELSE names

\* The checksum is written under its temporary name.  An archive is installed by
\* then, and is taken back when it cannot be read or its checksum not written.
WriteChecksum ==
    /\ At("sum")
    /\ LET written == [file EXCEPT !["checksumTemp"] = "new"]
       IN \/ Fine /\ file' = written /\ ToPlace(AfterSum)
          \/ \E given \in {file, written} :
               Undo(1, given, MadeBy(IF Text THEN {"temp", "checksumTemp"}
                                     ELSE {"artifact", "checksumTemp"}))
    /\ UNCHANGED before

WriteSignature ==
    /\ At("sign")
    /\ LET written == [file EXCEPT !["signatureTemp"] = "new"]
       IN \/ Fine /\ file' = written /\ ToPlace("artifact")
          \/ Undo(1, written, MadeBy({}))
    /\ UNCHANGED before

-----------------------------------------------------------------------------
(* An overwriting export moves what stands there aside.                     *)

BackUp(name, next) ==
    /\ \/ /\ Fine
          /\ file' = IF Exists(name)
                     THEN [file EXCEPT ![BackupOf(name)] = file[name], ![name] = "none"]
                     ELSE file
          /\ ToPlace(next)
       \/ Exists(name) /\ Undo(1, file, {"temp", "checksumTemp"})
    /\ UNCHANGED before

BackUpArtifact == At("backup") /\ BackUp("artifact", "backupChecksum")
BackUpChecksum == At("backupChecksum") /\ BackUp("checksum", "artifact")

-----------------------------------------------------------------------------
(* The names are installed.                                                 *)

\* Mutant: a checksum that cannot be installed leaves the artifact behind.
MadeUntilForgets(name) == {TempOf(name), "checksumTemp"}

\* What a failed installation removes: an artifact without its checksum is taken
\* back.
MadeUntil(name) ==
    IF name = "artifact" THEN (IF Text THEN {"temp", "checksumTemp"} ELSE {"temp"})
    ELSE {"checksumTemp", "artifact"}

\* Without overwrite it is a hard link, which an existing name refuses, and the
\* removal of the temporary name, without which the link is taken back; with
\* overwrite it is a rename.
Install(name, next) ==
    /\ \/ /\ Fine
          /\ export.kind = "replace" \/ ~Exists(name)
          /\ file' = [file EXCEPT ![name] = file[TempOf(name)], ![TempOf(name)] = "none"]
          /\ ToPlace(next)
       \/ /\ Exists(name) /\ export.kind # "replace"
          /\ Undo(0, file, MadeBy(MadeUntil(name)))
       \/ Undo(1, file, MadeBy(MadeUntil(name)))
    /\ UNCHANGED before

InstallArtifact ==
    At("artifact") /\ Install("artifact", IF export.kind = "archive" THEN "sum" ELSE "checksum")

InstallChecksum ==
    At("checksum") /\ Install("checksum", CASE export.kind = "replace" -> "drop"
                                            [] export.kind = "bundle" -> "signature"
                                            [] OTHER -> "ok")

InstallSignature == At("signature") /\ Install("signature", "ok")

DropBackups ==
    /\ At("drop")
    /\ \E kept \in SUBSET {n \in Backups : Exists(n)} :
         /\ failures' = failures + Cardinality(kept) /\ failures' <= MaxExportFaults
         /\ file' = [n \in Names |-> IF n \in Backups \ kept THEN "none" ELSE file[n]]
    /\ ToPlace("ok")
    /\ UNCHANGED before

\* Somebody else takes a name that the user chose.
SomebodyWrites ==
    /\ Text /\ ~At("ok") /\ ~At("failed")
    /\ \E n \in {"artifact", "checksum"} :
         /\ ~Exists(n) /\ "foreign" \notin {file[p] : p \in Public}
         /\ file' = [file EXCEPT ![n] = "foreign"]
    /\ UNCHANGED <<export, before, failures>>

-----------------------------------------------------------------------------
ExportNext ==
    \/ ValidateText \/ GatherShards \/ GatherBundle
    \/ WriteText \/ WriteShards \/ WriteBundle \/ LookAroundArchive \/ LookAroundBundle
    \/ WriteChecksum \/ WriteSignature
    \/ BackUpArtifact \/ BackUpChecksum
    \/ InstallArtifact \/ InstallChecksum \/ InstallSignature \/ DropBackups
    \/ SomebodyWrites

ExportSpec == ExportInit /\ [][ExportNext]_exportVars

-----------------------------------------------------------------------------
(* Properties.                                                              *)

Trouble == failures + Cardinality({n \in Public : file[n] = "foreign"})

Parts == IF export.kind = "bundle" THEN Public ELSE {"artifact", "checksum"}

\* Wherever an export stops, what stood there before stands there still or lies
\* under its backup's name, unless the new files stand there all together.  An
\* export that reports success has installed all of them, one that fails has
\* left none of them and, if that was the only thing that went wrong, everything
\* as it was but for what somebody else has put there.
ExportsInStep ==
    /\ \A n \in {"artifact", "checksum"} :
         before[n] = "old" =>
            \/ "old" \in {file[n], file[BackupOf(n)]}
            \/ \A p \in Parts : file[p] = "new"
    /\ export.at = "ok" => \A p \in Parts : file[p] = "new" /\ file[TempOf(p)] = "none"
    /\ export.at = "failed" /\ Trouble <= 1 =>
         \A n \in Names : file[n] \in {before[n], "foreign"}
=============================================================================
