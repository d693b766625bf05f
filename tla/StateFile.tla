------------------------------ MODULE StateFile ------------------------------
(***************************************************************************)
(* The pending-update record /data/wendyos-update/state.json.              *)
(*                                                                         *)
(* SaveState writes a temporary file, fsyncs it and renames it over the    *)
(* record; ClearState unlinks the record.  Neither fsyncs the directory,   *)
(* so what a process reads back (`state') and what a power cut leaves      *)
(* behind (`disk') are two things: the rename or the unlink is durable     *)
(* only after the next global sync or writeback.  LazyRename = FALSE is a  *)
(* file system that makes both durable at once.                            *)
(*                                                                         *)
(* A record holds the two fields the verbs decide on: phase and            *)
(* target_slot.  Artifact name, version, digest and creation time are      *)
(* reported and never tested.                                              *)
(***************************************************************************)

CONSTANT LazyRename      \* may a rename or an unlink be lost by a power cut?

ASSUME LazyRenameAssumption == LazyRename \in BOOLEAN

VARIABLES state,         \* what LoadState returns, NoRec when there is no file
          disk           \* what is on the medium

Slots    == {"A", "B"}
Other(s) == IF s = "A" THEN "B" ELSE "A"

Phases  == {"written", "swapped", "failed"}
NoRec   == [phase |-> "none", target |-> "A"]
Records == [phase : Phases, target : Slots] \cup {NoRec}

FileTypeOK == state \in Records /\ disk \in Records
FileInit   == state = NoRec /\ disk = NoRec

\* SaveState up to its rename, which is what makes the record visible.
SaveFile(r) ==
    /\ state' = r
    /\ disk' = IF LazyRename THEN disk ELSE r

\* ClearState: a missing file is not an error.
ClearFile ==
    /\ state' = NoRec
    /\ disk' = IF LazyRename THEN disk ELSE NoRec

KeepFile == UNCHANGED <<state, disk>>

\* syscall.Sync (a connector's env.set ends with it), an orderly shutdown, or
\* the kernel's own writeback.
SyncFile == disk' = state /\ UNCHANGED state

\* A power cut leaves what was durable.
LoseFile == state' = disk /\ UNCHANGED disk

\* The whole promise: a reader finds no record or one that was saved, whole, and a
\* power cut takes him back to what was durable.  RecordFile implements it.
FileNext == (\E r \in Records \ {NoRec} : SaveFile(r)) \/ ClearFile \/ SyncFile \/ LoseFile

FileSpec == FileInit /\ [][FileNext]_<<state, disk>>
=============================================================================
