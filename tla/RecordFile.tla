----------------------------- MODULE RecordFile -----------------------------
(***************************************************************************)
(* SaveState and ClearState, system call by system call: state.json and    *)
(* its temporary file as names of inodes, each inode with what a process   *)
(* reads from it and what a power cut would leave in it.                   *)
(*                                                                         *)
(* StateFile takes a save for one atomic step.  This module says why it    *)
(* is one when the savers take turns, and lets them overlap: every saver   *)
(* uses the same temporary name.                                           *)
(*                                                                         *)
(* Simplifications: documents are told apart by phase and target; a        *)
(* leftover temporary file is truncated when it is opened, so a power cut  *)
(* may as well remove it; no rename or unlink fails on its own.            *)
(***************************************************************************)

CONSTANTS Inodes,        \* inodes the state directory may use
          NoInode,       \* a name that is not there
          Procs,         \* processes that save
          TakeTurns      \* do savers wait for one another?  The code does not.

ASSUME InodeAssumption == NoInode \notin Inodes /\ TakeTurns \in BOOLEAN

VARIABLES data,          \* what a process reads from an inode
          kept,          \* what is on the medium of it
          name,          \* the inode state.json names
          keptName,      \* the inode it names on the medium
          tmp,           \* the inode state.json.tmp names
          saver          \* where each process is in SaveState

fileVars == <<data, kept, name, keptName, tmp, saver>>

\* What LoadState makes of a directory entry and the contents behind it.
Absent == [phase |-> "none", target |-> "A"]
ReadBack(i, contents) == IF i = NoInode THEN Absent ELSE contents[i]

File == INSTANCE StateFile WITH
    LazyRename <- TRUE,
    state <- ReadBack(name, data),
    disk  <- ReadBack(keptName, kept)

Docs  == File!Records \ {Absent}
Blank == [phase |-> "blank", target |-> "A"]      \* an empty file
Torn  == [phase |-> "torn", target |-> "A"]       \* two documents in one, or half of one
Contents == Docs \cup {Blank, Torn}

\* json.Unmarshal fails on the rest: every verb but mark-good stops there.
Parses(c) == c \notin {Blank, Torn}

Stages == {"idle", "opened", "written", "synced"}
NotSaving == [at |-> "idle", doc |-> Absent, ino |-> NoInode]

RecordTypeOK ==
    /\ data \in [Inodes -> Contents] /\ kept \in [Inodes -> Contents]
    /\ {name, keptName, tmp} \subseteq Inodes \cup {NoInode}
    /\ saver \in [Procs -> [at : Stages, doc : File!Records, ino : Inodes \cup {NoInode}]]

RecordInit ==
    /\ data = [i \in Inodes |-> Blank] /\ kept = [i \in Inodes |-> Blank]
    /\ name = NoInode /\ keptName = NoInode /\ tmp = NoInode
    /\ saver = [p \in Procs |-> NotSaving]

Saving(p) == saver[p].at # "idle"

\* Inodes that no name and no open file refers to.
Free == Inodes \ ({name, keptName, tmp} \cup {saver[p].ino : p \in Procs})

\* O_CREAT|O_TRUNC: the temporary file that is there is emptied, whoever made it.
SaveOpen(p, doc) ==
    /\ ~Saving(p)
    /\ TakeTurns => \A q \in Procs : ~Saving(q)
    /\ \E i \in IF tmp = NoInode THEN Free ELSE {tmp} :
          /\ tmp' = i
          /\ data' = [data EXCEPT ![i] = Blank]
          /\ kept' = IF tmp = NoInode THEN [kept EXCEPT ![i] = Blank] ELSE kept
          /\ saver' = [saver EXCEPT ![p] = [at |-> "opened", doc |-> doc, ino |-> i]]
    /\ UNCHANGED <<name, keptName>>

\* The write starts at offset 0: over what another saver wrote since the file was
\* opened, a shorter document leaves the other's tail.
SaveWrite(p) ==
    /\ saver[p].at = "opened"
    /\ \E c \in IF data[saver[p].ino] \in {Blank, saver[p].doc} THEN {saver[p].doc}
                ELSE {saver[p].doc, Torn} :
          data' = [data EXCEPT ![saver[p].ino] = c]
    /\ saver' = [saver EXCEPT ![p].at = "written"]
    /\ UNCHANGED <<kept, name, keptName, tmp>>

\* Fault variant: the temporary file is not fsynced.
SaveSyncSkipped(p) ==
    /\ saver[p].at = "written"
    /\ saver' = [saver EXCEPT ![p].at = "synced"]
    /\ UNCHANGED <<data, kept, name, keptName, tmp>>

SaveSync(p) ==
    /\ saver[p].at = "written"
    /\ kept' = [kept EXCEPT ![saver[p].ino] = data[saver[p].ino]]
    /\ saver' = [saver EXCEPT ![p].at = "synced"]
    /\ UNCHANGED <<data, name, keptName, tmp>>

\* Fault variant: the file is renamed and never closed.
SaveRenameOpen(p) ==
    /\ saver[p].at = "synced" /\ tmp # NoInode
    /\ name' = tmp /\ tmp' = NoInode
    /\ UNCHANGED <<data, kept, keptName, saver>>

\* The rename is of the name: it publishes whatever file has it by now.
SaveRename(p) ==
    /\ saver[p].at = "synced" /\ tmp # NoInode
    /\ name' = tmp /\ tmp' = NoInode
    /\ saver' = [saver EXCEPT ![p] = NotSaving]
    /\ UNCHANGED <<data, kept, keptName>>

\* SaveState returns an error (a failing call, or the name is gone), or dies.
SaveStops(p) ==
    /\ Saving(p)
    /\ saver' = [saver EXCEPT ![p] = NotSaving]
    /\ UNCHANGED <<data, kept, name, keptName, tmp>>

Clear ==
    /\ name' = NoInode
    /\ UNCHANGED <<data, kept, keptName, tmp, saver>>

\* The journal makes the directory durable, and not what the files hold.
Writeback ==
    /\ keptName # name
    /\ keptName' = name
    /\ UNCHANGED <<data, kept, name, tmp, saver>>

SyncAll ==
    /\ keptName' = name /\ kept' = data
    /\ UNCHANGED <<data, name, tmp>>

\* A file that was never synced may come back old, new or cut short.
Survivors(i) == IF data[i] = kept[i] THEN {kept[i]} ELSE {kept[i], data[i], Torn}

LoseUnsynced ==
    /\ name' = keptName /\ tmp' = NoInode
    /\ \E c \in IF keptName = NoInode THEN {Blank} ELSE Survivors(keptName) :
          data' = [i \in Inodes |-> IF i = keptName THEN c ELSE Blank]
    /\ kept' = data'
    /\ saver' = [p \in Procs |-> NotSaving]
    /\ UNCHANGED keptName

---------------------------------------------------------------------------
(* The directory on its own, under any saves and clears. *)

RecordNext ==
    \/ \E p \in Procs :
          \/ \E doc \in Docs : SaveOpen(p, doc)
          \/ SaveWrite(p) \/ SaveSync(p) \/ SaveRename(p) \/ SaveStops(p)
    \/ Clear \/ Writeback
    \/ SyncAll /\ UNCHANGED saver
    \/ LoseUnsynced

RecordSpec == RecordInit /\ [][RecordNext]_fileVars

\* "SaveState persists atomically: write tmp, fsync, rename" (engine.go:350): a
\* reader finds no record or a saved one, whole, before a power cut and after it.
RecordAtomic == File!FileSpec
=============================================================================
