---------------------------- MODULE DeliveryProofs ----------------------------
(***************************************************************************)
(* For any boards, artifacts, images and sizes.  Whoever saves when: no    *)
(* board's slot is touched by an artifact that it would refuse, the        *)
(* history tells what was committed, what an unsigned artifact in the      *)
(* format carries is written raw, and an install that nothing can be       *)
(* blamed for does not fail.  When savers take turns: every variable has   *)
(* its type, and the slot of the next boot is always whole.                *)
(***************************************************************************)
EXTENDS Delivery, DeliveryPartsProofs, FiniteSetTheorems

\* The cells of a slot, as a function of the ones there are.
Cellular(slots) == slots = [s \in SlotNames |-> [i \in 1..Cells |-> slots[s][i]]]

Shape ==
    /\ Cellular(cache) /\ Cellular(medium)
    /\ {home, running} \subseteq SlotNames /\ armed \in BOOLEAN /\ installs \in Nat

\* Nothing of a safe slot is only in the cache, and it holds a system.
Synced(s) == cache[s] = medium[s]
New(s)    == Synced(s) /\ Holds(medium[s], art.manifest.sha)
Safe(s)   == Synced(s) /\ (medium[s] = OldSlot \/ Holds(medium[s], art.manifest.sha))
AllSafe   == \A s \in SlotNames : Safe(s)

NoNames == name = NoInode /\ keptName = NoInode

\* Before the first install the board is as it was made.
Untouched ==
    /\ pc = "idle" /\ ~armed /\ NoNames
    /\ \A s \in SlotNames : cache[s] = OldSlot /\ medium[s] = OldSlot
Unpublished ==
    /\ art = NoArtifact => installs = 0
    /\ installs = 0 => Untouched

\* The home slot and the running one are never written; a trial is of a new slot;
\* no record, durable or not, leads to a slot that is not safe.
Boots ==
    /\ Safe(home) /\ Safe(running)
    /\ armed => New(Other(home))
    /\ ~NoNames => AllSafe

\* How far install is with the spare slot.
Before == {"open", "gates", "pre", "payload", "write", "sync", "verify"}
Progress ==
    /\ pc \in Before => running = home /\ ~armed /\ name = NoInode
    /\ pc \in {"sync", "verify"} => keptName = NoInode /\ Holds(cache[Target], Image(art))
    /\ pc = "verify" => Synced(Target)
    /\ pc = "activate" => running = home /\ New(Target)
    /\ pc \in SavePcs => AllSafe
    /\ pc = "save_written" => running = home /\ New(Target)
    /\ pc = "save_failed" => name # NoInode

DeliveryInv == RecordInv /\ Shape /\ Unpublished /\ Boots /\ Progress

SlotsInv == Shape /\ Unpublished /\ Boots /\ Progress

NextRecord == RecordInv' /\ Maps

---------------------------------------------------------------------------
(* The record. *)

LEMMA Readable ==
  ASSUME RecordInv
  PROVE  /\ Record.phase # "none" => name # NoInode
         /\ Record = Absent => name = NoInode
         /\ Record.target \in SlotNames
         /\ name # NoInode => Record \in Docs
<1>1. name # NoInode => Record \in Docs
  BY DEF RecordInv, Published, Record, ReadBack
<1>2. name = NoInode => Record = Absent
  BY DEF Record, ReadBack
<1>3. Absent \notin Docs /\ \A d \in Docs : d.target \in SlotNames
  BY DEF Docs, Absent, SlotNames, File!Records, File!NoRec, File!Slots
<1> QED  BY <1>1, <1>2, <1>3 DEF Absent, SlotNames

\* Everyone who saves may be stopped at once: killed, or the board goes down.
LEMMA ResetKeeps ==
  ASSUME RecordInv, UNCHANGED <<data, kept, name, keptName, tmp>>,
         saver' = [p \in Procs |-> NotSaving]
  PROVE  NextRecord
  BY DEF RecordInv, RecordTypeOK, Published, Private, Saving, NotSaving, Stages, Absent,
         File!Records, File!NoRec, NextRecord, Maps, ReadBack

LEMMA DownKeeps ==
  ASSUME RecordInv, SyncAll, saver' = [p \in Procs |-> NotSaving]
  PROVE  NextRecord
<1>1. RecordInv'
  BY DEF RecordInv, RecordTypeOK, Published, Private, Saving, NotSaving, Stages, Absent,
         File!Records, File!NoRec, SyncAll
<1>2. File!SyncFile
  BY DEF SyncAll, File!SyncFile, ReadBack
<1> QED  BY <1>1, <1>2 DEF NextRecord, Maps, File!FileNext

LEMMA SameKeeps ==
  ASSUME RecordInv, UNCHANGED fileVars
  PROVE  NextRecord
  BY DEF RecordInv, RecordTypeOK, Published, Private, Saving, NextRecord, Maps, ReadBack, fileVars

\* What SaveState is asked to save is a record.
LEMMA SavesDoc ==
  ASSUME RecordInv, Progress, running \in SlotNames, pc \in SavePcs
  PROVE  SavedDoc \in Docs
<1>1. \A ph \in {"written", "swapped", "failed"}, s \in SlotNames : [phase |-> ph, target |-> s] \in Docs
  BY DEF Docs, Absent, SlotNames, File!Records, File!NoRec, File!Phases, File!Slots
<1>2. Target \in SlotNames
  BY DEF Target, Other, SlotNames
<1>3. CASE pc = "save_failed"
  <2>1. Record \in [phase : File!Phases, target : File!Slots]
    BY <1>3, Readable DEF Progress, Docs, Absent, File!Records, File!NoRec
  <2>2. [Record EXCEPT !.phase = "failed"] = [phase |-> "failed", target |-> Record.target]
    BY <2>1
  <2> QED  BY <1>1, <1>3, <2>2, Readable DEF SavedDoc
<1> QED  BY <1>1, <1>2, <1>3 DEF SavePcs, SavedDoc

LEMMA RecordKeeps ==
  ASSUME TakeTurns, DeliveryInv, [Next]_vars
  PROVE  NextRecord
<1> USE DEF DeliveryInv
<1>1. ASSUME NEW p \in Procs, SaveState(p)
      PROVE  NextRecord
  <2>1. SavedDoc \in Docs
    BY <1>1, SavesDoc DEF SaveState, Shape
  <2>2. SaveOpen(p, SavedDoc) \/ SaveWrite(p) \/ SaveSync(p) \/ SaveRename(p) \/ SaveStops(p)
    BY <1>1 DEF SaveState
  <2> QED  BY <2>1, <2>2, OpenKeeps, WriteKeeps, SyncKeeps, RenameKeeps, StopsKeeps DEF NextRecord
<1>2. CASE ClearState
  BY <1>2, NamesKeep DEF ClearState, NextRecord
<1>3. CASE Kill
  BY <1>3, ResetKeeps DEF Kill
<1>4. CASE JournalCommits
  BY <1>4, NamesKeep DEF JournalCommits, NextRecord
<1>5. CASE Reboot
  BY <1>5, DownKeeps DEF Reboot
<1>6. CASE PowerCut
  BY <1>6, LoseKeeps DEF PowerCut, NextRecord
<1>7. CASE UNCHANGED fileVars
  BY <1>7, SameKeeps
<1> QED
  <2>1. CASE (\E f \in Images : HostStep(OpenImage(f))) \/ HostStep(ReadImage)
    BY <1>7, <2>1 DEF HostStep
  <2>2. CASE Publish \/ Sign \/ DropLink
    BY <1>7, <2>2 DEF Publish, Sign, DropLink
  <2>3. CASE InstallStart \/ InstallOpen \/ InstallGates \/ InstallPreHooks \/ InstallPayload
             \/ InstallWrite \/ InstallSync \/ InstallVerify
    BY <1>7, <2>3 DEF InstallStart, InstallOpen, InstallGates, InstallPreHooks, InstallPayload,
                      InstallWrite, InstallSync, InstallVerify, Looks
  <2>4. CASE InstallActivate \/ InstallPostHooks \/ Unwind \/ Commit \/ Abandon \/ RecordInstalled
    BY <1>7, <2>4 DEF InstallActivate, InstallPostHooks, Unwind, Commit, Abandon, RecordInstalled, Looks
  <2>5. CASE UNCHANGED vars
    BY <1>7, <2>5 DEF vars
  <2> QED  BY <1>1, <1>2, <1>3, <1>4, <1>5, <1>6, <1>7, <2>1, <2>2, <2>3, <2>4, <2>5 DEF Next

---------------------------------------------------------------------------
(* The slots. *)

Busy == Before \cup SavePcs \cup {"activate"}

\* What the invariant reads apart from pc and the record's inodes.
slotsView == <<cache, medium, art, home, running, armed, name, keptName, installs>>

LEMMA Elsewhere ==
  ASSUME pc' \notin Busy
  PROVE  Progress'
  BY DEF Busy, Before, SavePcs, Progress

LEMMA ViewKeeps ==
  ASSUME SlotsInv, UNCHANGED slotsView
  PROVE  /\ Shape' /\ Boots'
         /\ pc # "idle" \/ pc' = "idle" => Unpublished'
         /\ AllSafe => AllSafe'
<1> USE DEF slotsView, SlotsInv, Synced, New, Safe, AllSafe, NoNames
<1>1. Shape'
  BY DEF Shape, Cellular
<1>2. Boots'
  BY DEF Boots
<1>3. pc # "idle" \/ pc' = "idle" => Unpublished'
  BY DEF Unpublished, Untouched
<1> QED  BY <1>1, <1>2, <1>3

\* install's looks at the artifact, the board and the digests, and its hooks.
LEMMA LooksKeep ==
  ASSUME SlotsInv,
         InstallOpen \/ InstallGates \/ InstallPreHooks \/ InstallPayload \/ InstallVerify
            \/ InstallPostHooks
  PROVE  SlotsInv'
<1>1. UNCHANGED slotsView /\ UNCHANGED got /\ pc # "idle"
  BY DEF InstallOpen, InstallGates, InstallPreHooks, InstallPayload, InstallVerify, InstallPostHooks,
         Looks, KeepInstall, fileVars, boardVars, writerVars, slotsView
<1>2. Progress'
  <2>1. CASE InstallOpen \/ InstallGates \/ InstallPreHooks \/ InstallPayload
    BY <1>1, <2>1 DEF SlotsInv, Progress, Before, SavePcs, slotsView, InstallOpen, InstallGates,
                      InstallPreHooks, InstallPayload, RunHooks, Goto, Refuse, Fail
  <2>2. CASE InstallVerify
    <3>1. pc = "verify" /\ running = home /\ Synced(Target) /\ Holds(cache[Target], Image(art))
      BY <2>2 DEF InstallVerify, SlotsInv, Progress, Before
    <3>2. CASE pc' = "save_written"
      <4>1. New(Target)
        BY <2>2, <3>1, <3>2 DEF InstallVerify, VerifyPayloadDigests, Refuse, Goto, New, Synced
      <4>2. AllSafe
        BY <3>1, <4>1 DEF SlotsInv, Boots, AllSafe, New, Safe, SlotNames, Target, Other, Shape
      <4> QED  BY <1>1, <3>1, <3>2, <4>1, <4>2
                  DEF Progress, Before, SavePcs, AllSafe, Safe, New, Synced, Target, slotsView
    <3>3. CASE pc' = "rejected"
      BY <3>3, Elsewhere DEF Busy, Before, SavePcs
    <3> QED  BY <2>2, <3>2, <3>3 DEF InstallVerify, Refuse, Goto
  <2>3. CASE InstallPostHooks
    BY <2>3, Elsewhere DEF InstallPostHooks, RunHooks, Goto, Busy, Before, SavePcs
  <2> QED  BY <2>1, <2>2, <2>3
<1> QED  BY <1>1, <1>2, ViewKeeps DEF SlotsInv

\* Nobody installs over a record or a trial.
LEMMA StartKeeps ==
  ASSUME DeliveryInv, InstallStart
  PROVE  SlotsInv'
<1> USE DEF DeliveryInv
<1>1. running = home /\ ~armed /\ name = NoInode /\ art # NoArtifact
  BY Readable DEF InstallStart
<1>2. UNCHANGED <<cache, medium, art, home, running, armed, name, keptName>>
  BY DEF InstallStart, NoTransfer, fileVars, boardVars
<1>3. installs' = installs + 1 /\ installs \in Nat
  BY DEF InstallStart, Shape
<1>4. Shape' /\ Boots' /\ Unpublished'
  BY <1>1, <1>2, <1>3
     DEF Shape, Cellular, Boots, Unpublished, AllSafe, Safe, New, Synced, NoNames
<1>5. Progress'
  BY <1>1, <1>2 DEF InstallStart, Goto, Progress, Before, SavePcs
<1> QED  BY <1>4, <1>5 DEF SlotsInv

\* Only the spare slot is written, while no record is there, and after the journal
\* has forgotten earlier ones.
LEMMA WritesSpareOnly ==
  ASSUME DeliveryInv, InstallWrite
  PROVE  SlotsInv'
<1> USE DEF DeliveryInv
<1>1. /\ pc = "write" /\ running = home /\ ~armed /\ NoNames
      /\ home \in SlotNames /\ Target \in SlotNames /\ Target # home
  BY DEF InstallWrite, JournalSettled, NoNames, Progress, Before, Shape, Target, Other, SlotNames
<1>2. UNCHANGED <<medium, art, home, running, armed, name, keptName, installs>>
  BY DEF InstallWrite, ReadBlock, Flush, writerVars, fileVars, boardVars, KeepInstall
<1>3. PICK image, n : cache' = cache \/ cache' = [cache EXCEPT ![Target] = Overwritten(@, image, n)]
  BY DEF InstallWrite, ReadBlock, Flush, writerVars
<1>4. Cellular(cache') /\ \A s \in SlotNames \ {Target} : cache'[s] = cache[s]
  <2> DEFINE t == Target
  <2>1. Cellular(cache) /\ t \in SlotNames
    BY <1>1 DEF Shape
  <2>2. cache' = cache \/ cache' = [cache EXCEPT ![t] = Overwritten(@, image, n)]
    BY <1>3
  <2> HIDE DEF t
  <2>3. cache = [s \in SlotNames |-> [i \in 1..Cells |-> cache[s][i]]]
    BY <2>1 DEF Cellular
  <2>4. CASE cache' = cache
    BY <2>1, <2>4
  <2>5. CASE cache' = [cache EXCEPT ![t] = Overwritten(@, image, n)]
    <3>1. \A s \in SlotNames : cache'[s] = IF s = t THEN Overwritten(cache[t], image, n) ELSE cache[s]
      BY <2>3, <2>5
    <3>2. \A s \in SlotNames : cache'[s] = [i \in 1..Cells |-> cache'[s][i]]
      BY <2>3, <3>1 DEF Overwritten
    <3>3. cache' = [s \in SlotNames |-> cache'[s]]
      BY <2>3, <2>5
    <3>4. \A s \in SlotNames \ {t} : cache'[s] = cache[s]
      BY <3>1
    <3> QED  BY <3>2, <3>3, <3>4 DEF Cellular, t
  <2> QED  BY <2>2, <2>4, <2>5 DEF t
<1>5. Shape'
  BY <1>2, <1>4 DEF Shape, Cellular
<1>6. Boots'
  BY <1>1, <1>2, <1>4 DEF Boots, Safe, Synced, NoNames
<1>7. pc' \in {"write", "sync", "failed"} /\ installs # 0
  BY <1>1 DEF InstallWrite, Goto, Fail, Unpublished, Untouched
<1>8. Unpublished'
  BY <1>2, <1>7 DEF Unpublished
<1>9. Progress'
  <2>1. CASE pc' = "sync"
    <3>1. Flush(Target, art)
      BY <1>1, <2>1 DEF InstallWrite, Fail, Goto
    <3>2. Holds(cache'[Target], Image(art)) /\ UNCHANGED got
      BY <1>1, <3>1 DEF Flush, Holds, Overwritten, Shape, Cellular
    <3> QED  BY <1>1, <1>2, <2>1, <3>2 DEF Progress, Before, SavePcs, NoNames, Target, Image
  <2>2. CASE pc' = "write"
    BY <1>1, <1>2, <2>2 DEF Progress, Before, SavePcs, NoNames
  <2>3. CASE pc' = "failed"
    BY <2>3, Elsewhere DEF Busy, Before, SavePcs
  <2> QED  BY <1>7, <2>1, <2>2, <2>3
<1> QED  BY <1>5, <1>6, <1>8, <1>9 DEF SlotsInv

LEMMA SyncsSpareOnly ==
  ASSUME DeliveryInv, InstallSync
  PROVE  SlotsInv'
<1> USE DEF DeliveryInv
<1>1. /\ pc = "sync" /\ running = home /\ ~armed /\ NoNames
      /\ home \in SlotNames /\ Target \in SlotNames /\ Target # home
      /\ Holds(cache[Target], Image(art))
  BY DEF InstallSync, NoNames, Progress, Before, Shape, Target, Other, SlotNames
<1>2. UNCHANGED <<got, cache, art, home, running, armed, name, keptName, installs>>
  BY DEF InstallSync, Sync, writerVars, fileVars, boardVars, KeepInstall
<1>3. medium' = medium \/ (medium' = [medium EXCEPT ![Target] = cache[Target]])
  BY DEF InstallSync, Sync, writerVars
<1>4. Cellular(medium') /\ \A s \in SlotNames \ {Target} : medium'[s] = medium[s]
  BY <1>1, <1>3 DEF Shape, Cellular
<1>5. Shape' /\ Boots'
  BY <1>1, <1>2, <1>4 DEF Shape, Cellular, Boots, Safe, Synced, NoNames
<1>6. Unpublished'
  BY <1>1, <1>2 DEF Unpublished, Untouched
<1>7. Progress'
  <2>1. CASE Sync(Target) /\ Goto("verify")
    <3>1. cache'[Target] = medium'[Target]
      BY <1>1, <1>2, <2>1 DEF Sync, Shape, Cellular
    <3> QED  BY <1>1, <1>2, <2>1, <3>1
                DEF Goto, Progress, Before, SavePcs, NoNames, Target, Image, Synced
  <2>2. CASE Fail
    BY <2>2, Elsewhere DEF Fail, Goto, Busy, Before, SavePcs
  <2> QED  BY <2>1, <2>2 DEF InstallSync
<1> QED  BY <1>5, <1>6, <1>7 DEF SlotsInv

\* Whatever record is published, both slots are safe by then.
LEMMA SaveKeepsSlots ==
  ASSUME DeliveryInv, NEW p \in Procs, SaveState(p)
  PROVE  SlotsInv'
<1> USE DEF DeliveryInv
<1>1. pc \in SavePcs /\ AllSafe /\ installs # 0
  BY DEF SaveState, Progress, Unpublished, Untouched, SavePcs
<1>2. UNCHANGED <<cache, medium, got, art, home, running, armed, installs, keptName>>
  BY DEF SaveState, SaveOpen, SaveWrite, SaveSync, SaveRename, SaveStops, writerVars, boardVars, KeepInstall
<1>3. AllSafe' /\ Shape' /\ Boots' /\ Unpublished'
  BY <1>1, <1>2 DEF AllSafe, Safe, New, Synced, Shape, Cellular, Boots, Unpublished
<1>4. Progress'
  <2>1. CASE pc' = pc
    <3>1. name' = name \/ (name' = tmp /\ tmp # NoInode)
      BY DEF SaveState, SaveOpen, SaveWrite, SaveSync, SaveRename, SaveStops
    <3> QED  BY <1>1, <1>2, <1>3, <2>1, <3>1 DEF Progress, SavePcs, Before, New, Synced, Target
  <2>2. CASE pc = "save_written" /\ pc' = "activate"
    BY <1>2, <2>2 DEF Progress, SavePcs, Before, New, Synced, Target
  <2>3. CASE pc' \in {"post", "idle", "failed"}
    BY <2>3, Elsewhere DEF Busy, Before, SavePcs
  <2> QED  BY <1>1, <2>1, <2>2, <2>3 DEF SaveState, SavePcs, AfterSave, Goto, Fail
<1> QED  BY <1>3, <1>4 DEF SlotsInv

\* Where the hooks after the swap lead.
LEMMA PostHooksPcs ==
  ASSUME InstallPostHooks
  PROVE  pc = "post" /\ pc' \in {"post", "done", "unwind"}
BY DEF InstallPostHooks, RunHooks, Goto

LEMMA ActivateKeeps ==
  ASSUME DeliveryInv, InstallActivate \/ Unwind
  PROVE  SlotsInv'
<1> USE DEF DeliveryInv
<1>1. UNCHANGED <<cache, medium, art, home, running, name, keptName, installs>>
  BY DEF InstallActivate, Unwind, writerVars, fileVars, KeepInstall
<1>2. installs # 0 /\ armed' \in BOOLEAN
  BY DEF InstallActivate, Unwind, Unpublished, Untouched, Shape
<1>3. Shape' /\ Unpublished' /\ (AllSafe => AllSafe')
  BY <1>1, <1>2 DEF Shape, Cellular, Unpublished, AllSafe, Safe, Synced
<1>4. CASE InstallActivate
  <2>1. pc = "activate" /\ pc' \in {"save_swapped", "failed"}
    BY <1>4 DEF InstallActivate, Goto, Fail
  <2>2. running = home /\ New(Target) /\ Safe(home)
    BY <2>1 DEF Progress, Boots
  <2>3. AllSafe
    BY <2>2 DEF AllSafe, New, Safe, SlotNames, Target, Other, Shape
  <2>4. Boots'
    BY <1>1, <1>3, <2>2, <2>3 DEF Boots, Safe, New, Synced, Target, AllSafe, Shape
  <2>5. Progress'
    BY <1>3, <2>1, <2>3 DEF Progress, Before, SavePcs
  <2> QED  BY <1>3, <2>4, <2>5 DEF SlotsInv
<1>5. CASE Unwind
  <2>1. ~armed' /\ pc' = "u_clear"
    BY <1>5 DEF Unwind, Goto
  <2>2. Boots'
    BY <1>1, <1>3, <2>1 DEF Boots, Safe, New, Synced, NoNames
  <2>3. Progress'
    BY <2>1, Elsewhere DEF Busy, Before, SavePcs
  <2> QED  BY <1>3, <2>2, <2>3 DEF SlotsInv
<1> QED  BY <1>4, <1>5

\* A record is there: whichever slot becomes the home slot is safe.
LEMMA EndsKeep ==
  ASSUME DeliveryInv, Commit \/ Abandon
  PROVE  SlotsInv'
<1> USE DEF DeliveryInv
<1>1. name # NoInode /\ Record.target \in SlotNames
  BY Readable DEF Commit, Abandon, Finds
<1>2. AllSafe /\ installs # 0
  BY <1>1 DEF Boots, Unpublished, Untouched, NoNames
<1>3. UNCHANGED <<cache, medium, art, running, name, keptName, installs>>
  BY DEF Commit, Abandon, NoTransfer, fileVars, KeepInstall
<1>4. home' \in SlotNames /\ armed' \in BOOLEAN /\ (armed' => armed /\ home' = home)
  BY <1>1 DEF Commit, Abandon, Shape, Other, SlotNames
<1>5. Shape' /\ Unpublished' /\ AllSafe'
  BY <1>2, <1>3, <1>4 DEF Shape, Cellular, Unpublished, AllSafe, Safe, Synced
<1>6. Boots'
  BY <1>3, <1>4, <1>5 DEF Boots, AllSafe, New, Safe, Synced, Shape
<1>7. Progress'
  <2>1. CASE pc' = "save_failed"
    BY <1>1, <1>3, <1>5, <2>1 DEF Progress, Before, SavePcs
  <2>2. CASE pc' \in {"c_clear", "r_clear"}
    BY <2>2, Elsewhere DEF Busy, Before, SavePcs
  <2> QED  BY <2>1, <2>2 DEF Commit, Abandon, Goto
<1> QED  BY <1>5, <1>6, <1>7 DEF SlotsInv

LEMMA ClearKeepsSlots ==
  ASSUME DeliveryInv, ClearState \/ RecordInstalled
  PROVE  SlotsInv'
<1> USE DEF DeliveryInv
<1>1. UNCHANGED <<cache, medium, art, home, running, armed, keptName, installs>> /\ name' \in {name, NoInode}
  BY DEF ClearState, Clear, RecordInstalled, writerVars, boardVars, fileVars, KeepInstall
<1>2. installs # 0 /\ pc' \in {"failed", "c_append", "idle"}
  BY DEF ClearState, RecordInstalled, ClearPcs, AfterClear, Goto, Unpublished, Untouched
<1>3. Shape' /\ Boots' /\ Unpublished'
  BY <1>1, <1>2 DEF Shape, Cellular, Boots, Unpublished, AllSafe, Safe, New, Synced, NoNames
<1>4. Progress'
  BY <1>2, Elsewhere DEF Busy, Before, SavePcs
<1> QED  BY <1>3, <1>4 DEF SlotsInv

---------------------------------------------------------------------------
(* The environment and the build host. *)

LEMMA DropKeeps ==
  ASSUME DeliveryInv, DropLink
  PROVE  SlotsInv'
<1> USE DEF DeliveryInv
<1>1. UNCHANGED slotsView /\ UNCHANGED <<pc, got>> /\ pc # "idle"
  BY DEF DropLink, LinkFails, fileVars, boardVars, KeepInstall, slotsView
<1>2. Progress'
  BY <1>1 DEF slotsView, Progress, AllSafe, Safe, New, Synced, Target, Image
<1> QED  BY <1>1, <1>2, ViewKeeps DEF SlotsInv

LEMMA KillKeeps ==
  ASSUME DeliveryInv, Kill
  PROVE  SlotsInv'
<1> USE DEF DeliveryInv
<1>1. UNCHANGED slotsView /\ pc' = "idle"
  BY DEF Kill, Goto, boardVars, slotsView
<1> QED  BY <1>1, ViewKeeps, Elsewhere DEF SlotsInv, Busy, Before, SavePcs

LEMMA JournalKeeps ==
  ASSUME DeliveryInv, JournalCommits
  PROVE  SlotsInv'
<1> USE DEF DeliveryInv
<1>1. UNCHANGED <<cache, medium, got, art, pc, home, running, armed, name, installs>> /\ keptName' = name
  BY DEF JournalCommits, Writeback, writerVars, boardVars, installVars
<1>2. Shape' /\ Boots' /\ Unpublished'
  BY <1>1 DEF Shape, Cellular, Boots, Unpublished, Untouched, AllSafe, Safe, New, Synced, NoNames
<1>3. Progress'
  BY <1>1 DEF Progress, Before, AllSafe, Safe, New, Synced, Target, Image
<1> QED  BY <1>2, <1>3 DEF SlotsInv

\* A synced slot is the same after a power cut, whatever becomes of the others.
LEMMA CutLeavesSynced ==
  ASSUME Shape, CutSlots
  PROVE  /\ Cellular(cache') /\ Cellular(medium') /\ cache' = medium'
         /\ \A s \in SlotNames : Synced(s) => medium'[s] = medium[s]
<1>1. PICK lost \in SUBSET {c \in SlotNames \X (1..Cells) : cache[c[1]][c[2]] # medium[c[1]][c[2]]} :
         medium' = [s \in SlotNames |-> [i \in 1..Cells |->
                       IF <<s, i>> \in lost THEN medium[s][i] ELSE cache[s][i]]]
  BY DEF CutSlots
<1>2. Cellular(medium')
  BY <1>1 DEF Cellular
<1>3. ASSUME NEW s \in SlotNames, Synced(s)
      PROVE  medium'[s] = medium[s]
  <2>1. \A i \in 1..Cells : medium'[s][i] = medium[s][i]
    BY <1>1, <1>3 DEF Synced
  <2>2. medium[s] = [i \in 1..Cells |-> medium[s][i]] /\ medium'[s] = [i \in 1..Cells |-> medium'[s][i]]
    BY <1>2 DEF Shape, Cellular
  <2> QED  BY <2>1, <2>2
<1> QED  BY <1>2, <1>3 DEF CutSlots

LEMMA RestartKeeps ==
  ASSUME DeliveryInv, Reboot \/ PowerCut
  PROVE  SlotsInv'
<1> USE DEF DeliveryInv
<1>1. /\ pc' = "idle" /\ UNCHANGED <<art, home, installs>>
      /\ \/ armed /\ running' = Other(home) /\ armed' = armed
         \/ running' = home /\ armed' = FALSE
  BY DEF Reboot, PowerCut, Restarts, BootNext, Goto, KeepInstall
<1>2. keptName' \in {name, keptName} /\ name' = IF Reboot THEN name ELSE keptName
  BY DEF Reboot, PowerCut, SyncAll, LoseUnsynced
<1>3. /\ Cellular(cache') /\ Cellular(medium')
      /\ \A s \in SlotNames : cache'[s] = medium'[s] /\ (Synced(s) => medium'[s] = medium[s])
  BY CutLeavesSynced DEF Reboot, PowerCut, SyncSlots, Synced, Shape
<1>4. \A s \in SlotNames : (Safe(s) => Safe(s)') /\ (New(s) => New(s)')
  BY <1>1, <1>3 DEF Safe, New, Synced
<1>5. Shape'
  BY <1>1, <1>3 DEF Shape, Other, SlotNames
<1>6. Boots'
  BY <1>1, <1>2, <1>4, <1>5 DEF Boots, NoNames, AllSafe, Shape, New, Safe, Other, SlotNames
<1>7. Unpublished'
  BY <1>1, <1>2, <1>3 DEF Unpublished, Untouched, NoNames, Synced
<1>8. Progress'
  BY <1>1, Elsewhere DEF Busy, Before, SavePcs
<1> QED  BY <1>5, <1>6, <1>7, <1>8 DEF SlotsInv

\* Until an artifact is published the slots are as they were made, and they stay so
\* until it is installed.
LEMMA HostKeeps ==
  ASSUME DeliveryInv,
         (\E f \in Images : HostStep(OpenImage(f))) \/ HostStep(ReadImage) \/ Publish \/ Sign
  PROVE  SlotsInv'
<1> USE DEF DeliveryInv
<1>1. UNCHANGED <<cache, medium, got, home, running, armed, name, keptName, pc, installs>> /\ installs = 0
  BY DEF HostStep, Publish, Sign, writerVars, fileVars, boardVars, installVars, Unpublished
<1>2. Untouched
  BY <1>1 DEF Unpublished
<1>3. Shape' /\ Boots' /\ Unpublished'
  BY <1>1, <1>2 DEF Shape, Cellular, Boots, Unpublished, Untouched, Safe, Synced, NoNames
<1>4. Progress'
  BY <1>1, <1>2, Elsewhere DEF Untouched, Busy, Before, SavePcs
<1> QED  BY <1>3, <1>4 DEF SlotsInv

---------------------------------------------------------------------------
(* The theorems. *)

LEMMA DeliveryInit == Init => DeliveryInv
<1> SUFFICES ASSUME Init PROVE DeliveryInv
  OBVIOUS
<1>1. RecordInv
  BY InitInv DEF Init
<1>2. Shape /\ Unpublished
  BY DEF Init, WriterInit, RecordInit, Shape, Cellular, Unpublished, Untouched, NoNames, SlotNames, OldSlot
<1>3. Boots /\ Progress
  BY DEF Init, WriterInit, RecordInit, Boots, NoNames, Safe, Synced, SlotNames,
         Progress, Before, SavePcs
<1> QED  BY <1>1, <1>2, <1>3 DEF DeliveryInv

LEMMA SlotsKeep ==
  ASSUME DeliveryInv, [Next]_vars
  PROVE  SlotsInv'
<1>1. CASE UNCHANGED vars
  <2>1. UNCHANGED slotsView /\ UNCHANGED <<pc, got>>
    BY <1>1 DEF vars, writerVars, fileVars, boardVars, installVars, slotsView
  <2>2. Progress'
    BY <2>1 DEF DeliveryInv, slotsView, Progress, AllSafe, Safe, New, Synced, Target, Image
  <2>3. Unpublished'
    BY <2>1 DEF DeliveryInv, slotsView, Unpublished, Untouched, NoNames
  <2> QED  BY <2>1, <2>2, <2>3, ViewKeeps DEF DeliveryInv, SlotsInv
<1>2. CASE Next
  BY <1>2, HostKeeps, StartKeeps, LooksKeep, WritesSpareOnly, SyncsSpareOnly, SaveKeepsSlots,
     ActivateKeeps, EndsKeep, ClearKeepsSlots, DropKeeps, KillKeeps, JournalKeeps, RestartKeeps
     DEF Next, DeliveryInv, SlotsInv
<1> QED  BY <1>1, <1>2

LEMMA DeliveryStep ==
  ASSUME TakeTurns
  PROVE  DeliveryInv /\ [Next]_vars => DeliveryInv' /\ Maps
  BY RecordKeeps, SlotsKeep DEF DeliveryInv, SlotsInv, NextRecord

\* Whichever slot the next boot may take is whole on the medium, whatever was
\* interrupted, damaged, killed or cut (blockdev.go:26-30; engine.go:169).
THEOREM Whole ==
  ASSUME TakeTurns
  PROVE  Spec => []BootsWhole
<1>1. DeliveryInv => BootsWhole
  BY DEF DeliveryInv, Boots, Safe, New, BootsWhole
<1>2. DeliveryInv /\ [Next]_vars => DeliveryInv'
  BY DeliveryStep
<1> QED  BY <1>1, <1>2, DeliveryInit, PTL DEF Spec

\* The record keeps its promise while updates are delivered, installs killed and
\* boards cut off: no document is ever seen that was not saved (engine.go:350).
THEOREM DeliveredRecord ==
  ASSUME TakeTurns
  PROVE  Spec => RecordAtomic
<1>1. DeliveryInv /\ [Next]_vars => DeliveryInv'
  BY DeliveryStep
<1>2. DeliveryInv /\ [Next]_vars
        => [File!FileNext]_<<ReadBack(name, data), ReadBack(keptName, kept)>>
  BY DeliveryStep DEF Maps
<1>3. Init => File!FileInit
  BY InitMaps DEF Init
<1> QED  BY <1>1, <1>2, <1>3, DeliveryInit, PTL DEF Spec, RecordAtomic, File!FileSpec

---------------------------------------------------------------------------
(* What install reports. *)

\* A saver has the document that its call is for; past its first record install has
\* one, and past the swap a trial.
Reporting ==
    /\ \A p \in Procs : Saving(p) => pc \in SavePcs /\ saver[p].doc = SavedDoc
    /\ pc \in {"save_written", "u_clear"} => ~armed
    /\ pc \in {"activate", "save_swapped", "post"} => name # NoInode
    /\ pc \in {"save_swapped", "post"} => armed
    /\ pc = "post" => Record = [phase |-> "swapped", target |-> Target]

\* Calls in which a step of install leaves something to be reported.
Reported == SavePcs \cup {"activate", "post", "u_clear"}

LEMMA NobodySaves ==
  ASSUME pc' \notin Reported, \A p \in Procs : ~Saving(p)'
  PROVE  Reporting'
  BY DEF Reported, Reporting, SavePcs

\* A step that keeps the call, the record, the trial and the savers.
LEMMA StaysReported ==
  ASSUME Reporting, UNCHANGED <<data, name, saver, armed, running, pc>>
  PROVE  Reporting'
  BY DEF Reporting, Saving, SavedDoc, Record, ReadBack, Target

LEMMA SaveReports ==
  ASSUME TakeTurns, DeliveryInv, Reporting, NEW p \in Procs, SaveState(p)
  PROVE  Reporting'
<1>1. RecordInv /\ saver \in [Procs -> [at : Stages, doc : File!Records, ino : Inodes \cup {NoInode}]]
  BY DEF DeliveryInv, RecordInv, RecordTypeOK
<1>2. pc \in SavePcs /\ UNCHANGED <<armed, home, running>>
  BY DEF SaveState, boardVars
<1>3. CASE UNCHANGED <<pc, name>>
  <2>1. tmp # NoInode => tmp # name
    BY <1>1 DEF RecordInv, Published
  <2>2. data'[name] = data[name] \/ name = NoInode
    BY <1>1, <1>3, <2>1
    DEF SaveState, SaveOpen, SaveWrite, SaveSync, SaveStops, SaveRename, AfterSave, SavePcs, Goto, Fail,
        Free, RecordInv, RecordTypeOK, Private, Saving
  <2>3. Record' = Record
    BY <1>3, <2>2 DEF Record, ReadBack
  <2>4. SavedDoc' = SavedDoc
    BY <1>2, <1>3, <2>3 DEF SavedDoc, Target
  <2>5. \A q \in Procs : Saving(q)' => saver'[q].doc = SavedDoc
    BY <1>1, <1>2, <1>3
    DEF SaveState, SaveOpen, SaveWrite, SaveSync, SaveStops, SaveRename, Saving, Reporting, NotSaving,
        Goto, Fail, AfterSave, SavePcs
  <2> QED  BY <1>2, <1>3, <2>4, <2>5 DEF Reporting, SavePcs
<1>4. CASE SaveRename(p) /\ Goto(AfterSave[pc])
  <2>1. Saving(p) /\ name' = tmp /\ tmp # NoInode /\ data' = data /\ data[tmp] = saver[p].doc
    BY <1>1, <1>4 DEF SaveRename, Saving, RecordInv, Private
  <2>2. Record' = SavedDoc
    BY <2>1 DEF Record, ReadBack, Reporting
  <2>3. \A q \in Procs : ~Saving(q)'
    BY <1>1, <1>4, <2>1 DEF SaveRename, Saving, NotSaving, RecordInv, Private
  <2>4. \/ pc = "save_written" /\ pc' = "activate"
        \/ pc = "save_swapped" /\ pc' = "post"
        \/ pc = "save_failed" /\ pc' = "idle"
    BY <1>2, <1>4 DEF SavePcs, AfterSave, Goto
  <2> QED
    BY <1>2, <2>1, <2>2, <2>3, <2>4 DEF Reporting, SavePcs, SavedDoc, Target
<1>5. CASE SaveStops(p) /\ Fail
  <2>1. \A q \in Procs : ~Saving(q)'
    BY <1>1, <1>5 DEF SaveStops, Saving, NotSaving, RecordInv, Private
  <2> QED  BY <1>5, <2>1, NobodySaves DEF Fail, Goto, Reported, SavePcs
<1> QED  BY <1>3, <1>4, <1>5 DEF SaveState, SaveOpen, SaveWrite, SaveSync

LEMMA ReportingKept ==
  ASSUME TakeTurns, DeliveryInv, Reporting, [Next]_vars
  PROVE  Reporting'
<1> USE DEF Goto, Fail, Refuse
<1>1. CASE UNCHANGED vars
  BY <1>1, StaysReported DEF vars, fileVars, boardVars, installVars
<1>2. CASE \/ \E f \in Images : HostStep(OpenImage(f))
           \/ HostStep(ReadImage) \/ Publish \/ Sign \/ DropLink \/ JournalCommits
  BY <1>2, StaysReported
  DEF HostStep, Publish, Sign, DropLink, JournalCommits, Writeback, fileVars, boardVars, installVars
<1>3. CASE Kill \/ Reboot \/ PowerCut
  <2>1. pc' = "idle" /\ \A p \in Procs : saver'[p] = NotSaving
    BY <1>3 DEF Kill, Reboot, PowerCut, Restarts, LoseUnsynced
  <2> QED  BY <2>1, NobodySaves DEF Saving, NotSaving, Reported, SavePcs
<1>4. ASSUME UNCHANGED saver, pc \notin SavePcs
      PROVE  \A p \in Procs : ~Saving(p)'
  BY <1>4 DEF Reporting, Saving
<1>5. CASE \/ InstallStart \/ InstallOpen \/ InstallGates \/ InstallPreHooks \/ InstallPayload
           \/ InstallWrite \/ InstallSync \/ Abandon \/ RecordInstalled
  <2>1. UNCHANGED saver /\ pc \notin SavePcs /\ pc' \notin Reported
    BY <1>5
    DEF InstallStart, InstallOpen, InstallGates, InstallPreHooks, InstallPayload, InstallWrite,
        InstallSync, Abandon, Finds, RecordInstalled, RunHooks, Looks, IdlePcs, SavePcs, Reported, fileVars
  <2> QED  BY <1>4, <2>1, NobodySaves
<1>6. CASE InstallVerify
  <2>1. UNCHANGED saver /\ UNCHANGED armed /\ ~armed /\ pc = "verify" /\ pc' \in {"save_written", "rejected"}
    BY <1>6 DEF InstallVerify, Looks, fileVars, boardVars, DeliveryInv, Progress, Before
  <2> QED  BY <1>4, <2>1 DEF Reporting, SavePcs
<1>7. CASE InstallActivate
  <2>1. /\ UNCHANGED <<saver, name>> /\ pc = "activate"
        /\ (pc' = "save_swapped" /\ armed') \/ pc' = "failed"
    BY <1>7 DEF InstallActivate, fileVars
  <2> QED  BY <1>4, <2>1 DEF Reporting, SavePcs
<1>8. CASE InstallPostHooks
  <2>1. /\ UNCHANGED <<data, name, saver, armed, running>> /\ pc = "post"
        /\ pc' \in {"post", "done", "unwind"}
    BY <1>8 DEF InstallPostHooks, RunHooks, Looks, fileVars, boardVars
  <2> QED  BY <1>4, <2>1, StaysReported, NobodySaves DEF Reported, SavePcs
<1>9. CASE Unwind
  <2>1. UNCHANGED saver /\ pc = "unwind" /\ pc' = "u_clear" /\ ~armed'
    BY <1>9 DEF Unwind, fileVars
  <2> QED  BY <1>4, <2>1 DEF Reporting, SavePcs
<1>10. CASE Commit
  <2>1. UNCHANGED saver /\ pc \in IdlePcs /\ pc' \in {"c_clear", "save_failed"}
    BY <1>10 DEF Commit, Finds, fileVars
  <2> QED  BY <1>4, <2>1 DEF Reporting, SavePcs, IdlePcs
<1>11. CASE ClearState
  <2>1. UNCHANGED saver /\ pc \in ClearPcs /\ pc' \in {"failed", "c_append", "idle"}
    BY <1>11 DEF ClearState, Clear, ClearPcs, AfterClear
  <2> QED  BY <1>4, <2>1, NobodySaves DEF Reported, SavePcs, ClearPcs
<1> QED
  BY <1>1, <1>2, <1>3, <1>5, <1>6, <1>7, <1>8, <1>9, <1>10, <1>11, SaveReports DEF Next

\* What install's exit tells its caller is so: done, an armed and recorded update;
\* rejected, neither record nor trial; failed, no trial without a record.
THEOREM ReportsAreTrue ==
  ASSUME TakeTurns
  PROVE  Spec => InstallReports
<1> DEFINE Told ==
      /\ pc # "done" /\ pc' = "done" => armed /\ Record = [phase |-> "swapped", target |-> Target]
      /\ pc # "rejected" /\ pc' = "rejected" => ~armed /\ Record = Absent
      /\ pc # "failed" /\ pc' = "failed" /\ armed => Record # Absent
<1> USE DEF Goto, Fail, Refuse
<1>1. ASSUME DeliveryInv, Reporting, Next
      PROVE  Told
  <2>1. RecordInv /\ (name # NoInode => Record # Absent) /\ (name = NoInode => Record = Absent)
    BY <1>1, Readable DEF DeliveryInv, Docs, Record, ReadBack
  <2>2. CASE pc' \notin {"done", "rejected", "failed"}
    BY <2>2
  <2>3. CASE pc \in Before
    <3>1. ~armed /\ Record = Absent
      BY <1>1, <2>1, <2>3 DEF DeliveryInv, Progress
    <3>2. pc' # "done"
      BY <1>1, <2>3
      DEF Before, Next, HostStep, Publish, Sign, InstallStart, InstallOpen, InstallGates, InstallPreHooks,
          InstallPayload, InstallWrite, InstallSync, InstallVerify, SaveState, InstallActivate,
          InstallPostHooks, RunHooks, Unwind, Commit, Abandon, Finds, ClearState, RecordInstalled,
          DropLink, Kill, JournalCommits, Reboot, PowerCut, Restarts, IdlePcs, SavePcs, ClearPcs,
          installVars
    <3> QED  BY <3>1, <3>2
  <2>4. CASE pc \notin Before /\ pc' \in {"done", "rejected", "failed"} /\ pc' # pc
    <3>1. \/ InstallStart \/ InstallPostHooks \/ InstallActivate \/ ClearState
          \/ \E p \in Procs : SaveState(p)
      BY <1>1, <2>4
      DEF Before, Next, HostStep, Publish, Sign, InstallOpen, InstallGates, InstallPreHooks,
          InstallPayload, InstallWrite, InstallSync, InstallVerify, Unwind, Commit, Abandon,
          RecordInstalled, DropLink, Kill, JournalCommits, Reboot, PowerCut, Restarts, installVars
    <3>2. CASE InstallStart
      BY <3>2 DEF InstallStart
    <3>3. CASE InstallPostHooks
      BY <1>1, <3>3 DEF InstallPostHooks, RunHooks, Reporting
    <3>4. CASE InstallActivate
      BY <1>1, <2>1, <3>4 DEF InstallActivate, Reporting
    <3>5. CASE ClearState
      BY <1>1, <3>5 DEF ClearState, ClearPcs, AfterClear, Reporting
    <3>6. CASE \E p \in Procs : SaveState(p)
      <4>1. pc \in SavePcs /\ pc' \notin {"done", "rejected"}
        BY <2>4, <3>6 DEF SaveState, SavePcs, AfterSave
      <4>2. armed => name # NoInode
        BY <1>1, <4>1 DEF SavePcs, Reporting, DeliveryInv, Progress
      <4> QED  BY <2>1, <4>1, <4>2
    <3> QED  BY <3>1, <3>2, <3>3, <3>4, <3>5, <3>6
  <2> QED  BY <2>2, <2>3, <2>4
<1>2. DeliveryInv /\ Reporting /\ [Next]_vars => [Told]_vars
  BY <1>1
<1>3. DeliveryInv /\ Reporting /\ [Next]_vars => (DeliveryInv /\ Reporting)'
  BY DeliveryStep, ReportingKept
<1>4. Init => Reporting
  BY DEF Init, RecordInit, Saving, NotSaving, Reporting, SavePcs
<1> QED  BY <1>2, <1>3, <1>4, DeliveryInit, PTL DEF Spec, InstallReports

---------------------------------------------------------------------------
(* The history. *)

\* h ends as c does, as far as both reach, and is within the cap.
EndsAs(h, c) ==
    /\ h \in Seq(SlotNames) /\ Len(h) <= HistoryCap
    /\ Len(c) > 0 => Len(h) > 0
    /\ \A k \in 0..(Len(h) - 1) : k < Len(c) => h[Len(h) - k] = c[Len(c) - k]

\* Histories a file may hold.
Kept == {h \in Seq(SlotNames) : Len(h) <= HistoryCap} \cup {Unreadable}

\* What was committed and has been appended: all but the commit under way.
Appended == IF pc = "c_append" THEN SubSeq(commits, 1, Len(commits) - 1) ELSE commits

\* The file agrees with the commits, and one that does not parse has had none since.
Chronicle ==
    /\ running \in SlotNames /\ home \in SlotNames
    /\ commits \in Seq(SlotNames)
    /\ history \in Kept /\ historyKept \subseteq Kept
    /\ pc = "c_append" => commits # <<>> /\ commits[Len(commits)] = running
    /\ IF history = Unreadable THEN Appended = <<>> ELSE EndsAs(history, Appended)

LEMMA NothingKept == <<>> \in Kept /\ <<>> \in Seq(SlotNames) /\ EndsAs(<<>>, <<>>)
<1>1. <<>> \in Seq(SlotNames) /\ Len(<<>>) = 0
  BY EmptySeq
<1>2. 0 <= HistoryCap
  BY HistoryCapAssumption
<1> QED  BY <1>1, <1>2 DEF Kept, EndsAs

LEMMA NotAHistory == Unreadable \notin Seq(SlotNames)
<1>1. SUFFICES ASSUME Unreadable \in Seq(SlotNames) PROVE FALSE
  OBVIOUS
<1>2. Unreadable[1] = "?" /\ Len(Unreadable) = 1
  BY DEF Unreadable
<1>3. Unreadable[1] \in SlotNames
  BY <1>1, <1>2
<1> QED  BY <1>2, <1>3 DEF SlotNames

\* One entry more, the oldest dropped where the cap asks for it.
LEMMA AppendEnds ==
  ASSUME NEW h \in Seq(SlotNames), NEW c \in Seq(SlotNames), NEW e \in SlotNames, EndsAs(h, c)
  PROVE  EndsAs(Newest(Append(h, e)), Append(c, e))
<1> DEFINE a == Append(h, e)
           b == Append(c, e)
<1>1. /\ HistoryCap \in Nat /\ HistoryCap > 0
      /\ Len(h) \in Nat /\ Len(c) \in Nat
      /\ a \in Seq(SlotNames) /\ Len(a) = Len(h) + 1 /\ Len(b) = Len(c) + 1
  BY HistoryCapAssumption
<1>2. \A k \in 0..(Len(a) - 1) : k < Len(b) => a[Len(a) - k] = b[Len(b) - k]
  <2> SUFFICES ASSUME NEW k \in 0..(Len(a) - 1), k < Len(b)
               PROVE  a[Len(a) - k] = b[Len(b) - k]
    OBVIOUS
  <2>1. CASE k = 0
    BY <1>1, <2>1
  <2>2. CASE k > 0
    <3>1. k - 1 \in 0..(Len(h) - 1) /\ k - 1 < Len(c)
      BY <1>1, <2>2
    <3>2. h[Len(h) - (k - 1)] = c[Len(c) - (k - 1)]
      BY <3>1 DEF EndsAs
    <3>3. a[Len(a) - k] = h[Len(h) - (k - 1)] /\ b[Len(b) - k] = c[Len(c) - (k - 1)]
      BY <1>1, <2>2, <3>1
    <3> QED  BY <3>2, <3>3
  <2> QED  BY <1>1, <2>1, <2>2
<1>3. CASE Len(a) <= HistoryCap
  <2>1. Newest(a) = a
    BY <1>1, <1>3 DEF Newest
  <2> QED  BY <1>1, <1>2, <1>3, <2>1 DEF EndsAs
<1>4. CASE Len(a) > HistoryCap
  <2> DEFINE m == Len(a) - HistoryCap + 1
  <2>1. m \in 1..Len(a) /\ Len(a) - m + 1 = HistoryCap
    BY <1>1, <1>4
  <2>2. Newest(a) = SubSeq(a, m, Len(a))
    BY <1>4 DEF Newest
  <2>3. /\ Newest(a) \in Seq(SlotNames) /\ Len(Newest(a)) = HistoryCap
        /\ \A i \in 1..HistoryCap : Newest(a)[i] = a[m + i - 1]
    <3>1. \A i \in m..Len(a) : a[i] \in SlotNames
      BY <1>1, <2>1, ElementOfSeq
    <3>2. m \in Int /\ Len(a) \in Int /\ m <= Len(a)
      BY <1>1, <2>1
    <3> HIDE DEF a, m
    <3> QED  BY <2>1, <2>2, <3>1, <3>2, SubSeqProperties
  <2>4. ASSUME NEW k \in 0..(HistoryCap - 1)
        PROVE  Newest(a)[HistoryCap - k] = a[Len(a) - k]
    <3>1. HistoryCap - k \in 1..HistoryCap /\ m + (HistoryCap - k) - 1 = Len(a) - k
      BY <1>1
    <3> QED  BY <2>3, <3>1
  <2>5. \A k \in 0..(HistoryCap - 1) :
          k < Len(b) => Newest(a)[HistoryCap - k] = b[Len(b) - k]
    <3>1. \A k \in 0..(HistoryCap - 1) : k \in 0..(Len(a) - 1)
      BY <1>1, <1>4
    <3> HIDE DEF a, b, m
    <3> QED  BY <1>2, <2>4, <3>1
  <2> DEFINE n == Newest(a)
  <2>6. n \in Seq(SlotNames) /\ Len(n) = HistoryCap
    BY <2>3
  <2>7. \A k \in 0..(Len(n) - 1) : k < Len(b) => n[Len(n) - k] = b[Len(b) - k]
    BY <2>5, <2>6
  <2>8. EndsAs(n, b)
    <3> HIDE DEF a, b, m, n
    <3> QED  BY <1>1, <2>6, <2>7 DEF EndsAs
  <2> QED  BY <2>8
<1> QED  BY <1>1, <1>3, <1>4

\* What was appended last, and what was there before.
LEMMA FrontOfAppend ==
  ASSUME NEW d \in Seq(SlotNames), NEW e \in SlotNames
  PROVE  LET c == Append(d, e) IN
           c \in Seq(SlotNames) /\ c # <<>> /\ c[Len(c)] = e /\ SubSeq(c, 1, Len(c) - 1) = d
<1> DEFINE c == Append(d, e)
<1>1. /\ c \in Seq(SlotNames) /\ c # <<>> /\ Len(c) = Len(d) + 1 /\ Len(d) \in Nat
      /\ c[Len(d) + 1] = e /\ \A i \in 1..Len(d) : c[i] = d[i] /\ d[i] \in SlotNames
  BY AppendProperties, ElementOfSeq, LenProperties
<1>2. /\ SubSeq(c, 1, Len(d)) \in Seq(SlotNames) /\ Len(SubSeq(c, 1, Len(d))) = Len(d)
      /\ \A i \in 1..Len(d) : SubSeq(c, 1, Len(d))[i] = c[i]
  <2>1. \A i \in 1..Len(d) : c[i] \in SlotNames
    BY <1>1
  <2>2. 1 \in Int /\ Len(d) \in Int
    BY <1>1
  <2> HIDE DEF c
  <2>3. /\ SubSeq(c, 1, Len(d)) \in Seq(SlotNames)
        /\ Len(SubSeq(c, 1, Len(d))) = IF 1 <= Len(d) THEN Len(d) - 1 + 1 ELSE 0
        /\ \A i \in 1..(Len(d) - 1 + 1) : SubSeq(c, 1, Len(d))[i] = c[1 + i - 1]
    BY <2>1, <2>2, SubSeqProperties
  <2> QED  BY <1>1, <2>3
<1>3. SubSeq(c, 1, Len(d)) = d
  BY <1>1, <1>2, SeqEqual
<1> QED  BY <1>1, <1>3

\* The last commit taken off and put back.
LEMMA LastOfCommits ==
  ASSUME NEW c \in Seq(SlotNames), c # <<>>
  PROVE  /\ SubSeq(c, 1, Len(c) - 1) \in Seq(SlotNames)
         /\ c = Append(SubSeq(c, 1, Len(c) - 1), c[Len(c)])
<1>1. PICK d \in Seq(SlotNames), e \in SlotNames : c = Append(d, e)
  BY SequenceEmptyOrAppend
<1>2. SubSeq(c, 1, Len(c) - 1) = d /\ c[Len(c)] = e
  BY <1>1, FrontOfAppend
<1> QED  BY <1>1, <1>2

LEMMA EndsEmpty ==
  ASSUME NEW h \in Seq(SlotNames), Len(h) <= HistoryCap
  PROVE  EndsAs(h, <<>>)
  BY EmptySeq DEF EndsAs

LEMMA ChronicleKept ==
  ASSUME Chronicle, [Next]_vars
  PROVE  Chronicle'
<1> USE NotAHistory
<1>1. {home', running'} \subseteq SlotNames
  BY DEF Chronicle, vars, boardVars, Next, HostStep, Publish, Sign, InstallStart, InstallOpen, InstallGates,
         InstallPreHooks, InstallPayload, InstallWrite, InstallSync, InstallVerify, SaveState,
         InstallActivate, InstallPostHooks, Unwind, Commit, Abandon, ClearState, RecordInstalled,
         DropLink, Kill, JournalCommits, Reboot, PowerCut, Restarts, BootNext, Looks, Other, SlotNames
<1>2. CASE UNCHANGED <<history, historyKept, commits, running>> /\ (pc = "c_append" <=> pc' = "c_append")
  BY <1>1, <1>2 DEF Chronicle, Appended
<1>3. ASSUME UNCHANGED history, historyKept' \subseteq Kept, pc' # "c_append",
             IF pc = "c_append" THEN commits' = <<>> ELSE UNCHANGED commits
      PROVE  Chronicle'
  <2>1. CASE pc = "c_append"
    <3>1. Appended' = <<>> /\ commits' \in Seq(SlotNames)
      BY <1>3, <2>1 DEF Appended
    <3>2. history # Unreadable => EndsAs(history, <<>>)
      BY EndsEmpty DEF Chronicle, Kept
    <3> QED  BY <1>1, <1>3, <3>1, <3>2 DEF Chronicle
  <2>2. CASE pc # "c_append"
    BY <1>1, <1>3, <2>2 DEF Chronicle, Appended
  <2> QED  BY <2>1, <2>2
<1>4. CASE ClearState
  <2>1. CASE pc = "c_clear"
    <3>1. /\ commits' = Append(commits, running) /\ pc' = "c_append"
          /\ UNCHANGED <<history, historyKept, running>>
      BY <1>4, <2>1 DEF ClearState, AfterClear, Goto, boardVars
    <3>2. /\ commits' \in Seq(SlotNames) /\ commits' # <<>> /\ commits'[Len(commits')] = running
          /\ SubSeq(commits', 1, Len(commits') - 1) = commits
      BY <3>1, FrontOfAppend DEF Chronicle
    <3>3. Appended' = Appended
      BY <2>1, <3>1, <3>2 DEF Appended
    <3> QED  BY <1>1, <3>1, <3>2, <3>3 DEF Chronicle
  <2>2. CASE pc \in {"u_clear", "r_clear"}
    BY <1>2, <1>4, <2>2 DEF ClearState, AfterClear, Goto, boardVars
  <2> QED  BY <1>4, <2>1, <2>2 DEF ClearState, ClearPcs
<1>5. CASE RecordInstalled
  <2>1. pc = "c_append" /\ pc' = "idle" /\ UNCHANGED running
    BY <1>5 DEF RecordInstalled, Goto, boardVars
  <2>2. CASE UNCHANGED <<history, historyKept>> /\ commits' = <<>>
    BY <1>3, <2>1, <2>2 DEF Chronicle
  <2>3. CASE AppendInstalled(running) /\ UNCHANGED commits
    <3> DEFINE h == IF history = Unreadable THEN <<>> ELSE history
    <3>1. commits \in Seq(SlotNames) /\ commits # <<>> /\ commits[Len(commits)] = running
      BY <2>1 DEF Chronicle
    <3>2. /\ SubSeq(commits, 1, Len(commits) - 1) \in Seq(SlotNames)
          /\ commits = Append(SubSeq(commits, 1, Len(commits) - 1), running)
      BY <3>1, LastOfCommits
    <3>3. h \in Seq(SlotNames) /\ EndsAs(h, SubSeq(commits, 1, Len(commits) - 1))
      <4>1. CASE history = Unreadable
        <5>1. h = <<>> /\ SubSeq(commits, 1, Len(commits) - 1) = <<>>
          BY <2>1, <4>1 DEF Chronicle, Appended
        <5> QED  BY <5>1, NothingKept
      <4>2. CASE history # Unreadable
        BY <2>1, <4>2 DEF Chronicle, Appended, EndsAs
      <4> QED  BY <4>1, <4>2
    <3>4. EndsAs(Newest(Append(h, running)), commits)
      BY <3>2, <3>3, AppendEnds DEF Chronicle
    <3>5. history' = Newest(Append(h, running)) /\ historyKept' = historyKept \cup {history', Unreadable}
      BY <2>3 DEF AppendInstalled
    <3>6. history' \in Kept /\ history' # Unreadable /\ historyKept' \subseteq Kept
      BY <3>4, <3>5 DEF EndsAs, Kept, Chronicle
    <3>7. Appended' = commits
      BY <2>1, <2>3 DEF Appended
    <3> QED  BY <1>1, <2>1, <2>3, <3>1, <3>4, <3>5, <3>6, <3>7 DEF Chronicle
  <2> QED  BY <1>5, <2>2, <2>3 DEF RecordInstalled
<1>6. CASE Kill
  BY <1>3, <1>6 DEF Kill, Goto, Chronicle
<1>7. CASE Reboot
  BY <1>3, <1>7 DEF Reboot, Restarts, Goto, SyncHistory, Chronicle
<1>8. CASE PowerCut
  <2>1. history' \in Kept /\ historyKept' = {history'} /\ commits' = <<>> /\ pc' = "idle"
    BY <1>8 DEF PowerCut, LoseHistory, Restarts, Goto, Chronicle
  <2>2. Appended' = <<>> /\ commits' \in Seq(SlotNames)
    BY <2>1 DEF Appended
  <2>3. history' # Unreadable => EndsAs(history', <<>>)
    BY <2>1, EndsEmpty DEF Kept
  <2> QED  BY <1>1, <2>1, <2>2, <2>3 DEF Chronicle
<1>9. CASE \/ \E f \in Images : HostStep(OpenImage(f))
           \/ HostStep(ReadImage) \/ Publish \/ Sign \/ DropLink \/ JournalCommits
  <2>1. UNCHANGED <<history, historyKept, commits, running, pc>>
    BY <1>9 DEF HostStep, Publish, Sign, DropLink, JournalCommits, KeepRest, installVars, boardVars
  <2> QED  BY <1>2, <2>1
<1>10. CASE \/ InstallStart \/ InstallOpen \/ InstallGates \/ InstallPreHooks \/ InstallPayload
            \/ InstallWrite \/ InstallSync \/ InstallVerify \/ InstallActivate \/ InstallPostHooks
            \/ Unwind \/ Commit \/ Abandon
  <2>1. UNCHANGED <<history, historyKept, commits, running>>
    BY <1>10
    DEF InstallStart, InstallOpen, InstallGates, InstallPreHooks, InstallPayload, InstallWrite,
        InstallSync, InstallVerify, InstallActivate, InstallPostHooks, Unwind, Commit, Abandon,
        Looks, KeepRest, boardVars
  <2>2. pc # "c_append" /\ pc' # "c_append"
    BY <1>10
    DEF InstallStart, InstallOpen, InstallGates, InstallPreHooks, InstallPayload, InstallWrite,
        InstallSync, InstallVerify, InstallActivate, InstallPostHooks, RunHooks, Unwind, Commit, Abandon,
        Finds, IdlePcs, Goto, Fail, Refuse
  <2> QED  BY <1>2, <2>1, <2>2
<1>11. CASE \E p \in Procs : SaveState(p)
  BY <1>2, <1>11 DEF SaveState, SavePcs, AfterSave, KeepRest, Goto, Fail, boardVars
<1>12. CASE UNCHANGED vars
  BY <1>2, <1>12 DEF vars, installVars, boardVars
<1> QED  BY <1>4, <1>5, <1>6, <1>7, <1>8, <1>9, <1>10, <1>11, <1>12 DEF Next

\* The history ends with what was committed, newest last, and is never longer than
\* its cap, whatever was killed, cut or could not be written, for any cap
\* (commit.go:304-313).
THEOREM HistoryIsTrue == Spec => []HistoryTrue
<1>1. Init => Chronicle
  <2>1. <<>> # Unreadable
    BY NothingKept, NotAHistory
  <2> QED  BY <2>1, NothingKept DEF Init, HistoryInit, Chronicle, Appended, SlotNames
<1>2. Chronicle /\ [Next]_vars => Chronicle'
  BY ChronicleKept
<1>3. Chronicle => HistoryTrue
  <2> SUFFICES ASSUME Chronicle, pc # "c_append" PROVE HistoryTrue
    BY DEF HistoryTrue
  <2>1. Len(history) <= HistoryCap
    <3>1. Len(Unreadable) = 1
      BY DEF Unreadable
    <3>2. CASE history = Unreadable
      <4>1. 1 <= HistoryCap
        BY HistoryCapAssumption
      <4> QED  BY <3>1, <3>2, <4>1
    <3>3. CASE history # Unreadable
      BY <3>3 DEF Chronicle, Kept
    <3> QED  BY <3>2, <3>3
  <2>2. history # Unreadable => EndsAs(history, commits)
    BY DEF Chronicle, Appended
  <2> QED  BY <2>1, <2>2 DEF HistoryTrue, EndsAs
<1> QED  BY <1>1, <1>2, <1>3, PTL DEF Spec

---------------------------------------------------------------------------
(* Admission. *)

Gating == {"open", "gates", "pre", "payload", "write"}

\* What the gates before the hooks asked.
Eligible ==
    /\ CompatibleWith(art.manifest, board.device)
    /\ VersionAtLeast(board.tool, art.manifest.min)
    /\ board.ready
    /\ board.sized => art.manifest.size <= Cells

NoFailure(n) == \A i \in 1..n : board.pre[i] # "fail"

\* How much of the gating an install at each of its calls has behind it.
Gated ==
    /\ board \in Boards /\ art.manifest.min \in Seq(Nat)
    /\ installs \in Nat
    /\ art = NoArtifact => installs = 0
    /\ pc \in Gating => Selects(board) /\ installs # 0
    /\ pc \in {"open", "gates"} => hook = 0
    /\ pc \in {"pre", "payload", "write"} => Eligible
    /\ pc = "pre" => hook \in Nat /\ hook <= Len(board.pre) /\ NoFailure(hook)
    /\ pc \in {"payload", "write"} => NoFailure(Len(board.pre))

\* Only a set of one connector has one element.
LEMMA OneDetects ==
  ASSUME NEW b \in Boards, Selects(b)
  PROVE  b.explicit \in Connectors \/ (b.explicit = "" /\ \E c \in Connectors : b.detected = {c})
<1>1. CASE b.explicit # ""
  BY <1>1 DEF Selects
<1>2. CASE b.explicit = ""
  <2>1. Connectors = {"tegrauefi"} \cup {"ubootenv"} \cup {"grubenv"}
    BY DEF Connectors
  <2>2. IsFiniteSet(Connectors)
    BY <2>1, FS_Singleton, FS_Union
  <2>3. b.detected \subseteq Connectors
    BY InputAssumption
  <2>4. IsFiniteSet(b.detected)
    BY <2>2, <2>3, FS_Subset
  <2>5. \E c : b.detected = {c}
    BY <1>2, <2>4, FS_Singleton DEF Selects
  <2> QED  BY <1>2, <2>3, <2>5
<1> QED  BY <1>1, <1>2

\* The gates of install come to what a board requires.
LEMMA GatesAdmit ==
  ASSUME Gated, pc = "write"
  PROVE  Admits(board, art)
<1>1. /\ board.tool \in Seq(Nat) /\ board.pre \in Seq(HookKinds)
      /\ art.manifest.min \in Seq(Nat)
  BY InputAssumption DEF Gated
<1>2. IsVersion(art.manifest.min) => IsVersion(board.tool) /\ NoOlder(board.tool, art.manifest.min)
  BY <1>1, FirstDifference DEF Gated, Eligible, VersionAtLeast
<1>3. "fail" \notin {board.pre[i] : i \in DOMAIN board.pre}
  BY <1>1 DEF Gated, NoFailure
<1> QED  BY <1>2, <1>3, OneDetects DEF Gated, Gating, Eligible, CompatibleWith, Admits

\* Whatever is published has a tool version of numbers, or none.
LEMMA MinsAreNumbers ==
  ASSUME Gated, Next
  PROVE  art'.manifest.min \in Seq(Nat)
<1>1. NoArtifact.manifest.min \in Seq(Nat)
  <2>1. NoArtifact.manifest.min = <<>>
    BY DEF NoArtifact
  <2>2. <<>> \in Seq(Nat)
    OBVIOUS
  <2> QED  BY <2>1, <2>2
<1>2. CASE Publish
  <2>1. CASE PackImage
    <3>1. PICK o \in PackOptions : art' \in {Pack(Cooked(out), o), NoArtifact}
      BY <2>1 DEF PackImage
    <3>2. Pack(Cooked(out), o).manifest.min = o.min
      BY DEF Pack
    <3> QED  BY <1>1, <3>1, <3>2, InputAssumption
  <2>2. CASE art' \in Foreign
    BY <2>2, InputAssumption
  <2>3. CASE UNCHANGED art
    BY <2>3 DEF Gated
  <2> QED  BY <1>2, <2>1, <2>2, <2>3 DEF Publish
<1>3. CASE Sign
  BY <1>3 DEF Sign, Signed, Gated
<1>4. CASE UNCHANGED art
  BY <1>4 DEF Gated
<1>5. (\E f \in Images : HostStep(OpenImage(f))) \/ HostStep(ReadImage) => UNCHANGED art
  BY DEF HostStep, installVars
<1> QED
  BY <1>2, <1>3, <1>4, <1>5
  DEF Next, InstallStart, InstallOpen, InstallGates, InstallPreHooks, InstallPayload, InstallWrite,
      InstallSync, InstallVerify, SaveState, InstallActivate, InstallPostHooks, Unwind, Commit, Abandon,
      ClearState, RecordInstalled, DropLink, Kill, JournalCommits, Reboot, PowerCut, Restarts,
      Looks, KeepInstall, installVars

LEMMA BoardStays ==
  ASSUME [Next]_vars
  PROVE  board' = board
  BY DEF Next, HostStep, Publish, Sign, InstallStart, InstallOpen, InstallGates, InstallPreHooks,
         InstallPayload, InstallWrite, InstallSync, InstallVerify, SaveState, InstallActivate,
         InstallPostHooks, Unwind, Commit, Abandon, ClearState, RecordInstalled, DropLink, Kill,
         JournalCommits, Reboot, PowerCut, Restarts, Looks, KeepInstall, installVars, vars

LEMMA GatedInit == Init => Gated
<1>1. NoArtifact.manifest.min = <<>>
  BY DEF NoArtifact
<1>2. <<>> \in Seq(Nat)
  OBVIOUS
<1>3. Init => art.manifest.min \in Seq(Nat)
  BY <1>1, <1>2 DEF Init
<1> QED  BY <1>3 DEF Init, Gated, Gating

LEMMA GatedKept ==
  ASSUME Gated, [Next]_vars
  PROVE  Gated'
<1> USE DEF Goto, Fail, Refuse
<1>1. CASE UNCHANGED vars
  BY <1>1 DEF vars, installVars, Gated, Gating, Eligible, NoFailure
<1>2. CASE Next
  <2>1. art'.manifest.min \in Seq(Nat)
    BY <1>2, MinsAreNumbers
  <2>2. board' = board
    BY <1>2, BoardStays
  <2>3. installs' \in Nat /\ (art' = NoArtifact => installs' = 0)
    <3>1. CASE InstallStart
      BY <3>1 DEF InstallStart, Gated
    <3>2. CASE Publish \/ Sign
      BY <3>2 DEF Publish, Sign, Gated
    <3>3. CASE UNCHANGED <<art, installs>>
      BY <3>3 DEF Gated
    <3> QED
      BY <1>2, <3>1, <3>2, <3>3
      DEF Next, HostStep, InstallOpen, InstallGates, InstallPreHooks, InstallPayload, InstallWrite,
          InstallSync, InstallVerify, SaveState, InstallActivate, InstallPostHooks, Unwind, Commit,
          Abandon, ClearState, RecordInstalled, DropLink, Kill, JournalCommits, Reboot, PowerCut,
          Restarts, Looks, KeepInstall, installVars
  <2>4. CASE pc' \notin Gating
    BY <2>1, <2>2, <2>3, <2>4 DEF Gated, Gating
  <2>5. CASE InstallStart
    BY <2>1, <2>2, <2>3, <2>5 DEF InstallStart, Gated, Gating
  <2>6. CASE InstallOpen
    BY <2>1, <2>2, <2>3, <2>6 DEF InstallOpen, Looks, KeepInstall, Gated, Gating
  <2>7. CASE InstallGates
    <3>1. pc = "gates" /\ UNCHANGED <<hook, art>> /\ hook = 0 /\ (pc' \in Gating => pc' = "pre" /\ Eligible)
      BY <2>7 DEF InstallGates, Looks, KeepInstall, Gated, Gating, Eligible
    <3>2. Len(board.pre) \in Nat
      BY InputAssumption DEF Gated
    <3>3. NoFailure(0)'
      BY DEF NoFailure
    <3>4. Eligible => Eligible'
      BY <2>2, <3>1 DEF Eligible
    <3>5. installs' = installs
      BY <2>7 DEF InstallGates, Looks, KeepInstall
    <3> QED  BY <2>1, <2>2, <2>3, <3>1, <3>2, <3>3, <3>4, <3>5 DEF Gated, Gating
  <2>8. CASE InstallPreHooks
    <3>1. board.pre \in Seq(HookKinds)
      BY InputAssumption DEF Gated
    <3>2. CASE hook = Len(board.pre)
      BY <2>1, <2>2, <2>3, <2>8, <3>1, <3>2
      DEF InstallPreHooks, RunHooks, Looks, KeepInstall, Gated, Gating, Eligible, NoFailure
    <3>3. CASE hook # Len(board.pre) /\ board.pre[hook + 1] # "fail" /\ pc' \in Gating
      <4>1. /\ hook' = hook + 1 /\ pc' = "pre" /\ hook \in Nat /\ hook <= Len(board.pre)
            /\ Len(board.pre) \in Nat /\ NoFailure(hook) /\ art' = art
        BY <2>8, <3>1, <3>3 DEF InstallPreHooks, RunHooks, Looks, KeepInstall, Gated, Gating
      <4>2. NoFailure(hook + 1)
        BY <3>3, <4>1 DEF NoFailure
      <4>3. NoFailure(hook)'
        BY <2>2, <4>1, <4>2 DEF NoFailure
      <4>4. hook' \in Nat /\ hook' <= Len(board'.pre)
        BY <2>2, <3>3, <4>1
      <4> QED  BY <2>1, <2>2, <2>3, <2>8, <4>1, <4>3, <4>4 DEF InstallPreHooks, Looks, KeepInstall, Gated, Gating, Eligible
    <3>4. CASE hook # Len(board.pre) /\ board.pre[hook + 1] = "fail"
      BY <2>1, <2>2, <2>3, <2>8, <3>4 DEF InstallPreHooks, RunHooks, Looks, KeepInstall, Gated, Gating
    <3> QED  BY <2>4, <3>2, <3>3, <3>4
  <2>9. CASE InstallPayload
    BY <2>1, <2>2, <2>3, <2>9 DEF InstallPayload, Looks, KeepInstall, Gated, Gating, Eligible, NoFailure
  <2>10. CASE InstallWrite
    BY <2>1, <2>2, <2>3, <2>10 DEF InstallWrite, KeepInstall, Gated, Gating, Eligible, NoFailure
  <2>11. CASE DropLink
    BY <2>1, <2>2, <2>3, <2>11 DEF DropLink, KeepInstall, Gated, Gating, Eligible, NoFailure
  <2>12. CASE JournalCommits
    BY <2>1, <2>2, <2>3, <2>12 DEF JournalCommits, installVars, Gated, Gating, Eligible, NoFailure
  <2>13. CASE (\E f \in Images : HostStep(OpenImage(f))) \/ HostStep(ReadImage)
    BY <2>1, <2>2, <2>3, <2>13 DEF HostStep, installVars, Gated, Gating, Eligible, NoFailure
  <2>14. CASE Publish \/ Sign
    BY <2>1, <2>2, <2>3, <2>14 DEF Publish, Sign, Gated, Gating
  <2>15. pc' \in Gating => \/ InstallStart \/ InstallOpen \/ InstallGates \/ InstallPreHooks
                           \/ InstallPayload \/ InstallWrite \/ DropLink \/ JournalCommits
                           \/ (\E f \in Images : HostStep(OpenImage(f))) \/ HostStep(ReadImage)
                           \/ Publish \/ Sign
    BY <1>2, PostHooksPcs
    DEF Gating, Next, InstallSync, InstallVerify, SaveState, SavePcs, AfterSave, InstallActivate,
        Unwind, Commit, Abandon, ClearState, ClearPcs, AfterClear,
        RecordInstalled, Kill, Reboot, PowerCut, Restarts
  <2> QED
    BY <2>4, <2>5, <2>6, <2>7, <2>8, <2>9, <2>10, <2>11, <2>12, <2>13, <2>14, <2>15
<1> QED  BY <1>1, <1>2

\* Only a transfer changes what a slot reads as, or the cut that ends all verbs.
LEMMA OnlyWrites ==
  ASSUME [Next]_vars, pc' # "idle", cache' # cache
  PROVE  pc = "write"
  BY DEF Next, HostStep, Publish, Sign, InstallStart, InstallOpen, InstallGates, InstallPreHooks,
         InstallPayload, InstallWrite, InstallSync, InstallVerify, SaveState, InstallActivate,
         InstallPostHooks, Unwind, Commit, Abandon, ClearState, RecordInstalled, DropLink, LinkFails,
         Kill, JournalCommits, Reboot, PowerCut, Restarts, Looks, Goto, Sync, writerVars, vars

\* A slot is written only for an artifact that its board admits: the connector is
\* chosen, the device and the tool's version fit, the platform is ready, the image
\* fits and no pre-install hook failed, whatever the boards and the artifacts are
\* (engine.go:69-134).
THEOREM GatesHold == Spec => WriteGated
<1>1. Init => Gated
  BY GatedInit
<1>2. Gated /\ [Next]_vars => Gated'
  BY GatedKept
<1>3. Gated /\ [Next]_vars => [pc' # "idle" /\ cache' # cache => Admits(board, art)]_vars
  BY GatesAdmit, OnlyWrites
<1> QED  BY <1>1, <1>2, <1>3, PTL DEF Spec, WriteGated

---------------------------------------------------------------------------
(* The pack host. *)

LEMMA ImagesKeep ==
  ASSUME [Next]_vars
  PROVE  (SparseType => SparseType') /\ (SparseInv => SparseInv')
<1>1. CASE \E f \in Images : HostStep(OpenImage(f))
  <2>1. PICK f \in Images : OpenImage(f)
    BY <1>1 DEF HostStep
  <2> QED  BY <2>1, TypeOpens, SparseOpens
<1>2. CASE HostStep(ReadImage)
  BY <1>2, TypeReads, ReadKeeps DEF HostStep
<1>3. CASE Publish
  <2>1. out' = <<>> /\ rem' = 0 /\ verdict' = "none"
    BY <1>3 DEF Publish
  <2> QED  BY <2>1, NothingIsSequence DEF SparseType, SparseInv
<1>4. CASE UNCHANGED sparseVars
  BY <1>4, SparseStutters DEF SparseType, sparseVars
<1> QED
  BY <1>1, <1>2, <1>3, <1>4
  DEF Next, Sign, InstallStart, InstallOpen, InstallGates, InstallPreHooks, InstallPayload, InstallWrite,
      InstallSync, InstallVerify, SaveState, InstallActivate, InstallPostHooks, Unwind, Commit, Abandon,
      ClearState, RecordInstalled, DropLink, Kill, JournalCommits, Reboot, PowerCut, Restarts,
      Looks, KeepRest, vars

\* Whatever sizes pack reads in, what it compresses is the image that the file stands
\* for, for every file whose headers agree with its chunks and every width of numbers
\* (sparse.go:1-29).
THEOREM ImagesAreRaw == Spec => []PackedIsRaw
<1>1. Init => SparseInv
  BY SparseStarts DEF Init
<1>2. SparseInv /\ [Next]_vars => SparseInv'
  BY ImagesKeep
<1> QED  BY <1>1, <1>2, InvGivesPacked, PTL DEF Spec

---------------------------------------------------------------------------
(* Blame. *)

Garbled == Garble \in {got[i] : i \in DOMAIN got}

Transferring == Gating \cup {"sync", "verify", "rejected"}

\* What was received is the beginning of what was sent, or was damaged on its way.
Carried ==
    /\ IsSequence(art.stored) /\ IsSequence(art.members)
    /\ link \in {"up", "down"}
    /\ IsSequence(got) /\ Len(got) <= Len(art.stored)
    /\ Garbled \/ \A i \in 1..Len(got) : got[i] = art.stored[i]
    /\ pc \in {"sync", "verify"} => Len(got) = Len(art.stored)
    /\ sent \in 0..Cells
    /\ pc \in Transferring => installs # 0

Blameless ==
    link = "down" \/ Garbled \/ ~Admits(board, art) \/ ~VerifyPacked(Unsigned(art))

\* Steps of one kind leave the transfer as it is.
LEMMA CarriedStays ==
  ASSUME Carried, UNCHANGED <<art, link, got, sent, installs>>,
         pc' \in {"sync", "verify"} => Len(got) = Len(art.stored),
         pc' \in Transferring => pc \in Transferring
  PROVE  Carried'
  BY DEF Carried, Garbled

\* The others forget it.
LEMMA CarriedAnew ==
  ASSUME IsSequence(art.stored), IsSequence(art.members), UNCHANGED art, NoTransfer,
         pc' \notin {"sync", "verify"}, pc' \in Transferring => installs' # 0
  PROVE  Carried'
<1>1. IsSequence(<<>>) /\ Len(<<>>) = 0 /\ 0 \in 0..Cells /\ Len(art.stored) \in Nat
  BY NothingIsSequence, SequenceIs, CellsAssumption
<1> QED  BY <1>1 DEF Carried, NoTransfer

LEMMA StoredIsSequence ==
  ASSUME NEW image, NEW c, IsSequence(image)
  PROVE  IsSequence(Stored(image, c))
<1>1. IsSequence(<<"head">>) /\ IsSequence(<<"check">>)
  <2>1. <<"head">> \in Seq({"head"}) /\ <<"check">> \in Seq({"check"})
    OBVIOUS
  <2> QED  BY <2>1, SequenceOf
<1>2. IsSequence(<<"head">> \o image \o <<"check">>)
  BY <1>1, SequencesJoin
<1> QED  BY <1>2 DEF Stored

LEMMA PlainIsSequence ==
  ASSUME NEW s, NEW c, IsSequence(s)
  PROVE  Len(Plain(s, c)) \in Nat
<1> DEFINE n == Len(s)
           l == IF n > 1 /\ s[n] = "check" THEN n - 1 ELSE n
<1>1. n \in Nat /\ s \in Seq(Range(s)) /\ \A i \in 1..n : s[i] \in Range(s)
  BY SequenceIs
<1>2. CASE c = "none"
  BY <1>1, <1>2 DEF Plain
<1>3. CASE c # "none" /\ n = 0
  <2>1. SubSeq(s, 2, 0) = <<>>
    BY SubSeqEmpty
  <2> QED  BY <1>3, <2>1 DEF Plain
<1>4. CASE c # "none" /\ n # 0
  <2>1. 2 \in 1..n + 1 /\ l \in 2 - 1..n /\ \A i \in 2..l : s[i] \in Range(s)
    BY <1>1, <1>4
  <2>2. SubSeq(s, 2, l) \in Seq(Range(s))
    <3> HIDE DEF l
    <3> QED  BY <1>1, <2>1, SubSeqProperties
  <2>3. Plain(s, c) = SubSeq(s, 2, l)
    BY <1>4, Zenon DEF Plain
  <2> QED  BY <2>2, <2>3, LenProperties
<1> QED  BY <1>2, <1>3, <1>4

LEMMA PublishCarries ==
  ASSUME Gated, Carried, SparseType, Publish \/ Sign
  PROVE  Carried'
<1>1. UNCHANGED <<link, got, sent, installs, pc>> /\ installs = 0
  BY DEF Publish, Sign, Gated, writerVars
<1>2. pc \notin Transferring
  BY <1>1 DEF Carried
<1>3. CASE Sign
  <2>1. art'.stored = art.stored /\ art'.members = <<SignatureName>> \o art.members
    BY <1>3 DEF Sign, Signed
  <2>2. <<SignatureName>> \in Seq({SignatureName})
    OBVIOUS
  <2>3. IsSequence(<<SignatureName>>)
    BY <2>2, SequenceOf
  <2>4. IsSequence(art'.members)
    BY <2>1, <2>3, SequencesJoin DEF Carried
  <2> QED  BY <1>1, <1>2, <2>1, <2>4 DEF Carried, Garbled, Transferring
<1>4. CASE Publish
  <2>1. art.stored = <<>>
    BY <1>4 DEF Publish, NoArtifact
  <2>2. Len(got) = 0
    BY <2>1, SequenceIs DEF Carried
  <2>3. IsSequence(art'.stored) /\ IsSequence(art'.members)
    <3>1. CASE art' = NoArtifact
      BY <3>1, NothingIsSequence DEF NoArtifact
    <3>2. CASE art' \in Foreign
      BY <3>2, InputAssumption
    <3>3. ASSUME NEW o \in PackOptions, art' = Pack(Cooked(out), o)
          PROVE  IsSequence(art'.stored) /\ IsSequence(art'.members)
      <4> DEFINE image == Cooked(out)
                 n == PayloadName(o.file, o.compression)
      <4>1. IsSequence(image)
        <5>1. Len(out) \in Nat /\ DOMAIN out = 1..Len(out)
          BY SequenceIs DEF SparseType
        <5>2. image = [i \in 1..Len(out) |-> image[i]]
          BY <5>1 DEF Cooked
        <5> HIDE DEF image
        <5> QED  BY <5>1, <5>2, FunctionsAreSequences
      <4>2. <<n>> \in Seq({n})
        OBVIOUS
      <4>3. art'.members = <<n>> /\ art'.stored = Stored(image, o.compression)
        BY <3>3 DEF Pack
      <4> HIDE DEF image, n
      <4>4. IsSequence(<<n>>)
        BY <4>2, SequenceOf
      <4> QED  BY <4>1, <4>3, <4>4, StoredIsSequence
    <3> QED  BY <1>4, <3>1, <3>2, <3>3 DEF Publish, PackImage
  <2>4. Len(got) <= Len(art'.stored)
    BY <2>2, <2>3, SequenceIs
  <2> QED  BY <1>1, <1>2, <2>2, <2>3, <2>4 DEF Carried, Transferring
<1> QED  BY <1>3, <1>4

LEMMA WriteCarries ==
  ASSUME Carried, InstallWrite
  PROVE  Carried'
<1>1. UNCHANGED <<art, installs>> /\ installs # 0 /\ pc = "write"
  BY DEF InstallWrite, KeepInstall, Carried, Transferring, Gating
<1>2. Len(got) \in Nat /\ Len(art.stored) \in Nat /\ Cells \in Nat
  BY SequenceIs, CellsAssumption DEF Carried
<1>3. CASE UNCHANGED writerVars /\ pc' = "failed"
  BY <1>1, <1>3, CarriedStays DEF writerVars, Transferring, Gating
<1>4. CASE Flush(Target, art) /\ pc' = "sync"
  <2>1. /\ UNCHANGED <<link, got>> /\ Len(got) = Len(art.stored)
        /\ sent' = Len(Image(art)) /\ Len(Image(art)) <= Cells
    BY <1>4 DEF Flush, AtEnd
  <2>2. Len(Image(art)) \in Nat
    BY PlainIsSequence DEF Image, Carried
  <2>3. sent' \in 0..Cells
    BY <1>2, <2>1, <2>2
  <2> QED  BY <1>1, <1>4, <2>1, <2>3 DEF Carried, Garbled, Transferring
<1>5. ASSUME NEW damaged \in BOOLEAN, ReadBlock(Target, art, damaged), UNCHANGED pc
      PROVE  Carried'
  <2> DEFINE n == Len(got)
             cell == IF damaged THEN Garble ELSE art.stored[n + 1]
             image == Plain(Append(got, cell), art.manifest.compression)
  <2>1. /\ n < Len(art.stored) /\ got' = Append(got, cell) /\ link' = link
        /\ sent' \in {sent, IF Len(image) < Cells THEN Len(image) ELSE Cells}
    BY <1>5 DEF ReadBlock
  <2> DEFINE S == Range(got) \cup {cell}
  <2>2. got \in Seq(S) /\ cell \in S
    <3>1. got \in Seq(Range(got)) /\ Range(got) \subseteq S
      BY DEF Carried, IsSequence
    <3> HIDE DEF S
    <3>2. got \in Seq(S)
      BY <3>1, SeqMonotonic
    <3> QED  BY <3>2 DEF S
  <2> HIDE DEF S, cell
  <2>3. /\ Append(got, cell) \in Seq(S) /\ Len(Append(got, cell)) = n + 1
        /\ \A i \in 1..n : Append(got, cell)[i] = got[i]
        /\ Append(got, cell)[n + 1] = cell
        /\ DOMAIN got = 1..n /\ DOMAIN Append(got, cell) = 1..n + 1
    BY <2>2, AppendProperties, LenProperties
  <2>4. IsSequence(got') /\ Len(got') <= Len(art.stored)
    <3>1. IsSequence(Append(got, cell))
      BY <2>3, SequenceOf
    <3> QED  BY <1>2, <2>1, <2>3, <3>1
  <2>5. Garbled' \/ \A i \in 1..Len(got') : got'[i] = art.stored[i]
    <3>1. CASE Garbled
      <4>1. PICK i \in 1..n : got[i] = Garble
        BY <2>3, <3>1 DEF Garbled
      <4>2. got'[i] = Garble /\ i \in DOMAIN got'
        BY <1>2, <2>1, <2>3, <4>1
      <4> QED  BY <4>2 DEF Garbled
    <3>2. CASE damaged
      <4>1. got'[n + 1] = Garble /\ n + 1 \in DOMAIN got'
        BY <1>2, <2>1, <2>3, <3>2 DEF cell
      <4> QED  BY <4>1 DEF Garbled
    <3>3. CASE ~Garbled /\ ~damaged
      <4>1. cell = art.stored[n + 1] /\ \A i \in 1..n : got[i] = art.stored[i]
        BY <3>3 DEF cell, Carried
      <4>2. ASSUME NEW i \in 1..n + 1
            PROVE  got'[i] = art.stored[i]
        <5>1. i \in 1..n \/ i = n + 1
          BY <1>2
        <5> QED  BY <2>1, <2>3, <4>1, <5>1
      <4> QED  BY <2>1, <2>3, <4>2
    <3> QED  BY <3>1, <3>2, <3>3
  <2>6. sent' \in 0..Cells
    <3>1. IsSequence(Append(got, cell))
      BY <2>3, SequenceOf
    <3>2. Len(image) \in Nat
      BY <3>1, PlainIsSequence
    <3> HIDE DEF image
    <3>3. sent \in 0..Cells
      BY DEF Carried
    <3> QED  BY <1>2, <2>1, <3>2, <3>3
  <2>7. pc' \notin {"sync", "verify"} /\ installs' # 0
    BY <1>1, <1>5
  <2> QED  BY <1>1, <2>1, <2>4, <2>5, <2>6, <2>7 DEF Carried
<1> QED  BY <1>1, <1>3, <1>4, <1>5 DEF InstallWrite, Goto, Fail

LEMMA CarriedKept ==
  ASSUME Gated, Carried, SparseType, [Next]_vars
  PROVE  Carried'
<1> USE DEF Goto, Fail, Refuse
<1>1. CASE UNCHANGED vars
  BY <1>1, CarriedStays DEF vars, installVars, writerVars, Carried
<1>2. CASE (\E f \in Images : HostStep(OpenImage(f))) \/ HostStep(ReadImage) \/ JournalCommits
  BY <1>2, CarriedStays DEF HostStep, JournalCommits, installVars, writerVars, Carried
<1>3. CASE InstallStart
  <2>1. installs' # 0
    BY <1>3 DEF InstallStart, Gated
  <2> QED  BY <1>3, <2>1, CarriedAnew DEF InstallStart, Carried
<1>4. CASE Commit \/ Abandon \/ Kill \/ Restarts
  <2>1. NoTransfer /\ UNCHANGED art /\ pc' \notin Transferring
    BY <1>4 DEF Commit, Abandon, Kill, Restarts, KeepInstall, Transferring, Gating
  <2> QED  BY <2>1, CarriedAnew DEF Carried, Transferring
<1>5. CASE InstallOpen \/ InstallGates \/ InstallPreHooks \/ InstallPayload \/ InstallVerify \/ InstallSync
  <2>1. UNCHANGED <<art, installs>> /\ pc \in Transferring
    BY <1>5
    DEF InstallOpen, InstallGates, InstallPreHooks, InstallPayload, InstallVerify, InstallSync, Looks,
        KeepInstall, Transferring, Gating
  <2>2. UNCHANGED <<link, got, sent>>
    BY <1>5
    DEF InstallOpen, InstallGates, InstallPreHooks, InstallPayload, InstallVerify, InstallSync, Looks,
        Sync, writerVars
  <2>3. pc' \in {"sync", "verify"} => pc = "sync"
    BY <1>5
    DEF InstallOpen, InstallGates, InstallPreHooks, InstallPayload, InstallVerify, InstallSync, RunHooks
  <2> QED  BY <2>1, <2>2, <2>3, CarriedStays DEF Carried
<1>6. CASE DropLink
  <2>1. UNCHANGED <<art, installs, got, sent, pc>> /\ link' = "down"
    BY <1>6 DEF DropLink, LinkFails, KeepInstall
  <2> QED  BY <2>1 DEF Carried, Garbled
<1>7. CASE \/ InstallActivate \/ InstallPostHooks \/ Unwind \/ ClearState \/ RecordInstalled
           \/ \E p \in Procs : SaveState(p)
  <2>1. UNCHANGED <<art, installs>>
    BY <1>7
    DEF InstallActivate, InstallPostHooks, Unwind, ClearState, RecordInstalled, SaveState, Looks, KeepInstall
  <2>2. UNCHANGED <<link, got, sent>>
    BY <1>7
    DEF InstallActivate, InstallPostHooks, Unwind, ClearState, RecordInstalled, SaveState, Looks, writerVars
  <2>3. pc' \notin Transferring
    BY <1>7, PostHooksPcs
    DEF InstallActivate, Unwind, ClearState, ClearPcs, AfterClear,
        RecordInstalled, SaveState, SavePcs, AfterSave, Transferring, Gating
  <2> QED  BY <2>1, <2>2, <2>3, CarriedStays DEF Transferring
<1> QED
  BY <1>1, <1>2, <1>3, <1>4, <1>5, <1>6, <1>7, PublishCarries, WriteCarries DEF Next, Reboot, PowerCut

\* A signature in front of the members changes nothing for who looks for the payload.
LEMMA FindsUnsigned ==
  ASSUME NEW m, NEW a, IsSequence(a.members), FindsPayload(m, Unsigned(a).members)
  PROVE  FindsPayload(m, a.members)
<1> DEFINE s == a.members
<1>1. Len(s) \in Nat /\ DOMAIN s = 1..Len(s) /\ s \in Seq(Range(s))
  BY SequenceIs
<1>2. CASE s = <<>> \/ s[1] # SignatureName
  BY <1>2 DEF Unsigned
<1>3. CASE s # <<>> /\ s[1] = SignatureName
  <2>1. Unsigned(a).members = Tail(s)
    BY <1>3 DEF Unsigned
  <2> HIDE DEF s
  <2>2. /\ Tail(s) \in Seq(Range(s)) /\ Len(Tail(s)) = Len(s) - 1
        /\ \A i \in 1..Len(Tail(s)) : Tail(s)[i] = s[i + 1]
    BY <1>1, <1>3, HeadTailProperties
  <2>3. DOMAIN Tail(s) = 1..Len(s) - 1
    BY <2>2, LenProperties
  <2>4. PICK i \in 1..Len(s) - 1 :
           /\ Tail(s)[i] = m.payload /\ m.payload # SignatureName
           /\ \A j \in 1..(i - 1) : Tail(s)[j] = SignatureName
    BY <2>1, <2>3 DEF FindsPayload
  <2>5. i + 1 \in DOMAIN s /\ s[i + 1] = m.payload
    BY <1>1, <2>2, <2>4
  <2>6. ASSUME NEW j \in 1..(i + 1) - 1
        PROVE  s[j] = SignatureName
    <3>1. CASE j = 1
      BY <1>3, <3>1
    <3>2. CASE j # 1
      <4>1. j - 1 \in 1..(i - 1) /\ j - 1 \in 1..Len(Tail(s)) /\ (j - 1) + 1 = j
        BY <1>1, <2>2, <2>4, <3>2
      <4> QED  BY <2>2, <2>4, <4>1
    <3> QED  BY <3>1, <3>2
  <2> QED  BY <2>4, <2>5, <2>6 DEF FindsPayload, s
<1> QED  BY <1>2, <1>3

\* Each of the four places that reject has somebody to blame.
LEMMA RefusalsBlame ==
  ASSUME Gated, Carried, pc' = "rejected",
         InstallOpen \/ InstallGates \/ InstallPayload \/ InstallVerify
  PROVE  UNCHANGED <<board, art, link, got>> /\ Blameless
<1> DEFINE m == art.manifest
<1> USE DEF Goto, Fail, Refuse
<1>1. UNCHANGED <<board, art, link, got>>
  BY DEF InstallOpen, InstallGates, InstallPayload, InstallVerify, Looks, KeepInstall, writerVars
<1>2. /\ Unsigned(art).first = art.first /\ Unsigned(art).stored = art.stored
      /\ Unsigned(art).manifest = m
  BY DEF Unsigned
<1>3. CASE InstallOpen
  <2>1. link # "up" \/ ~art.first \/ ~Validate(m)
    BY <1>3 DEF InstallOpen
  <2> QED  BY <1>1, <1>2, <2>1 DEF Blameless, VerifyPacked, Carried
<1>4. CASE InstallGates
  <2>1. ~ (/\ CompatibleWith(m, board.device) /\ VersionAtLeast(board.tool, m.min)
           /\ board.ready /\ (board.sized => m.size <= Cells))
    BY <1>4 DEF InstallGates
  <2>2. board.tool \in Seq(Nat) /\ m.min \in Seq(Nat)
    BY InputAssumption DEF Gated
  <2>3. ~Admits(board, art)
    <3>1. ASSUME IsVersion(m.min) => IsVersion(board.tool) /\ NoOlder(board.tool, m.min)
          PROVE  VersionAtLeast(board.tool, m.min)
      <4>1. CASE IsVersion(m.min)
        BY <2>2, <3>1, <4>1, FirstDifference
      <4>2. CASE ~IsVersion(m.min)
        BY <4>2 DEF VersionAtLeast
      <4> QED  BY <4>1, <4>2
    <3> QED  BY <2>1, <3>1 DEF Admits, CompatibleWith
  <2> QED  BY <1>1, <2>3 DEF Blameless
<1>5. CASE InstallPayload
  <2>1. link # "up" \/ ~FindsPayload(m, art.members)
    BY <1>5 DEF InstallPayload
  <2>2. ~FindsPayload(m, art.members) => ~FindsPayload(m, Unsigned(art).members)
    BY FindsUnsigned DEF Carried
  <2> QED  BY <1>1, <1>2, <2>1, <2>2 DEF Blameless, VerifyPacked, Carried
<1>6. CASE InstallVerify
  <2>1. pc = "verify" /\ (~SizeMatches(m, Image(art)) \/ ~VerifyPayloadDigests(m, Image(art), got))
    BY <1>6 DEF InstallVerify
  <2>2. ASSUME ~Garbled
        PROVE  got = art.stored
    <3>1. /\ got \in Seq(Range(got)) /\ art.stored \in Seq(Range(art.stored))
          /\ Len(got) = Len(art.stored) /\ \A i \in 1..Len(got) : got[i] = art.stored[i]
      BY <2>1, <2>2 DEF Carried, IsSequence
    <3> QED  BY <3>1, SeqEqual
  <2>3. CASE ~Garbled
    <3>1. Image(art) = Plain(art.stored, m.compression)
      BY <2>2, <2>3 DEF Image
    <3> QED  BY <1>1, <1>2, <2>1, <2>2, <2>3, <3>1 DEF Blameless, VerifyPacked, SizeMatches
  <2> QED  BY <1>1, <2>3 DEF Blameless
<1> QED  BY <1>3, <1>4, <1>5, <1>6

LEMMA BlameKept ==
  ASSUME Gated, Carried, pc = "rejected" => Blameless, [Next]_vars
  PROVE  (pc = "rejected" => Blameless)'
<1> SUFFICES ASSUME pc' = "rejected" PROVE Blameless'
  OBVIOUS
<1>1. CASE pc = "rejected"
  <2>1. ~Publish /\ ~Sign
    BY <1>1 DEF Publish, Sign, Gated, Carried, Transferring
  <2>2. UNCHANGED <<board, art, link, got>>
    BY <1>1, <2>1
    DEF Next, HostStep, InstallStart, InstallOpen, InstallGates, InstallPreHooks, InstallPayload, InstallWrite,
        InstallSync, InstallVerify, SaveState, SavePcs, InstallActivate, InstallPostHooks, Unwind, Commit,
        Abandon, ClearState, ClearPcs, RecordInstalled, DropLink, Kill, JournalCommits, Reboot, PowerCut,
        Restarts, Goto, installVars, writerVars, vars
  <2> QED  BY <1>1, <2>2 DEF Blameless, Garbled
<1>2. CASE pc # "rejected"
  <2>1. InstallOpen \/ InstallGates \/ InstallPayload \/ InstallVerify
    BY <1>2
    DEF Next, HostStep, Publish, Sign, InstallStart, InstallPreHooks, RunHooks, InstallWrite, InstallSync,
        SaveState, SavePcs, AfterSave, InstallActivate, InstallPostHooks, Unwind, Commit, Abandon,
        ClearState, ClearPcs, AfterClear, RecordInstalled, DropLink, Kill, JournalCommits, Reboot, PowerCut,
        Restarts, Goto, Fail, installVars, vars
  <2>2. UNCHANGED <<board, art, link, got>> /\ Blameless
    BY <2>1, RefusalsBlame
  <2> QED  BY <2>2 DEF Blameless, Garbled
<1> QED  BY <1>1, <1>2

LEMMA CarriedInit == Init => Carried
<1>1. NoArtifact.stored = <<>> /\ NoArtifact.members = <<>>
  BY DEF NoArtifact
<1>2. Len(<<>>) = 0 /\ 0 \in 0..Cells
  BY CellsAssumption
<1> QED  BY <1>1, <1>2, NothingIsSequence DEF Init, WriterInit, Carried, Transferring, Gating

\* A device rejects an artifact only for what it is or for what the device is like,
\* unless the connection failed or changed it: what pack read back, signed since or not,
\* is installed wherever it is admitted, for every board, image, flag and artifact of
\* another tool (reader.go:58-85, 139-158; writer.go:146-177).
THEOREM NobodyIsBlamed == Spec => []BlamelessInstalls
<1>1. Init => Gated /\ Carried /\ SparseType /\ (pc = "rejected" => Blameless)
  BY GatedInit, CarriedInit, TypeStarts DEF Init
<1>2. Gated /\ Carried /\ SparseType /\ (pc = "rejected" => Blameless) /\ [Next]_vars
        => (Gated /\ Carried /\ SparseType /\ (pc = "rejected" => Blameless))'
  <2> SUFFICES ASSUME Gated, Carried, SparseType, pc = "rejected" => Blameless, [Next]_vars
               PROVE  (Gated /\ Carried /\ SparseType /\ (pc = "rejected" => Blameless))'
    OBVIOUS
  <2>1. SparseType'
    BY ImagesKeep
  <2> QED  BY <2>1, GatedKept, CarriedKept, BlameKept
<1>3. (pc = "rejected" => Blameless) => BlamelessInstalls
  BY DEF Blameless, Garbled, BlamelessInstalls
<1> QED  BY <1>1, <1>2, <1>3, PTL DEF Spec

---------------------------------------------------------------------------
(* Types. *)

\* A hook directory is left with its last entry or with the first that fails.
Hooked ==
    /\ pc \in Pcs
    /\ hook \in 0..(CASE pc = "pre"  -> Len(board.pre)
                     [] pc = "post" -> Len(board.post)
                     [] OTHER       -> 0)

LEMMA HooksRun ==
  ASSUME Hooked, board \in Boards, UNCHANGED board, InstallPreHooks \/ InstallPostHooks
  PROVE  Hooked'
<1>1. Len(board.pre) \in Nat /\ Len(board.post) \in Nat
  BY InputAssumption
<1>2. CASE InstallPreHooks
  BY <1>1, <1>2
  DEF InstallPreHooks, RunHooks, Goto, Fail, Hooked, Pcs, IdlePcs
<1>3. CASE InstallPostHooks
  BY <1>1, <1>3
  DEF InstallPostHooks, RunHooks, Goto, Hooked, Pcs, IdlePcs
<1> QED  BY <1>2, <1>3

LEMMA HookedKept ==
  ASSUME Gated, Hooked, [Next]_vars
  PROVE  Hooked'
<1> USE DEF Goto, Fail, Refuse
<1>1. board \in Boards /\ UNCHANGED board
  BY BoardStays DEF Gated
<1>2. Len(board.pre) \in Nat /\ Len(board.post) \in Nat
  BY <1>1, InputAssumption
<1>3. CASE UNCHANGED <<pc, hook>>
  BY <1>1, <1>3 DEF Hooked
<1>4. CASE InstallPreHooks \/ InstallPostHooks
  BY <1>1, <1>4, HooksRun
<1>5. CASE hook' = 0 /\ pc' \in Pcs
  BY <1>1, <1>2, <1>5 DEF Hooked
<1>6. CASE hook' = hook /\ pc \notin {"pre", "post"} /\ pc' \in Pcs
  <2>1. hook = 0
    BY <1>6 DEF Hooked
  <2> QED  BY <1>5, <1>6, <2>1
<1>7. CASE InstallPayload \/ InstallWrite \/ InstallSync \/ InstallVerify \/ InstallOpen \/ InstallGates
           \/ InstallActivate \/ Unwind \/ ClearState \/ RecordInstalled \/ \E p \in Procs : SaveState(p)
  <2>1. hook' = hook /\ pc \notin {"pre", "post"}
    BY <1>7
    DEF InstallPayload, InstallWrite, InstallSync, InstallVerify, InstallOpen, InstallGates,
        InstallActivate, Unwind, ClearState, ClearPcs, RecordInstalled, SaveState, SavePcs
  <2>2. /\ pc \in SavePcs => AfterSave[pc] \in Pcs
        /\ pc \in ClearPcs => AfterClear[pc] \in Pcs
    BY DEF SavePcs, ClearPcs, AfterSave, AfterClear, Pcs, IdlePcs
  <2>3. ClearState \/ (\E p \in Procs : SaveState(p)) => pc' \in Pcs
    BY <2>2 DEF ClearState, SaveState, Pcs, IdlePcs
  <2>4. InstallPayload \/ InstallWrite \/ InstallSync \/ InstallVerify \/ InstallOpen \/ InstallGates
        \/ InstallActivate \/ Unwind \/ RecordInstalled => pc' \in Pcs
    BY
    DEF InstallPayload, InstallWrite, InstallSync, InstallVerify, InstallOpen, InstallGates,
        InstallActivate, Unwind, RecordInstalled, Pcs, IdlePcs, SavePcs, ClearPcs
  <2>5. pc' \in Pcs
    BY <1>7, <2>3, <2>4
  <2> QED  BY <1>6, <2>1, <2>5
<1>8. CASE InstallStart \/ Commit \/ Abandon \/ Kill \/ Restarts
  <2>1. hook' = 0 /\ pc' \in Pcs
    BY <1>8 DEF InstallStart, Commit, Abandon, Kill, Restarts, Pcs, IdlePcs, SavePcs, ClearPcs
  <2> QED  BY <1>5, <2>1
<1> QED
  BY <1>3, <1>4, <1>7, <1>8
  DEF Next, HostStep, Publish, Sign, DropLink, JournalCommits, Reboot, PowerCut, installVars, vars

\* Every variable keeps its type, for any boards, artifacts, images and sizes: the page
\* cache is never ahead of the slot's end, a hook directory is not read past its end,
\* and only a call that saves a record has a saver.
THEOREM DeliveryTypeCorrect ==
  ASSUME TakeTurns
  PROVE  Spec => []TypeOK
<1> DEFINE Inv == DeliveryInv /\ Reporting /\ Gated /\ Carried /\ SparseType /\ Hooked
<1>1. Init => Inv
  <2>1. Init => Hooked
    BY DEF Init, Hooked, Pcs, IdlePcs
  <2>2. Init => Reporting
    BY DEF Init, RecordInit, Reporting, Saving, NotSaving
  <2> QED  BY <2>1, <2>2, DeliveryInit, GatedInit, CarriedInit, TypeStarts DEF Init
<1>2. Inv /\ [Next]_vars => Inv'
  BY DeliveryStep, ReportingKept, GatedKept, CarriedKept, ImagesKeep, HookedKept
<1>3. Inv => TypeOK
  BY DEF DeliveryInv, RecordInv, Shape, Reporting, Gated, Carried, SparseType, Hooked, TypeOK
<1> QED  BY <1>1, <1>2, <1>3, PTL DEF Spec
=============================================================================
