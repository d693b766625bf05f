------------------------------ MODULE Delivery ------------------------------
(***************************************************************************)
(* An update on its way from the build host to the slot a board boots:     *)
(* pack expands and stores the image, a device checks the artifact against *)
(* itself, runs its hooks, streams the payload onto the slot that does not *)
(* run, saves the record and has the slot tried.  The connection may fail  *)
(* or damage what it carries, calls may fail, the process may be killed    *)
(* and the power may go at any point.                                      *)
(*                                                                         *)
(* TrialUpdate has the verbs' interplay in full.  Here one verb runs at a  *)
(* time, install is opened up and the others are what ends an update;      *)
(* PrepareTarget and SwapSlot are one step, and the boot loader tries the  *)
(* slot or falls back.                                                     *)
(***************************************************************************)
EXTENDS SlotWriter, Sparse, RecordFile, History

CONSTANTS Boards,        \* what a board may be like
          PackOptions,   \* the flags pack may be given
          Foreign,       \* artifacts of other tools
          MaxInstalls(_, _)   \* bound: how often an artifact is tried on a board

ASSUME DeliveryAssumption == Cardinality(Procs) = 1

VARIABLES board,         \* the device: its configuration, hooks and platform
          art,           \* the artifact that was published for it
          pc,            \* the call the running verb makes next
          hook,          \* how many entries of the hook directory were seen
          home,          \* the slot the board boots for good
          armed,         \* is the other slot on trial?
          running,       \* the running slot
          installs,      \* installs started
          commits        \* what was committed since the last power cut or kill

boardVars  == <<home, armed, running>>
installVars == <<board, art, pc, hook, installs>>
vars == <<fileVars, sparseVars, writerVars, history, historyKept,
          installVars, boardVars, commits>>

Connectors == {"tegrauefi", "ubootenv", "grubenv"}
HookKinds == {"pass", "fail", "plain", "dir"}   \* executable or not, or a directory

ASSUME InputAssumption ==
    /\ \A b \in Boards : /\ b.detected \subseteq Connectors
                         /\ b.tool \in Seq(Nat)
                         /\ b.pre \in Seq(HookKinds) /\ b.post \in Seq(HookKinds)
    /\ \A o \in PackOptions : o.min \in Seq(Nat)
    /\ \A a \in Foreign : /\ a.manifest.min \in Seq(Nat)
                          /\ IsSequence(a.members) /\ IsSequence(a.stored)

IdlePcs == {"idle", "done", "rejected", "failed"}
SavePcs == {"save_written", "save_swapped", "save_failed"}
ClearPcs == {"u_clear", "c_clear", "r_clear"}
Pcs == IdlePcs \cup SavePcs \cup ClearPcs \cup
       {"open", "gates", "pre", "payload", "write", "sync", "verify", "activate",
        "post", "unwind", "c_append"}

Other(s) == IF s = "A" THEN "B" ELSE "A"

Record == ReadBack(name, data)
Target == Other(running)

TypeOK ==
    /\ RecordTypeOK
    /\ board \in Boards /\ pc \in Pcs /\ installs \in Nat
    /\ hook \in 0..(CASE pc = "pre"  -> Len(board.pre)
                     [] pc = "post" -> Len(board.post)
                     [] OTHER       -> 0)
    /\ {home, running} \subseteq SlotNames /\ armed \in BOOLEAN
    /\ sent \in 0..Cells /\ link \in {"up", "down"}
    /\ rem \in Int
    /\ verdict \in {"none", "reading", "eof", "error"}
    /\ \A p \in Procs : Saving(p) => pc \in SavePcs

Init ==
    /\ RecordInit /\ SparseInit /\ WriterInit /\ HistoryInit
    /\ board \in Boards /\ art = NoArtifact
    /\ pc = "idle" /\ hook = 0 /\ installs = 0
    /\ home = "A" /\ armed = FALSE /\ running = "A"
    /\ commits = <<>>

Goto(l) == pc' = l
KeepInstall == UNCHANGED <<board, art, installs>>
KeepRest == UNCHANGED <<sparseVars, history, historyKept, commits>>

---------------------------------------------------------------------------
(* The build host. *)

Cooked(units) == [i \in DOMAIN units |-> units[i].v]

HostStep(step) ==
    /\ art = NoArtifact
    /\ step
    /\ UNCHANGED <<fileVars, writerVars, history, historyKept, installVars, boardVars, commits>>

\* cmdPack: without --no-verify what cannot be read back is removed again.
PackImage ==
    /\ verdict = "eof"
    /\ \E o \in PackOptions : LET a == Pack(Cooked(out), o) IN
          art' = IF Validate(a.manifest) /\ (o.verify => VerifyPacked(a)) THEN a ELSE NoArtifact

Publish ==
    /\ art = NoArtifact
    /\ \/ PackImage
       \/ verdict = "error" /\ UNCHANGED art
       \/ verdict = "none" /\ art' \in Foreign
    /\ src' = NoFile /\ in' = <<>> /\ left' = 0 /\ chunk' = NoChunk /\ rem' = 0
    /\ out' = <<>> /\ verdict' = "none"
    /\ UNCHANGED <<fileVars, writerVars, history, historyKept, board, pc, hook, installs,
                   boardVars, commits>>

Sign ==
    /\ installs = 0 /\ art # NoArtifact /\ SignatureName \notin {art.members[i] : i \in DOMAIN art.members}
    /\ art' = Signed(art)
    /\ UNCHANGED <<fileVars, sparseVars, writerVars, history, historyKept, board, pc, hook,
                   installs, boardVars, commits>>

---------------------------------------------------------------------------
(* install *)

\* Select: the configured connector must be built in; else exactly one detects.
Selects(b) == IF b.explicit # "" THEN b.explicit \in Connectors ELSE Cardinality(b.detected) = 1

\* The caller reboots when he was told to before he installs again.
InstallStart ==
    /\ pc \in IdlePcs /\ art # NoArtifact /\ installs < MaxInstalls(board, art)
    /\ running = home /\ ~armed /\ Record = Absent
    /\ installs' = installs + 1
    /\ Goto(IF Selects(board) THEN "open" ELSE "failed")
    /\ hook' = 0 /\ NoTransfer
    /\ UNCHANGED <<fileVars, board, art, boardVars, cache, medium>> /\ KeepRest

Refuse == Goto("rejected")
Fail   == Goto("failed")

\* A step of install that touches neither the slots nor the record.
Looks == UNCHANGED <<fileVars, boardVars, writerVars>> /\ KeepInstall /\ KeepRest

InstallOpen ==
    /\ pc = "open"
    /\ IF link = "up" /\ art.first /\ Validate(art.manifest) THEN Goto("gates") ELSE Refuse
    /\ UNCHANGED hook /\ Looks

\* Device type, tool version, the slot lookup (which may fail), the connector's
\* preflight, the slot's capacity.
InstallGates ==
    /\ pc = "gates"
    /\ LET m == art.manifest IN
          \/ board.device = "" /\ Fail
          \/ /\ board.device # ""
             /\ IF CompatibleWith(m, board.device) /\ VersionAtLeast(board.tool, m.min)
                THEN \/ Fail
                     \/ IF board.ready /\ (board.sized => m.size <= Cells)
                        THEN Goto("pre") ELSE Refuse
                ELSE Refuse
    /\ UNCHANGED hook /\ Looks

\* Fault variant: the verdict is the last hook's.
RunHooksLast(hooks, passed, refused) ==
    IF hook = Len(hooks) THEN hook' = 0 /\ passed
    ELSE IF hook + 1 = Len(hooks) /\ hooks[hook + 1] = "fail" THEN hook' = 0 /\ refused
    ELSE hook' = hook + 1 /\ UNCHANGED pc

\* runHooks: executables in lexical order, up to the first that fails; a directory
\* that is there and cannot be read fails before the first.
RunHooks(hooks, passed, refused) ==
    \/ hook = 0 /\ hook' = 0 /\ refused
    \/ IF hook = Len(hooks) THEN hook' = 0 /\ passed
       ELSE IF hooks[hook + 1] = "fail" THEN hook' = 0 /\ refused
       ELSE hook' = hook + 1 /\ UNCHANGED pc

InstallPreHooks ==
    /\ pc = "pre"
    /\ RunHooks(board.pre, Goto("payload"), Fail)
    /\ Looks

InstallPayload ==
    /\ pc = "payload"
    /\ IF link = "up" /\ FindsPayload(art.manifest, art.members) THEN Goto("write") ELSE Refuse
    /\ UNCHANGED hook /\ Looks

\* The journal of the record's file system commits every few seconds, a slot takes
\* minutes to write: by then the directory is durable.
JournalSettled == keptName = name

InstallWrite ==
    /\ pc = "write" /\ JournalSettled
    /\ \/ \E damaged \in BOOLEAN : ReadBlock(Target, art, damaged) /\ UNCHANGED pc
       \/ WriteFails(art) /\ Fail /\ UNCHANGED writerVars
       \/ Flush(Target, art) /\ Goto("sync")
    /\ UNCHANGED <<fileVars, hook, boardVars>> /\ KeepInstall /\ KeepRest

InstallSync ==
    /\ pc = "sync"
    /\ \/ Sync(Target) /\ Goto("verify")
       \/ Fail /\ UNCHANGED writerVars
    /\ UNCHANGED <<fileVars, hook, boardVars>> /\ KeepInstall /\ KeepRest

InstallVerify ==
    /\ pc = "verify"
    /\ LET m == art.manifest IN
          IF SizeMatches(m, Image(art)) /\ VerifyPayloadDigests(m, Image(art), got)
          THEN Goto("save_written") ELSE Refuse
    /\ UNCHANGED hook /\ Looks

\* SaveState, of install's two records and of a commit that failed.
SavedDoc == CASE pc = "save_written" -> [phase |-> "written", target |-> Target]
              [] pc = "save_swapped" -> [phase |-> "swapped", target |-> Target]
              [] pc = "save_failed"  -> [Record EXCEPT !.phase = "failed"]

AfterSave == [save_written |-> "activate", save_swapped |-> "post", save_failed |-> "idle"]

SaveState(p) ==
    /\ pc \in SavePcs
    /\ \/ SaveOpen(p, SavedDoc) /\ UNCHANGED pc
       \/ SaveWrite(p) /\ UNCHANGED pc
       \/ SaveSync(p) /\ UNCHANGED pc
       \/ SaveRename(p) /\ Goto(AfterSave[pc])
       \/ SaveStops(p) /\ Fail
    /\ UNCHANGED <<hook, boardVars, writerVars>> /\ KeepInstall /\ KeepRest

\* Fault variant: the slot is swapped and the record stays at written.
InstallActivateOnly ==
    /\ pc = "activate"
    /\ \/ armed' = TRUE /\ Goto("post")
       \/ Fail /\ UNCHANGED armed
    /\ UNCHANGED <<fileVars, hook, home, running, writerVars>> /\ KeepInstall /\ KeepRest

\* PrepareTarget and SwapSlot, or an error of either, before or after what arms.
InstallActivate ==
    /\ pc = "activate"
    /\ \/ armed' = TRUE /\ Goto("save_swapped")
       \/ Fail /\ (armed' = TRUE \/ UNCHANGED armed)
    /\ UNCHANGED <<fileVars, hook, home, running, writerVars>> /\ KeepInstall /\ KeepRest

InstallPostHooks ==
    /\ pc = "post"
    /\ RunHooks(board.post, Goto("done"), Goto("unwind"))
    /\ Looks

Unwind ==
    /\ pc = "unwind"
    /\ armed' = FALSE /\ Goto("u_clear")
    /\ UNCHANGED <<fileVars, hook, home, running, writerVars>> /\ KeepInstall /\ KeepRest

---------------------------------------------------------------------------
(* What ends an update. *)

Finds(phases) == pc \in IdlePcs /\ Record.phase \in phases

\* Commit confirms the slot it runs, or finds that the board fell back.
Commit ==
    /\ Finds({"swapped"})
    /\ IF running = Record.target
       THEN home' = running /\ armed' = FALSE /\ Goto("c_clear")
       ELSE Goto("save_failed") /\ UNCHANGED <<home, armed>>
    /\ hook' = 0 /\ NoTransfer
    /\ UNCHANGED <<fileVars, running, cache, medium>> /\ KeepInstall /\ KeepRest

\* rollback returns to the origin slot, mark-good stays on the running one.
Abandon ==
    /\ Finds({"written", "swapped", "failed"})
    /\ armed' = FALSE
    /\ home' \in {Other(Record.target), running}
    /\ Goto("r_clear")
    /\ hook' = 0 /\ NoTransfer
    /\ UNCHANGED <<fileVars, running, cache, medium>> /\ KeepInstall /\ KeepRest

AfterClear == [u_clear |-> "failed", c_clear |-> "c_append", r_clear |-> "idle"]

ClearState ==
    /\ pc \in ClearPcs
    /\ Clear
    /\ Goto(AfterClear[pc])
    /\ commits' = IF pc = "c_clear" THEN Append(commits, running) ELSE commits
    /\ UNCHANGED <<sparseVars, history, historyKept, hook, boardVars, writerVars>> /\ KeepInstall

\* A history that could not be written is logged and forgotten.
RecordInstalled ==
    /\ pc = "c_append"
    /\ \/ AppendInstalled(running) /\ UNCHANGED commits
       \/ UNCHANGED <<history, historyKept>> /\ commits' = <<>>
    /\ Goto("idle")
    /\ UNCHANGED <<fileVars, sparseVars, hook, boardVars, writerVars>> /\ KeepInstall

---------------------------------------------------------------------------
(* The environment. *)

DropLink ==
    /\ pc \in {"open", "payload", "write"} /\ LinkFails
    /\ UNCHANGED <<fileVars, hook, pc, boardVars>> /\ KeepInstall /\ KeepRest

Kill ==
    /\ pc \notin IdlePcs
    /\ Goto("idle") /\ hook' = 0 /\ NoTransfer
    /\ saver' = [p \in Procs |-> NotSaving]
    /\ commits' = IF pc = "c_append" THEN <<>> ELSE commits
    /\ UNCHANGED <<data, kept, name, keptName, tmp, sparseVars, history, historyKept,
                   board, art, installs, boardVars, cache, medium>>

JournalCommits ==
    /\ Writeback
    /\ UNCHANGED <<sparseVars, history, historyKept, installVars, boardVars, writerVars, commits>>

\* The next boot: a slot on trial is tried, or its attempts are spent.
BootNext ==
    \/ armed /\ running' = Other(home) /\ UNCHANGED armed
    \/ running' = home /\ armed' = FALSE

Restarts ==
    /\ art # NoArtifact
    /\ BootNext /\ UNCHANGED home
    /\ Goto("idle") /\ hook' = 0 /\ NoTransfer
    /\ UNCHANGED sparseVars /\ KeepInstall

Reboot ==
    /\ Restarts
    /\ SyncAll /\ saver' = [p \in Procs |-> NotSaving]
    /\ SyncHistory /\ SyncSlots /\ UNCHANGED cache
    /\ commits' = IF pc = "c_append" THEN <<>> ELSE commits

PowerCut ==
    /\ Restarts
    /\ LoseUnsynced /\ LoseHistory /\ CutSlots
    /\ commits' = <<>>

Next ==
    \/ \E f \in Images : HostStep(OpenImage(f))
    \/ HostStep(ReadImage) \/ Publish \/ Sign
    \/ InstallStart \/ InstallOpen \/ InstallGates \/ InstallPreHooks \/ InstallPayload
    \/ InstallWrite \/ InstallSync \/ InstallVerify
    \/ \E p \in Procs : SaveState(p)
    \/ InstallActivate \/ InstallPostHooks \/ Unwind
    \/ Commit \/ Abandon \/ ClearState \/ RecordInstalled
    \/ DropLink \/ Kill \/ JournalCommits \/ Reboot \/ PowerCut

Spec == Init /\ [][Next]_vars

---------------------------------------------------------------------------
(* Properties *)

\* Whichever slot the next boot may take is whole on the medium: the home slot holds
\* the system it had or the artifact's image, and a slot on trial the image of the
\* digest in the manifest, to its last cell (blockdev.go:26-30; engine.go:169).
BootsWhole ==
    LET whole(s) == Holds(medium[s], art.manifest.sha) IN
    /\ medium[home] = OldSlot \/ whole(home)
    /\ armed => whole(Other(home))

\* What a board requires of an artifact before its slot is touched, said once.
Admits(b, a) ==
    /\ b.explicit \in Connectors \/ (b.explicit = "" /\ \E c \in Connectors : b.detected = {c})
    /\ b.device \in a.manifest.devices
    /\ IsVersion(a.manifest.min) => IsVersion(b.tool) /\ NoOlder(b.tool, a.manifest.min)
    /\ b.ready
    /\ b.sized => a.manifest.size <= Cells
    /\ "fail" \notin {b.pre[i] : i \in DOMAIN b.pre}

\* A device that would refuse the artifact never has a cell of a slot changed by it
\* ("aborts the install with nothing changed", engine.go:128-130).
WriteGated == [][pc' # "idle" /\ cache' # cache => Admits(board, art)]_vars

\* The artifact as it was before a signing step added to it.
Unsigned(a) ==
    [manifest |-> a.manifest, first |-> a.first,
     members |-> IF a.members # <<>> /\ a.members[1] = SignatureName THEN Tail(a.members) ELSE a.members,
     stored |-> a.stored]

\* An artifact that pack read back, signed since or not, is never rejected by a
\* device it is for while the connection works: reader and writer agree on the format.
BlamelessInstalls ==
    pc = "rejected" => \/ link = "down" \/ Garble \in {got[i] : i \in DOMAIN got}
                       \/ ~Admits(board, art)
                       \/ ~VerifyPacked(Unsigned(art))

\* What install's exit tells its caller.  Done (0): the update is armed and recorded
\* as swapped.  Rejected (3): the artifact left neither record nor trial.  Failed (1):
\* what is armed has a record to roll it back by.
InstallReports ==
    [][/\ pc # "done" /\ pc' = "done" => armed /\ Record = [phase |-> "swapped", target |-> Target]
       /\ pc # "rejected" /\ pc' = "rejected" => ~armed /\ Record = Absent
       /\ pc # "failed" /\ pc' = "failed" /\ armed => Record # Absent]_vars

\* The history ends with what was committed, newest last, and is never longer than
\* its cap, whatever was there before (commit.go:304-313).
HistoryTrue ==
    pc # "c_append" =>
        LET n == Len(commits) IN
        /\ Len(history) <= HistoryCap
        /\ n > 0 /\ history # Unreadable =>
              /\ Len(history) > 0
              /\ \A k \in 0..(Len(history) - 1) :
                    k < n => history[Len(history) - k] = commits[n - k]
=============================================================================
