# wendyos-update in TLA+

`wendyos-update` is the A/B over-the-air updater of WendyOS devices: it streams
an image into the slot that is not running, has the boot loader or the firmware
try it, and commits it or lets the board fall back.  There is no daemon.  Every
verb is one short process, and what holds an update together is a small record
on disk, a handful of boot variables, two systemd units and a boot loader that
lives in another repository.  Any of those processes may be killed and the power
may go between any two of their calls; that is what these modules are about.

Paths below are relative to `src/`.  `PROJECT.json` maps every definition to the
lines it models and every run and theorem to what it shows.

## 1. The system

| Part | Code | State it keeps | Operations |
|---|---|---|---|
| update engine | `internal/engine/{engine,commit,state}.go` | nothing between calls | install, commit, rollback, switch, mark-good, verify-boot; status and check only read |
| pending-update record | `engine.go` LoadState, SaveState, ClearState | `/data/wendyos-update/state.json`: phase and target slot; its temporary file | load, save (temp file, fsync, rename), clear (unlink) |
| history | `commit.go` appendInstalled | `installed.json`, the last ten | append at commit |
| connector contract | `internal/connector/connector.go` | none | CurrentSlot, PartitionFor, PrepareTarget, SwapSlot, MarkGood, BootIsCompromised, Verify/AbortPlatformUpdate; optional ConfirmBoot and PreflightInstall |
| connector registry | `registry.go` | the compiled-in factories | select by name, or by exactly one detection |
| U-Boot connector | `ubootenv/` | `wendyos_boot_slot`, `wendyos_upgrade_available`, `bootcount` in U-Boot's environment | each method one `env.set` and a sync |
| GRUB connector | `grubenv/` | the same three names in `grubenv` | the same |
| Tegra connector | `tegrauefi/` | EFI variables (BootChainFw*, RootfsStatusSlot*, OsIndications), the capsule on the ESP, `bl-version-before` | methods of one to three writes, the capsule's life |
| slot and ESP resolution | `ubootenv.go`, `grubenv.go`, `storage.go`, `bootdisk.go` | the partition inventory of one command | which device is a slot, which slot runs, which ESP firmware reads |
| artifact format | `internal/artifact/` | none | manifest, payload stream, sparse expansion; writing on the build host |
| block writer | `internal/blockdev/` | the slot's content | stream, hash, fsync; topology of the root |
| hooks | `hooks.go` | none | executables per phase, a failing one fails the phase |
| units | `systemd/` | started once per boot | verify, then commit, then boot-complete |
| command line, log, slot info, diagnostics | `cmd/`, `internal/log/`, `slotinfo.go`, `*/diagnostics.go` | none | arguments, exit codes, display |

How they interact: the command line builds one engine with one connector and
calls one verb.  The engine saves the record, calls the connector, and saves
again; the connector writes boot variables; the boot loader or firmware reads
them at the next power-on and counts attempts; systemd then starts `verify-boot`
and after it `commit`, which find the record and ask the connector what booted.
All communication is by files and variables that outlive the writer.

What is hard here:

- **crashes**: the order record, boot variables, record decides what a power cut
  leaves behind, and neither rename nor unlink is followed by a sync of the
  directory;
- **interleaving**: there is no lock; the commit unit runs while an operator or
  agent may roll back, mark good or install;
- **partial failure**: several steps log an error and go on (MarkGood in commit,
  every step of the unwind), Tegra's methods are several writes, and a payload may
  end early, arrive damaged or be cut after it left the write buffer;
- **stale state**: verdicts from an earlier attempt (ESRT, saved version), a
  record loaded before another verb changed it, an inventory read before a disk
  was plugged in, a preflight that judges by the running image;
- **the other actor**: the boot loader that counts, falls back, flags slots and
  judges boot-chain switches between two runs of our code.

What makes each part correct:

- engine with a trial-boot board: the fallback slot always boots; a trial is
  never armed without a record on the medium, nor for an unverified image;
  commit is final; a failed deployment stays failed; unwind and rollback leave a
  slot that boots; the board always comes back; updates come to an end;
- Tegra: there is always a slot that boots and that firmware will still boot; a
  reported install is really tried; rollback and unwind are what boots next; a
  bootloader update is accepted when it was applied and only then; no healthy
  boot is left to the watchdog;
- delivery: what boots is whole to its last byte on the medium; no slot is
  written by an artifact that a gate refuses; what pack publishes its own reader
  takes; a sparse image expands to what it stands for; exit codes and history tell
  the truth; the record's file is never half a document;
- resolution: an install writes the spare slot of the disk that booted, however
  many labels updates have wiped and whatever disk is plugged in; a capsule goes
  where firmware looks.

## 2. The modules

    StateFile -- TrialEnv --+
        |                   +-- TrialUpdate == implements ==> ABDevice
        +------- Engine ----+        |
        |          |            MCTrialUpdate
        +------- TegraBoot -+-- TegraUpdate -- MCTegraUpdate

    RecordFile == implements ==> StateFile
        |
        +-- Delivery -- MCDelivery
        |
    Artifact -- SlotWriter, Sparse, History

    Disks -- TrialSlots, TegraSlots -- SlotResolve -- MCSlotResolve

    EngineProofs -- TrialUpdateProofs -- RecoverableProofs
        +---------- TegraProofs -- TegraOutcomeProofs
    DeliveryPartsProofs -- DeliveryProofs     SlotResolveProofs

**StateFile** is the record.  `state` is what LoadState returns and `disk` what
the medium holds; SaveFile and ClearFile change the first, and the second only
when the file system keeps renames (`LazyRename = FALSE`) or after a sync.  Name,
version, digest and time are never tested by the code and are left out.

**Engine** has one action per call that reads or writes shared state, for every
verb, in the order of the code: `InstallStart, InstallWrite, InstallVerify,
InstallSave, InstallPrepare, InstallSwap, InstallMark, InstallPost`, the three
`Unwind...` steps, and so on.  `pc[p]` is the call process `p` makes next, and
`rec[p]` the State it holds in memory.  A step that calls the connector takes its
outcome and leaves the connector's variables to the composing module.  A slot's
content is "good", "bad" (written and verified, never reaches userspace) or
"torn".  A hook phase passes or fails.  A refusal that changes nothing is no step.

**TrialEnv** is both trial-boot connectors.  ubootenv and grubenv are separate
packages with the same contract and the same three variables; their PrepareTarget,
SwapSlot and MarkGood write the same values, so one definition stands for both,
and its mapped lines name one of the two.  GRUB has a limit of one attempt,
U-Boot one from its environment: both are `BootLimit`.  The boot script is
external: it counts an attempt of an armed trial, and past the limit takes the
other slot without rewriting `wendyos_boot_slot`.  `bootMounted` is whether /boot
is mounted: only SwapSlot asks.

**TrialUpdate** composes the two with boots, orderly reboots, power cuts (also
inside `env.set`, between the write and its sync), kills and writeback.  A failed
call returns an error with the environment as it was; the faults a configuration
allows are named in `Faults`.

**ABDevice** is what an A/B updater promises, in four variables: the running
slot, the home slot that the board falls back to, whether the other one is on
trial, and which slots boot.  TrialUpdate implements it under the mapping
home = Fallback, trial = armed, sound = the slots whose content is good.

**TegraBoot** is the Tegra connector and the firmware.  Boot chain and rootfs slot
are coupled, so a chain is named by its slot.  Methods of several writes take the
number of writes done; the verdict of a bootloader update takes the set of things
that could be read.  `effective` says whether the SoC processes capsules.
`staged` is the capsule on the ESP: absent, "loose" after its rename and "kept"
after the syncfs that follows.  A reboot without a sync takes a loose one away.
**TegraUpdate** composes it with the engine, adds `confirmBoot` to the verifier,
and has the boot-validation watchdog and the firmware's retry budget.

**RecordFile** opens SaveState and ClearState up: `state.json` and
`state.json.tmp` are names of inodes, and an inode has what a process reads and
what the medium holds.  A saver opens and truncates, writes, syncs and renames;
a power cut may keep any of what was not synced.  With `TakeTurns` one saver waits
for another, which is how one command line at a time behaves; without it they
overlap, as the code allows.  `RecordAtomic` says that, seen through LoadState,
this is StateFile with lazy renames, which is why the other modules may take a
save for one step.

**Artifact, Sparse, SlotWriter, History** are the parts of **Delivery**.
Artifact is what pack makes of an image and what a reader requires: manifest,
member order and names, the two digests, the version gate.  A digest is the
content it is of, a compressed stream is its cells between a head and a checksum.
Sparse is the chunk reader, one Read at a time into whatever buffer its caller
has, with integers that hold `Half` numbers from zero up; `Expansion` is the
reference it must agree with.
SlotWriter takes the payload from the connection through decoder, write buffer
and page cache to the medium, cell by cell; a cut leaves each unsynced cell old or
new.  History is `installed.json`.

**Delivery** composes them with RecordFile: pack and its read-back on the build
host, a signature added afterwards, artifacts of other tools, the choice of the
connector, every gate of install in its order, the hook directories entry by
entry, the stream, the record, and commit or rollback.  TrialUpdate has the
interplay of verbs in full; here one verb runs at a time, PrepareTarget and
SwapSlot are one step, and the slot on trial is booted or falls back.

**Disks, TrialSlots, TegraSlots, SlotResolve** are slot resolution.  A partition is
a disk, a number, a name in the table and a file-system label.  A write may take
the label away.  TrialSlots answers as ubootenv and grubenv do (own disk first,
global links last), TegraSlots as tegrauefi does (unique on the root's disk or an
error).  SlotResolve runs installs over them on a board whose second disk is
plugged in and pulled out, whose ESPs are mounted by others, and which reboots
into either slot.  `Boards` are the kinds of board, `OtherDisks` the disks that
may be plugged in: any set of partition inventories.

## 3. What the runs check

| Run | Instance | Shows |
|---|---|---|
| `trial` | one process, limit 2, every noticed failure, kills, power cuts | the type invariant; TrialVerified and the inductive RecoverableInv; CommitSticks, UnwindClean, RefusedNotBooted; ComesBack; TrialUpdate implements ABDevice |
| `faulty` | one process, every fault, the silent ones too, renames and unlinks may be lost | FailedStays; PendingResolved: once calls stop failing, committed, rolled back or marked failed |
| `race` | two processes that interleave call by call | Recoverable, SettledStays, NoOrphanTrial, TrialBacked, RollbackReturnsGood survive any interleaving of commit, rollback, mark-good and the units |
| `tegra` | one process, kills, failing swap and abort, boots cut short | Eligible, ArmedIsDurable, InstallTakes, RollbackHolds, UnwindHolds, FailedStays, JudgedRight |
| `tegra_live` | one process, calls succeed, power cuts | BootConfirmed, NoOrphanSwitch, CommitSticks, ComesBack, PendingResolved |
| `slots` | five kinds of board, second disk (one of four) coming and going | WritesSpare, StaysResolvable, CapsuleFound |
| `delivery` | 19 images, 4 ways to pack them, 25 artifacts of other tools, 10 boards | BootsWhole, WriteGated, BlamelessInstalls, PackedIsRaw, InstallReports, HistoryTrue, RecordAtomic |

Five more runs each show one place where the program does not do what its
comments or documents say; TLC prints the steps.

- `f_commit_sticks`: commit logs a failing MarkGood and removes the record, so
  the next boots fall back from an update that was reported committed
  (`commit.go:101-105`).
- `f_tegra_record`: on Tegra nothing syncs the record's directory, and the
  boot-chain request may outlive the record (`engine.go:378`,
  `swap-slot.go:316-317`).
- `f_tegra_markgood`: mark-good removes the record of an install that stopped at
  the swap and leaves the request for the other slot (`engine.go:195,321`).
- `f_shared_tmp`: every save uses the one temporary name, so a save that runs
  beside another may publish a file that does not parse (`engine.go:350,359`).
- `f_wrong_disk`: PartitionFor misses a name on the boot disk and falls through to
  a link that may be another disk's (`ubootenv.go:413-425`).

### Bounds, and why they suffice

- Two slots is the program's own number.  `BootLimit` 2 makes "one attempt left"
  and "past the limit" different states, 1 is GRUB's and is used where the number
  plays no part.  `Retries` is 2 for the 3 of the boards: first, last and spent
  attempt differ already at 2.
- Two processes: the record and the environment are single registers, and every
  race found takes one loader and one writer.  The theorems of section 4 are for
  any number of processes, unless they say "one at a time".
- One board life is unbounded: the core runs explore every reachable state, with
  any number of updates, boots and power cuts.  Nothing needs a step counter.
- Bootloader versions are two, which tells "changed" from "unchanged".
- Disks: three partitions on each of two disks; the other disk is a flashed GPT
  disk, a flashed MBR disk, a stick with an ESP or an odd one that has a slot's
  name twice.  The theorems are for any other disk.  Boot orders are those of at
  most one option per disk.
- Delivery: a slot of two cells has a first, a last and a torn middle, images are
  of zero to three cells, so one fits short, one exactly, one not.  A fill pattern
  of two units can be cut between two Reads, a field of three bits is small enough
  for every boundary of a product of two to be met.  The history's cap is 2 for
  its 10.  Three inodes are the record, its successor and one a cut may bring
  back.  `MaxInstalls` bounds how often an artifact is tried: the ordinary
  artifact on the ordinary board three times (which fills the history past its
  cap), an odd artifact on the ordinary board and an odd board with the ordinary
  artifact once, since a gate looks at nothing earlier installs leave behind.
- A process starts a verb only when idle, and `Promises` says what the caller
  undertakes.  "install_alone" is that install and switch run with no other verb,
  which the program does not enforce (see 5); "reboot_first" is that the caller
  obeys "reboot required" before the next install.

Deadlock is checked everywhere but in `tegra_live`, where a Jetson with both slots
spent is really dead.

### Fairness

Weak fairness only, of what runs by itself: the powered board boots (WF of Boot,
each attempt included), the watchdog fires, a started process makes its next
call, systemd starts the enabled units, and a caller who was told to reboot does
(`WF(Reboot /\ rebootDue)`, the contract of exit code and `reboot_required` in
`docs/cli-contract.md`).  No verb is fair: an operator need not act.

PendingResolved on the trial boards (`faulty`) is for a board that has lived
through any failures and cuts and then becomes calm (`Quiet`): from some point on
no call fails, the board goes down only when no verb runs and its units are done,
and it does go down now and then.  Without the last, a board that nobody reboots
keeps a record that its units could not end at their one start of this boot.  On
the Jetson (`tegra_live`) it is for steady power instead (`SteadyPower`: the board
goes down only for a due reboot, or by the watchdog).

### Assumptions that restrict the runs

- `trial` and `race` leave out failures no verb notices ("markgood", "unwind",
  "mount"); `faulty` has them.  `race` also leaves out a failing removal of the
  record.  What breaks with them is in 5.
- `trial` and `race` are for file systems that keep renames and unlinks.  With a
  lost unlink the record of a finished update comes back, and after the next
  install has begun to write the other slot, rolling that record back selects a
  torn slot: Recoverable and RollbackReturnsGood do not hold there.  NoOrphanTrial
  and TrialBacked do hold, which the theorems say.
- In Delivery such a record is durably gone before a slot is written
  (`JournalSettled`): a journal commits every few seconds and a stream takes
  minutes.  It is an assumption on time, not something the code enforces.
- The Tegra runs leave out boots that are cut short on a slot's last attempt and,
  except with "early", all boots cut short before they are confirmed; the faults
  "read", "confirm" and "flag" are defined and no Tegra run uses them, because the
  code documents that it then assumes success.
- The Tegra model has no writeback of the record of its own: on a file system that
  loses renames only an orderly reboot makes it durable.  The passing Tegra runs
  are for file systems that keep them; `f_tegra_record` is not.  The ESP, which is
  VFAT, always may lose a capsule that was not synced.
- A verb that is killed gives its caller no answer; the caller is taken to reboot
  before the next verb (`rebootDue` in both Kill actions).  A Jetson verb is killed
  only on a boot that is confirmed, or with "early" on one that has attempts left.
- The Tegra runs need the verify and the commit unit enabled.  An image may mask
  them (`docs/cli-contract.md:98-103`).  With no verify unit nobody need confirm a
  boot before the watchdog ends it: Eligible and BootConfirmed assume it.  With
  neither unit a swapped record waits for an operator: PendingResolved assumes both.
- The firmware reports a capsule as applied or as failed.  A status the code does
  not know counts as "it booted" (`verify.go:137-139`), which in Verdict is the same
  as success; a failed capsule that is reported by such a status is not in the runs.
- `bl-version-before` is durable as soon as it is written (`swap-slot.go:129-137`
  does not sync it); where it is lost, Verdict goes on to the ESRT as it does when
  none was saved.  BootNext, which Stage's idle test also asks for, is not modelled.
- RootfsRedundancyLevel is taken for armed.  `boot_attempted` is written and
  removed and nothing reads it.
- `slots` has lsblk fail only where no second disk is present; the mishaps
  "no spare" (the boot disk has one slot) and "lsblk" (a failure beside a second
  disk) are the ones under which WritesSpare does not hold.  On a Jetson whose
  partition names cannot be read the firmware is taken to report the slot that
  booted: there the code has nothing to compare it with.
- `switch` is asked only for a slot that boots, its documented precondition.
- In Delivery the unwind's own swap succeeds; TrialUpdate and TegraUpdate have it
  fail.  A failing swap of install itself may have armed the trial or not.
- A sparse image is what follows its file header: the skip of a header's longer tail
  (`sparse.go:106-110`) is left out.
- Two contents never share a digest, and a damaged compressed stream always shows
  at its checksum.  PackedIsRaw is for sparse images whose headers agree with
  their chunks; BlamelessInstalls for artifacts that pack read back.

## 4. What is proved

All theorems are checked by TLAPS for every value of the constants that meets
their assumptions.

Several invariants say of each process what it counts on at its next call.  With
more than one process that is stable only because of what the caller undertakes:
`InstallsAlone` is that install and switch run with no other verb, or that there
is one process.  commit, rollback, mark-good and the units may then run beside
each other in any number.  `OneAtATime` is the stronger promise of one process.

`EngineProofs` has no theorem of its own: types of the engine's variables, what a
step of one process leaves alone, and two invariants the board models share.
`OneUpdate` says that, with installs alone, whoever is at work is at work on the
one update there is, and that an install is disturbed by nobody; `Unfailed` that,
with one process, a failed update is in nobody's hands.

`TrialUpdateProofs`
- **TypeCorrect**: `Spec => []TypeOK`, with no assumption beyond the constants'.
- **NoOrphan**, **BackedByRecord**: `[]NoOrphanTrial` and `[]TrialBacked`, also
  when renames are lost, under `InstallsAlone` and if no connector failure goes
  unseen (`NoUnseenFailure`: no "markgood", "unwind" or "mount").  NoOrphanTrial
  is not inductive: it says nothing of a process that is about to arm, or about to
  remove the record.  `TrialBacked` adds that the record is visible before
  PrepareTarget, durable before SwapSlot, and that whoever is about to clear it has
  just disarmed the trial.
- **OnlyVerifiedTried**: `[]TrialVerified` under the same assumptions.  Its
  invariant, `Verified`, says that no slot is being written while a record, and so
  a trial, may be there, and that whoever prepares the swap has a whole slot.

`RecoverableProofs`, under `Prudent`: installs alone, a caller who reboots when
told to, a file system that keeps renames, no unseen failure, and a record that can
be removed unless there is one process (a commit that fails to remove its record
leaves it to a rollback that runs beside it)
- **NeverStranded**: `[]Recoverable`.  **SettledBoardStays**: `[]SettledStays`.
  **UnwindIsClean**: `UnwindClean`.  **RollbackIsGood**: `RollbackReturnsGood`.
  **RefusedIsNotBooted**: `RefusedNotBooted`.  **CommitIsFinal**: `CommitSticks`,
  one process at a time: beside a rollback it need not hold.
  **VerbsRely**: `[]RecoverableInv`, the invariant the others share.
  Recoverable alone is not inductive, because install writes the slot that does not
  run, and that is not the fallback slot only because a settled board stays where it
  is; SettledStays alone is not, because it holds only if every verb leaves the
  right slot pinned.  `BoardSafe` ties the two together, with the slot every record
  would be rolled back to, and counts a rollback that has swapped and not yet
  returned among the reboots owed (`Owed`).  `CountsOn(p)` is what install and
  switch rely on, `Shares(p)` the weaker thing that verbs which end an update can
  rely on beside each other: the records they hold are of one update, whose way back
  boots.  `trial` checks RecoverableInv with TLC for one process.
- **PromiseKept**: `KeepsABPromise`, the refinement of ABDevice.  The initial states
  map, and every step of the engine, the boot loader and the power is a step of
  ABDevice or leaves it as it is.  The fairness of ABDevice, `Device!ABFair`, that
  the device comes up again, is a hypothesis of the theorem: it does not follow
  without ENABLED.  The run `trial` checks all of KeepsABPromise from TrialUpdate's
  own fairness, with no such hypothesis.
- **HomeIsSound**: what the promise is worth.  From the abstract steps alone the
  home slot always boots.
- **FailedIsFinal**: `FailedStays`, which asks only for one process at a time: all
  faults, lost renames and power cuts are allowed.  The invariant is `Unfailed`.

`TegraProofs`
- **TegraTypeCorrect**: `[]TypeOK`.  **CapsuleIsDurable**: `[]ArmedIsDurable`.
  Neither assumes anything: whatever fails, is killed or cut, the firmware is never
  told to read a capsule that a restart without a sync could take.
- **AlwaysEligible**: `[]Eligible`, if the verifier's unit is enabled, its
  confirmation works and the firmware flags no slot it boots (`Answered`).
  `Trusted` says that the running slot boots, is not flagged, has attempts left or
  a verifier still to come, and that every install aims at the other one.
- **WatchdogContent**: `[]BootConfirmed`, if also not both kills and boots cut
  short are possible: a verifier killed in a boot that began with a reduced budget
  leaves it reduced.  `Budgeted` is `Trusted` for the full budget.
- **RollbackIsNext**: `RollbackHolds`, with installs alone and under every fault,
  and **UnwindIsNext**: `UnwindHolds`, if also the unwind's own swap does not fail.
  `Pointed` says that whoever is about to remove the record has the firmware's
  next choice pointed where it should, with no capsule that changes it.
- **InstallIsTried**: `InstallTakes`, with installs alone and under `Answered`.
  `Tried` follows flag, capsule and request through the calls of install;
  `Accounted` says that a slot with no attempts left is flagged, or is the
  firmware's next choice.  Without it PrepareTarget, which resets a slot only when
  it is flagged, might leave a spent one spent.
- **TegraFailedIsFinal**: `FailedStays`, for one process at a time.

`TegraOutcomeProofs`, under `Sober`: installs alone, `Answered`, and renames that
last.  `Sourced` is behind all three: the record is durable, the slot every update
came from boots and is not given up, and a request names a slot that can be tried,
that runs or that is being tried.
- **VerdictIsRight**: `JudgedRight`.  `Judgeable` says that a swapped record is of
  a bootloader update that was applied, or that waits on the slot it was staged
  from; so whoever comes up on the target finds it applied.
- **SwitchIsRecorded**: `[]NoOrphanSwitch`, for one process whose saves, removals,
  swaps and unwinds do not fail.  `Homed` says that a board that is up boots what
  it runs, unless a verb has the request in hand, with its record, or its caller
  owes a reboot.
- **CommittedBootsNext**: `CommitSticks`, for one process that is not killed and
  whose removals do not fail.  `Settling` says that who runs an update on trial, or
  commits it, boots it again until a rollback says otherwise.

  These hypotheses were found with TLC.  It has NoOrphanSwitch violated when any of
  save, removal, swap, unwind or confirmation may fail, or with two processes;
  CommitSticks when removal or confirmation may fail, with kills, with lost renames
  or with two processes; JudgedRight when the confirmation may fail or renames be
  lost.  Section 5 says what happens then.

`DeliveryPartsProofs`, about the modules that Delivery is composed of
- **AtomicInTurns**: `RecordSpec => RecordAtomic`, the refinement of StateFile by
  SaveState's system calls when savers take turns.  `RecordInv` says which inode
  is published, that what it holds was synced, and that the temporary file is
  nobody else's.  Without turns it is false, as `f_shared_tmp` shows.
- **NewerToolInstalls**, **ToolsCompare**: `VersionAtLeast` is transitive and total
  on versions of three numbers, so an upgrade of the tool never loses an
  artifact.
- **PackedReadsBack**: `VerifyPacked(Pack(image, o))` for every image and
  compression and at least one device, with a signature in front or not, exactly
  when the image's file name leaves the payload a name that is not the signature's.
  So the file of section 5 that is called `manifest.sig` is, of those with a name,
  the only one that pack's read-back turns away.
- Without a theorem of its own: the sparse reader's invariant `SparseInv` and its
  type `SparseType`, and what they rest on about sequences.  SparseInv says, for a
  file whose headers agree with its chunks, that what was written, what the current
  chunk still owes and what the chunks to come stand for, joined, are the image, and
  that what is left of the file is what those chunks are read from; for a fill, also
  at which unit of its pattern the next read takes up.  The image is joined from any
  number of chunks, and joins of joins are what the module's lemmas are about.  An
  induction theorem cannot be cited here, so a claim about every position of a
  sequence is proved by its least counterexample (`Induction`: a set with 0, and
  with k + 1 for each k of it below n, holds all of 0..n).

`DeliveryProofs`; the first four for savers that take turns
- **Whole**: `[]BootsWhole`, for every image, slot size, board and artifact.
  `DeliveryInv` carries the prefix of the image that each stage holds: what left the
  write buffer is in the cache, what was synced is on the medium, and a slot that
  is armed was synced and compared with the manifest's digest before.
- **DeliveredRecord**: the whole composition implements StateFile as well.
- **ReportsAreTrue**: `InstallReports`, from `Reporting`, which says per call
  whether anything is armed and what the record holds.
- **DeliveryTypeCorrect**: `[]TypeOK`.  It needs most of the others: that a hook
  directory is not read past its end is `Hooked`, that what the writer holds is a
  sequence is `Carried`, and the record's file is well-typed only while a saver is
  somebody's call.
- **HistoryIsTrue**: `[]HistoryTrue`, for any cap.  `Chronicle` says that the file
  ends as the commits do but for the one whose append is still to come, that every
  version a cut may bring back is within the cap, and that after one that does not
  parse nothing has been appended yet.
- **GatesHold**: `WriteGated`.  `Gated` carries the gates that were passed from
  call to call, and a hook directory as far as it was run.
- **ImagesAreRaw**: `[]PackedIsRaw`, from SparseInv.
- **NobodyIsBlamed**: `[]BlamelessInstalls`.  `Carried` says of every transfer that
  what arrived is a prefix of what is stored unless the connection damaged it, and
  as much as is stored once its end was read; so a digest or a size that does not
  fit shows in the artifact itself.  Then each refusal on install's way is looked at
  with `Gated`: it is one of a gate that is the board's, of a connection that
  failed, or of something VerifyPacked had refused before.  FindsUnsigned is the one
  lemma about signing: a signature in front is skipped, by pack's read-back and by
  the device alike.

`SlotResolveProofs`, for any second disk, on boards that are `Equipped`: the boot
disk has both slots, lsblk works beside a second disk, and a GRUB board's partitions
have names
- **PartitionsAreThere**: `[]TypeOK`.  **SpareIsWritten**: `[]WritesSpare`.
  **SlotsStayResolvable**: `[]StaysResolvable`.  **CapsuleIsFound**:
  `[]CapsuleFound`.
  The invariant, `SlotsInv`, says that the boot disk is as it was flashed but for
  labels (`Flashed`), which disk the root is on (`Booted`), and how far an install
  has found its way (`Finding`).  That the other disk does not matter is then a
  lemma on each lookup: a name is looked for on the root's own disk first, and
  found there.

Only model-checked is liveness: ComesBack and PendingResolved, and that ABDevice's
fairness follows from TrialUpdate's.  Both need ENABLED.  Every invariant and every
other action property of a run that passes is stated by a theorem.

## 5. Met while modelling, and not among the runs

- Two installs started together both pass the in-flight gate (`engine.go:68-73`),
  which looks for a record written only after the slot is.  Hence "install_alone".
- MarkGood and PrepareTarget do not ask whether /boot is mounted and succeed
  without effect when it is not (`ubootenv/swap-slot.go:15-34,80-96`).
- After a power cut between SwapSlot and the second SaveState a trial boots whose
  record says "written"; the verifier takes it for a committed system and commit
  has nothing to do (`commit.go:242`).
- The unwind removes the record even when its SwapSlot failed (`engine.go:219`).
- Commit by hand before the reboot marks the update failed while the trial stays
  armed; the board boots it and commit refuses it (`commit.go:65`).
- A commit that was cut between MarkGood and ClearState runs its gates again at
  the next boot, and a gate that fails then leaves the reboot on the update.
- With two processes, commit may save its stale copy of a record that rollback has
  removed (`commit.go:90`), so FailedStays and CommitSticks are for one process.
- On a Jetson a request may be left behind without its record in more ways than
  `f_tegra_markgood` shows, each found by letting one call fail: SaveState fails
  after the swap (`engine.go:207`), or ClearState fails after a rollback has
  re-pointed the board (`commit.go:173`), and mark-good then removes the record; or
  the unwind's own swap fails (`engine.go:219`).  With two processes mark-good may
  remove the record under a rollback that has yet to return.
- Where the SoC processes no capsules, VerifyPlatformUpdate still judges an image
  with the marker by the ESRT that an earlier capsule left (`verify.go:119`,
  `swap-slot.go:91-94`).
- A rollback killed after its re-point, and then a commit of the same record,
  leaves BootChainFwNext on the slot rolled back to.
- MarkGood resets the other slot's status and never the running one's: a slot that
  firmware flagged on its last attempt and booted stays flagged when committed.
- `connector.go:72-74` speaks of any RootfsStatusSlot; the code asks of the booted
  slot only.
- `docs/cli-contract.md` gives exit code 3 for an artifact that is rejected, a
  bad checksum among the reasons.  A compressed payload that is damaged or short
  fails in WriteImage and exits 1 (`engine.go:161-163`), while a connection that
  drops, or a SIGTERM, in the headers exits 3 (`engine.go:75-78,141-144`).
  InstallReports holds all the same: it is about what is armed and recorded.
- A health directory that cannot be read marks the update failed like a hook that
  fails, and exits 1 (`hooks.go:74-76`).
- The connection has no overall timeout (`main.go:32-46`): a body that stalls
  stalls install until it is killed.
- `installed.json` is renamed without an fsync, so a cut may leave it empty and the
  next commit starts the history afresh (`commit.go:299-324`).
- An image of size 0 passes every gate of install and verifies.
- The expansion of one sparse chunk of 2^63 bytes or more turns negative and the
  chunk is dropped without an error; the digest is of what is left.
- An image file named `manifest.sig` and stored uncompressed becomes a member that
  readers skip: pack's read-back removes the artifact, `--no-verify` publishes it.

## 6. Not modelled, and why

- status, check, diagnostics, slot info and logging change nothing and decide
  nothing; they are formatting of what other parts know.
- EFI device paths and load options are parsed bit by bit; only the disk an option
  leads to matters here.  Read-only ESP mounts count as a refused install; the
  ESP's free space is advisory.
- env.get and env.set are one read and one write; what `fw_setenv` and
  `grub-editenv` do inside is theirs.
- Tar, JSON, zstd and gzip are libraries: what they reject is modelled, how they
  encode is not.
- A hook's environment and output; the parsing of arguments; progress lines, whose
  phase names differ from the documents in one word ("swap" for "flip").
- Hardware: what the boot script, the firmware and the watchdog do is modelled from
  what the code in `src/` expects of them.

## 7. What is left

Everything that changes state is modelled, and every invariant the runs check is
proved.  What would add most next:

1. Settled boards on a file system that loses renames: which of RecoverableProofs
   still hold when the journal is known to commit before the next install writes,
   as Delivery assumes.
2. A board whose boot disk has one slot: what SlotResolve still promises there
   beside `f_wrong_disk`.
