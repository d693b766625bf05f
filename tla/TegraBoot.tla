------------------------------ MODULE TegraBoot ------------------------------
(***************************************************************************)
(* The Jetson connector (tegrauefi): the EFI variables, the capsule on the *)
(* ESP and the saved bootloader version that its methods read and write,   *)
(* and what the firmware makes of them at the next boot (external).        *)
(*                                                                         *)
(* NVIDIA couples boot chain and rootfs slot, so a chain is named by its   *)
(* slot.  The firmware gives every slot a budget of boot attempts that the *)
(* operating system must confirm; a slot that uses it up is flagged and    *)
(* not booted again until PrepareTarget resets it.                         *)
(*                                                                         *)
(* A method of several writes takes the number of writes done, so that a   *)
(* failure or a power cut may leave any prefix of them behind; one whose   *)
(* reads may fail takes the set of what it sees.                           *)
(***************************************************************************)
EXTENDS Naturals, StateFile

CONSTANT Retries \* boot attempts the firmware grants a slot (3 on the boards)

ASSUME TegraBootAssumption == Retries \in Nat \ {0}

VARIABLES
    effective,   \* capsuleUpdateEffective: does this SoC process capsules?
    chain,       \* BootChainFwCurrent: the chain booted last
    next,        \* BootChainFwNext: the requested chain, NoReq when absent
    switching,   \* BootChainFwStatus: "absent", "in_progress" or "judged"
    flagged,     \* the slots whose RootfsStatusSlot is not normal
    tries,       \* tries[s]: unconfirmed boot attempts s has left
    osi,         \* OsIndications: process a capsule at the next boot
    staged,      \* the capsule on the ESP: "none", "loose" (not synced) or "kept"
    before,      \* bl-version-before, NoVer when there is no file
    version,     \* version[s]: the bootloader on chain s
    esrt,        \* the verdict of the last capsule
    marker,      \* the slots whose rootfs asks for a bootloader update
    fresh        \* the slots whose own capsule was applied to their chain

fwVars  == <<chain, next, switching, flagged, tries>>
capVars == <<osi, staged, before>>
blVars  == <<effective, version, esrt, marker, fresh>>
tegraVars == <<fwVars, capVars, blVars>>

NoReq    == "none"
NoVer    == "none"
Readable == {"version", "esrt", "chain"}
Versions == {"v1", "v2"}

\* Every variable keeps its type.
TegraTypeOK ==
    /\ effective \in BOOLEAN
    /\ chain \in Slots /\ next \in Slots \cup {NoReq}
    /\ switching \in {"absent", "in_progress", "judged"}
    /\ flagged \in SUBSET Slots /\ tries \in [Slots -> 0..Retries]
    /\ osi \in BOOLEAN /\ staged \in {"none", "loose", "kept"}
    /\ before \in Versions \cup {NoVer}
    /\ version \in [Slots -> Versions] /\ esrt \in {"success", "error"}
    /\ marker \in SUBSET Slots /\ fresh \in SUBSET Slots

TegraInit ==
    /\ effective \in BOOLEAN
    /\ chain = "A" /\ next = NoReq /\ switching = "absent"
    /\ flagged = {} /\ tries = [s \in Slots |-> Retries]
    /\ osi = FALSE /\ staged = "none" /\ before = NoVer
    /\ version = [s \in Slots |-> "v1"] /\ esrt \in {"success", "error"}
    /\ marker = {} /\ fresh = {}

---------------------------------------------------------------------------
(* The connector's methods. *)

\* PrepareTarget: a flagged slot is reset, which re-seeds its attempts.  The
\* variable of a normal slot is not written.
PrepareTarget(s) ==
    /\ flagged' = flagged \ {s}
    /\ tries' = IF s \in flagged THEN [tries EXCEPT ![s] = Retries] ELSE tries
    /\ UNCHANGED <<chain, next, switching, capVars, blVars>>

\* ConfirmBoot: `nvbootctrl verify' stops the countdown of the running slot and
\* deletes BootChainFwStatus whatever its value.
Confirm(cur) ==
    /\ tries' = [tries EXCEPT ![cur] = Retries]
    /\ switching' = "absent"
    /\ UNCHANGED <<chain, next, flagged, capVars, blVars>>

\* MarkGood confirms the running slot and then resets the other one.
MarkGood(cur, done) ==
    IF done = 1 THEN Confirm(cur)
    ELSE /\ flagged' = flagged \ {Other(cur)}
         /\ tries' = [s \in Slots |-> IF s = cur \/ s \in flagged THEN Retries ELSE tries[s]]
         /\ switching' = "absent"
         /\ UNCHANGED <<chain, next, capVars, blVars>>

\* checkCapsuleBootChainIdle: both variables absent.
BootChainIdle == next = NoReq /\ switching = "absent"

\* PreflightInstall judges by the running image whether a capsule will be staged.
PreflightInstall(cur) == effective /\ cur \in marker => BootChainIdle

\* nvbootctrl set-active-boot-slot.
Request(s) == next' = s /\ UNCHANGED <<chain, switching, flagged, tries, capVars, blVars>>

\* Fault variant: the request is withdrawn whatever slot is asked for.
KeepsAnySlot(s) ==
    /\ effective
    /\ switching # "in_progress"
    /\ ~osi

\* Fault variant: the request is withdrawn although a capsule is armed.
KeepsUnderCapsule(s) ==
    /\ effective /\ chain = s
    /\ switching # "in_progress"

\* keepRunningSlot withdraws the request instead, where that is enough.
KeepsRunningSlot(s) ==
    /\ effective /\ chain = s
    /\ switching # "in_progress"
    /\ ~osi

\* SwapSlot of a rollback, an unwind or a switch.  A state of the boot chain that
\* cannot be read makes for a request.
Repoint(s, seen) ==
    IF "chain" \in seen /\ KeepsRunningSlot(s)
    THEN next' = NoReq /\ UNCHANGED <<chain, switching, flagged, tries, capVars, blVars>>
    ELSE Request(s)

\* Does SwapSlot of an install stage the capsule of the new rootfs?
Stages(s) == effective /\ s \in marker

\* Fault variant: no syncfs after the rename.
CopiedUnsynced(done) == IF staged = "kept" THEN "kept" ELSE IF done >= 2 THEN "loose" ELSE staged

\* copyFileSync: the rename makes the capsule visible, the syncfs after it durable.  A
\* capsule that is there is replaced, and one is found either way.
Copied(done) == IF staged = "kept" \/ done > 2 THEN "kept" ELSE IF done = 2 THEN "loose" ELSE staged

\* Fault variant: the capsule is staged next to a pending boot-chain operation.
StageUnchecked(cur, done, seen) ==
    /\ before' = IF "version" \in seen THEN version[cur] ELSE NoVer
    /\ staged' = Copied(done)
    /\ osi' = (osi \/ done > 3)
    /\ UNCHANGED <<fwVars, blVars>>

\* The capsule is staged in four steps: the version, the file, its syncfs, the
\* arming.  A version that cannot be read is removed instead of saved.
Stage(cur, done, seen) ==
    /\ BootChainIdle
    /\ before' = IF "version" \in seen THEN version[cur] ELSE NoVer
    /\ staged' = Copied(done)
    /\ osi' = (osi \/ done > 3)
    /\ UNCHANGED <<fwVars, blVars>>

\* SwapSlot of an install: the capsule, or a request, never both.
Activate(cur, s, done, seen) == IF Stages(s) THEN Stage(cur, done, seen) ELSE Request(s)

\* AbortPlatformUpdate: disarming comes first, the rest is best effort.
Abort ==
    /\ osi' = FALSE
    /\ before' \in {before, NoVer}
    /\ staged' \in {staged, "none"}
    /\ UNCHANGED <<fwVars, blVars>>

\* BootIsCompromised: the firmware flagged the booted slot.
BootIsCompromised(cur) == cur \in flagged

\* VerifyPlatformUpdate: the marker, then the version, then the ESRT, then "it
\* booted".  What cannot be read passes the question on to the next.
VersionChanged(cur, seen) ==
    "version" \in seen /\ before # NoVer /\ before # version[cur]

\* Fault variant: an unchanged version is taken for a capsule that failed.
VerdictVersionOnly(cur, seen) ==
    cur \in marker => VersionChanged(cur, seen) \/ "version" \notin seen

Verdict(cur, seen) ==
    cur \in marker => VersionChanged(cur, seen) \/ esrt = "success" \/ "esrt" \notin seen

\* The saved version is dropped with a positive answer.
VerifyUpdate(cur, ok) ==
    /\ before' = IF ok /\ cur \in marker THEN NoVer ELSE before
    /\ UNCHANGED <<fwVars, osi, staged, blVars>>

---------------------------------------------------------------------------
(* The firmware (external). *)

\* An orderly reboot syncs the ESP; after a power cut the next boot finds out.
SyncESP == staged' = IF staged = "loose" THEN "kept" ELSE staged

Found == IF staged = "loose" THEN {"none", "kept"} ELSE {staged}

\* A capsule is applied only where no boot-chain operation is pending.
CapsuleRuns == osi /\ staged # "none" /\ BootChainIdle

\* What the power-on does to a capsule; `applied' when it went onto the other
\* chain, which it then switches to.
ProcessCapsule(applied) ==
    /\ applied => CapsuleRuns
    /\ osi' = FALSE
    /\ staged' \in IF applied THEN {"none"} ELSE Found
    /\ esrt' = IF applied THEN "success" ELSE IF osi /\ staged' # "none" THEN "error" ELSE esrt
    /\ \E v \in Versions :
          version' = IF applied THEN [version EXCEPT ![Other(chain)] = v] ELSE version
    /\ fresh' = IF applied THEN fresh \cup {Other(chain)} ELSE fresh
    /\ UNCHANGED <<effective, before, marker>>

Wanted(applied) ==
    IF applied THEN Other(chain) ELSE IF next # NoReq THEN next ELSE chain

\* A slot without attempts left is flagged when its turn comes, and passed over.
Spent(s) == s \in flagged \/ tries[s] = 0

Picked(applied) ==
    IF Spent(Wanted(applied)) THEN Other(Wanted(applied)) ELSE Wanted(applied)

\* A request is carried out, and judged at this boot or at the one after it.
JudgeRequest ==
    IF next = NoReq THEN UNCHANGED <<next, switching>>
    ELSE \/ next' = NoReq /\ switching' = "judged"
         \/ switching # "in_progress" /\ switching' = "in_progress" /\ UNCHANGED next

\* One attempt at the slot picked, unless both are spent.  The slot may be flagged
\* as it is given its last attempt (`hasty').
Attempt(applied, hasty) ==
    LET s == Picked(applied) IN
    /\ ~Spent(s)
    /\ tries' = [tries EXCEPT ![s] = @ - 1]
    /\ flagged' = flagged \cup ({Wanted(applied)} \ {s})
                          \cup {t \in {s} : hasty /\ tries[t] = 1}
    /\ chain' = s
=============================================================================
