----------------------------- MODULE TegraUpdate -----------------------------
(***************************************************************************)
(* A Jetson: the engine's verbs over the Tegra connector, the firmware and *)
(* the power.  The verifier's confirmation of a boot is part of the step   *)
(* it follows; a kill or a power cut between the two is one before both.   *)
(* On a file system that may lose a rename nothing but an orderly reboot   *)
(* makes the record durable: writeback on its own is left out.             *)
(***************************************************************************)
EXTENDS Engine, TegraBoot

vars == <<state, disk, pc, rec, content, running, units, rebootDue, tegraVars>>

\* Every variable of the record, the engine and the connector keeps its type.
TypeOK == FileTypeOK /\ EngineTypeOK /\ TegraTypeOK

Init == FileInit /\ EngineInit /\ TegraInit

\* What a call may get to see.
Seen == IF "read" \in Faults THEN SUBSET Readable ELSE {Readable}

\* The calls that write boot state, the fault that makes each fail, and the
\* number of writes it takes.
FaultAt == [i_prep |-> "prepare", s_prep |-> "prepare",
            i_swap |-> "swap", r_swap |-> "swap", s_swap |-> "swap",
            u_swap |-> "unwind", r_abort |-> "abort", u_abort |-> "abort",
            c_good |-> "markgood", m_good |-> "markgood"]

Writes(p) ==
    IF pc[p] \in {"c_good", "m_good"} THEN 2
    ELSE IF pc[p] = "i_swap" /\ Stages(rec[p].target) THEN 4
    ELSE 1

\* The first `done' writes of the call p is about to make.
CallWrites(p, done, seen) ==
    \/ pc[p] = "i_prep" /\ PrepareTarget(rec[p].target)
    \/ pc[p] = "s_prep" /\ PrepareTarget(Other(running))
    \/ pc[p] = "i_swap" /\ Activate(running, rec[p].target, done, seen)
    \/ pc[p] = "u_swap" /\ Repoint(running, seen)
    \/ pc[p] = "r_swap" /\ Repoint(Other(rec[p].target), seen)
    \/ pc[p] = "s_swap" /\ Repoint(Other(running), seen)
    \/ pc[p] \in {"r_abort", "u_abort"} /\ Abort
    \/ pc[p] \in {"c_good", "m_good"} /\ MarkGood(running, done)

\* A call of several writes may fail after any of them, the last one (its
\* read-back, its bookkeeping) included.
CallFails(p) ==
    \/ /\ FaultAt[pc[p]] \in Faults
       /\ \/ UNCHANGED tegraVars
          \/ /\ Writes(p) > 1
             /\ \E done \in 1..Writes(p), seen \in Seen : CallWrites(p, done, seen)
    \/ /\ pc[p] = "i_swap" /\ Stages(rec[p].target) /\ ~BootChainIdle
       /\ UNCHANGED tegraVars

BootCall(p) ==
    /\ pc[p] \in DOMAIN FaultAt
    /\ \E ok \in BOOLEAN :
          /\ \/ InstallPrepare(p, ok) \/ InstallSwap(p, ok)
             \/ UnwindAbort(p) \/ UnwindSwap(p)
             \/ CommitGood(p)
             \/ RollbackAbort(p, ok) \/ RollbackSwap(p, ok)
             \/ SwitchPrepare(p, ok) \/ SwitchSwap(p, ok)
             \/ MarkGoodCall(p, ok)
          /\ IF ok THEN \E seen \in Seen : CallWrites(p, Writes(p), seen)
                   ELSE CallFails(p)
    /\ UNCHANGED disk

\* The new rootfs may ask for a bootloader update; a slot that is overwritten
\* has lost its own.
Rewrite(p) ==
    \/ InstallWrite(p) /\ marker' = marker \ {rec[p].target}
    \/ /\ InstallVerify(p)
       /\ marker' \in {marker, marker \cup {s \in {rec[p].target} : content'[s] # "torn"}}

WriteSlot(p) ==
    /\ Rewrite(p)
    /\ fresh' = fresh \ {rec[p].target}
    /\ UNCHANGED <<fwVars, capVars, effective, version, esrt>>

PlatformVerdict(p) ==
    /\ \E seen \in Seen :
          /\ CommitVerify(p, Verdict(running, seen))
          /\ VerifyUpdate(running, Verdict(running, seen))
    /\ UNCHANGED disk

\* confirmBoot is best effort.
ConfirmBoot ==
    \/ Confirm(running)
    \/ "confirm" \in Faults /\ UNCHANGED tegraVars

\* With no trial in flight, or no record to read, the boot is confirmed.
VerifierLoads(p) ==
    /\ VerifyLoad(p)
    /\ IF pc' = pc THEN ConfirmBoot ELSE UNCHANGED tegraVars

\* Fault variant: only a healthy trial is confirmed, and not the slot fallen back to.
VerifierChecksTrialOnly(p) ==
    /\ \E compromised \in Probes(BootIsCompromised(running)) :
          /\ VerifyCheck(p, compromised)
          /\ IF pc'[p] = "v_fail" THEN UNCHANGED tegraVars ELSE ConfirmBoot
    /\ UNCHANGED disk

\* A boot on a slot that the firmware flagged is left unconfirmed.
VerifierChecks(p) ==
    /\ \E compromised \in Probes(BootIsCompromised(running)) :
          /\ VerifyCheck(p, compromised)
          /\ IF compromised THEN UNCHANGED tegraVars ELSE ConfirmBoot
    /\ UNCHANGED disk

\* The engine's other steps touch no boot state; an install has a preflight to pass.
EngineOnly(p) ==
    /\ pc[p] \notin {"i_write", "i_stream"}
    /\ EngineStep(p) /\ units \ units' # {"verify"}
    /\ pc'[p] = "i_write" => PreflightInstall(running)
    /\ UNCHANGED tegraVars

Step(p) ==
    \/ EngineOnly(p)
    \/ WriteSlot(p)
    \/ BootCall(p)
    \/ PlatformVerdict(p)
    \/ VerifierLoads(p) \/ VerifierChecks(p)

---------------------------------------------------------------------------
(* The firmware and the power. *)

Confirmed == tries[running] = Retries

Boot ==
    /\ running = Off
    /\ \E applied \in BOOLEAN, hasty \in {FALSE, "flag" \in Faults} :
          /\ ProcessCapsule(applied)
          /\ JudgeRequest
          /\ Attempt(applied, hasty)
          /\ IF content[Picked(applied)] = "good"
             THEN ComeUp(Picked(applied))
             ELSE UNCHANGED <<pc, rec, board>>
    /\ KeepFile

\* Each boot that is cut short before it is confirmed costs the slot an attempt.
\* Only "early" lets that happen, and never to the last attempt.
Settled ==
    /\ running # Off
    /\ IF "early" \in Faults THEN tries[running] > 0 ELSE Confirmed

Reboot ==
    /\ Settled
    /\ GoDown /\ SyncFile /\ SyncESP /\ UNCHANGED <<fwVars, osi, before, blVars>>

\* The power goes, or the agent restarts the board without a sync.
PowerCut ==
    /\ Settled
    /\ GoDown /\ LoseFile /\ UNCHANGED tegraVars

PowerCutInCall(p) ==
    /\ Settled
    /\ \E done \in 1..Writes(p), seen \in Seen : CallWrites(p, done, seen)
    /\ GoDown /\ LoseFile

\* The boot-validation watchdog, minutes into userspace.
Watchdog ==
    /\ running # Off /\ ~Confirmed
    /\ "verify" \notin units /\ \A p \in Procs : pc[p] \notin VerifyPcs
    /\ GoDown /\ LoseFile /\ UNCHANGED tegraVars

Kill(p) ==
    /\ "kill" \in Faults
    /\ pc[p] # "idle" /\ Settled
    /\ Done(p)
    /\ \/ UNCHANGED tegraVars
       \/ \E done \in 1..Writes(p), seen \in Seen : CallWrites(p, done, seen)
    /\ rebootDue' = TRUE
    /\ UNCHANGED <<content, running, units, state, disk>>

Next ==
    \/ \E p \in Procs : Step(p) \/ Kill(p) \/ PowerCutInCall(p)
    \/ Boot \/ Reboot \/ PowerCut \/ Watchdog

Spec == Init /\ [][Next]_vars

---------------------------------------------------------------------------
(* Safety *)

\* The slots the next boot may take.
NextBoots == {Picked(a) : a \in {FALSE} \cup {b \in {TRUE} : CapsuleRuns}}

Leaves(p, l) == pc[p] = l /\ pc'[p] # l /\ running' # Off

\* The firmware always has a slot that boots and that it is willing to boot, or is
\* running it (tegrauefi.go:163-175, MarkGood's reset of the other slot).
Eligible ==
    \E s \in Slots : content[s] = "good" /\ (~Spent(s) \/ s = running)

\* Firmware is never told to process a capsule that a restart without a sync could
\* take from under it: "the staged capsule can be invisible to UEFI on the next boot"
\* (swap-slot.go:314-320).
ArmedIsDurable == osi => staged = "kept"

\* The verifier leaves no healthy boot to the watchdog, on the slot it fell back to
\* as on the trial: it would reboot "the only bootable system left"
\* (commit.go:258-266).
BootConfirmed ==
    running # Off /\ "verify" \notin units /\ (\A p \in Procs : pc[p] \notin VerifyPcs)
        => Confirmed

\* An install that asks for a reboot has the firmware try the new slot: by a
\* capsule that no pending request cancels, or by a request (swap-slot.go:95-159).
InstallTakes ==
    [][\A p \in Procs : Leaves(p, "i_post") /\ pc'[p] = "idle"
        => IF Stages(rec[p].target) THEN CapsuleRuns' /\ rec[p].target \notin flagged'
           ELSE NextBoots' = {rec[p].target}]_vars

\* A rollback that reports success has the board boot the slot the update came
\* from, capsule or no capsule, unless the firmware has given that slot up
\* (commit.go:135-142).
RollbackHolds ==
    [][\A p \in Procs : Leaves(p, "r_clear") /\ state' = NoRec
        => LET origin == Other(rec[p].target)
           IN  NextBoots' = {origin} \/ Spent(origin)]_vars

\* A failed post-install hook leaves the board on the slot it runs (engine.go:211-225).
UnwindHolds ==
    [][\A p \in Procs : Leaves(p, "u_clear") /\ state' = NoRec
        => NextBoots' = {running} \/ Spent(running)]_vars

\* A bootloader update passes verification when it was applied, and only then,
\* whatever earlier attempts left in the ESRT and in bl-version-before
\* (verify.go:78-148).
JudgedRight ==
    [][\A p \in Procs : Leaves(p, "c_verify") /\ pc'[p] # "idle"
            /\ effective /\ running \in marker
        => (pc'[p] = "c_health") = (running \in fresh)]_vars

\* A failed deployment stays failed until rollback or mark-good ends it
\* (commit.go:46-47).
FailedStays ==
    [][state.phase = "failed" /\ state' # state /\ running' # Off
        => state' = NoRec /\ \E p \in Procs : pc[p] \in {"r_clear", "m_clear"}]_vars

\* The firmware is told to change slots only with a record of why on the medium,
\* or a caller who was told to reboot (state-schema.md:32-35).
NoOrphanSwitch ==
    running # Off /\ disk = NoRec /\ ~rebootDue => NextBoots = {running} \/ Spent(running)

\* What commit has finalized is what boots next (commit.go:101-105).
CommitSticks ==
    [][\A p \in Procs : Leaves(p, "c_clear") /\ state' = NoRec
        => NextBoots' = {running} \/ Spent(running)]_vars

\* "rollback/mark-good recovers" an install that stopped at the swap (engine.go:195).
MarkGoodRecovers ==
    [][\A p \in Procs : Leaves(p, "m_clear") /\ state.phase = "written" /\ state' = NoRec
        => NextBoots' = {running}]_vars

---------------------------------------------------------------------------
(* Liveness *)

\* The board is powered and its firmware boots it; its watchdog runs; a process
\* makes its next call; systemd starts the enabled units; the caller reboots when
\* it was told to.
Fairness ==
    /\ WF_vars(Boot) /\ WF_vars(Watchdog)
    /\ WF_vars(Reboot /\ rebootDue)
    /\ \A p \in Procs :
          /\ WF_vars(pc[p] # "idle" /\ Step(p))
          /\ WF_vars(VerifierLoads(p))
          /\ WF_vars(CommitByUnit(p) /\ UNCHANGED tegraVars)

LiveSpec == Spec /\ Fairness

\* A board that goes down comes up again, on a bad update as on a good one.
ComesBack == running = Off ~> running # Off

\* Once the power is steady, a swapped update does not stay pending.
SteadyPower == <>[][running' = Off => running = Off \/ rebootDue \/ ~Confirmed]_vars
PendingResolved == SteadyPower => []<>(state.phase # "swapped")
=============================================================================
