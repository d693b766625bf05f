----------------------------- MODULE TrialUpdate -----------------------------
(***************************************************************************)
(* A board with a trial-boot connector: the engine's verbs, the connector  *)
(* calls they make, the boot script, and the power that may go at any      *)
(* moment.                                                                 *)
(***************************************************************************)
EXTENDS Engine, TrialEnv

vars == <<state, disk, env, bootMounted, pc, rec, content, running, units, rebootDue>>

\* Every variable of the record, the environment and the engine keeps its type.
TypeOK == FileTypeOK /\ EnvTypeOK /\ EngineTypeOK

Init == FileInit /\ EnvInit /\ EngineInit

envVars == <<env, bootMounted>>

\* The verbs' calls that end in env.set, and the fault that makes each fail.
FaultAt == [i_prep |-> "prepare", s_prep |-> "prepare",
            i_swap |-> "swap", r_swap |-> "swap", s_swap |-> "swap",
            u_swap |-> "unwind", c_good |-> "markgood", m_good |-> "markgood"]

\* What the call p is about to make does to the environment.
CallWrites(p) ==
    \/ pc[p] \in {"i_prep", "s_prep"} /\ PrepareTarget
    \/ pc[p] = "i_swap" /\ SwapSlot(rec[p].target, TRUE)
    \/ pc[p] = "u_swap" /\ SwapSlot(running, FALSE)
    \/ pc[p] = "r_swap" /\ SwapSlot(Other(rec[p].target), FALSE)
    \/ pc[p] = "s_swap" /\ SwapSlot(Other(running), FALSE)
    \/ pc[p] \in {"c_good", "m_good"} /\ MarkGood(running)

CallFails(p) ==
    /\ \/ FaultAt[pc[p]] \in Faults
       \/ FaultAt[pc[p]] \in {"swap", "unwind"} /\ ~EnvWritable
    /\ UNCHANGED <<envVars, disk>>

\* env.set returns after a global sync.
EnvCall(p) ==
    /\ pc[p] \in DOMAIN FaultAt
    /\ \E ok \in BOOLEAN :
          /\ \/ InstallPrepare(p, ok) \/ InstallSwap(p, ok)
             \/ UnwindSwap(p)
             \/ CommitGood(p)
             \/ RollbackSwap(p, ok)
             \/ SwitchPrepare(p, ok)  \/ SwitchSwap(p, ok)
             \/ MarkGoodCall(p, ok)
          /\ IF ok THEN CallWrites(p) /\ disk' = state ELSE CallFails(p)

\* AbortPlatformUpdate and VerifyPlatformUpdate do nothing on these boards.
NoPlatformUpdate(p) ==
    /\ UnwindAbort(p) \/ RollbackAbort(p, TRUE) \/ CommitVerify(p, TRUE)
    /\ UNCHANGED <<envVars, disk>>

VerifyProbe(p) ==
    /\ \E compromised \in Probes(BootIsCompromised(running)) : VerifyCheck(p, compromised)
    /\ UNCHANGED <<envVars, disk>>

Step(p) ==
    \/ EngineStep(p) /\ UNCHANGED envVars
    \/ EnvCall(p)
    \/ NoPlatformUpdate(p)
    \/ VerifyProbe(p)

---------------------------------------------------------------------------
(* Power and the boot script. *)

\* One boot attempt.  An image that is not good never reaches userspace, and
\* the board resets and tries again.
Boot ==
    /\ running = Off
    /\ CountAttempt
    /\ \E m \in IF "mount" \in Faults THEN BOOLEAN ELSE {TRUE} : bootMounted' = m
    /\ IF content[BootChoice] = "good"
       THEN ComeUp(BootChoice)
       ELSE UNCHANGED <<pc, rec, board>>
    /\ KeepFile

\* An orderly shutdown syncs the file systems; it stops a verb anywhere.
Reboot ==
    /\ running # Off
    /\ GoDown /\ SyncFile /\ UNCHANGED envVars

PowerCut ==
    /\ running # Off
    /\ GoDown /\ LoseFile /\ UNCHANGED envVars

\* The cut comes inside env.set: the environment is written, the sync is not done.
PowerCutInCall(p) ==
    /\ CallWrites(p)
    /\ GoDown /\ LoseFile

\* The process dies between two calls, or inside env.set before its sync.  Its
\* caller, who has no answer, assumes that a reboot is due.
Kill(p) ==
    /\ "kill" \in Faults
    /\ pc[p] # "idle"
    /\ Done(p)
    /\ UNCHANGED envVars \/ CallWrites(p)
    /\ rebootDue' = TRUE
    /\ UNCHANGED <<content, running, units, state, disk>>

\* The kernel writes the record's directory back on its own.
Flush ==
    /\ disk # state
    /\ SyncFile /\ UNCHANGED <<envVars, pc, rec, board>>

Next ==
    \/ \E p \in Procs : Step(p) \/ Kill(p) \/ PowerCutInCall(p)
    \/ Boot \/ Reboot \/ PowerCut \/ Flush

Spec == Init /\ [][Next]_vars

---------------------------------------------------------------------------
(* Safety *)

Idle == \A p \in Procs : pc[p] = "idle"

NextBoot == BootChoice

\* A trial armed in the environment always has a pending-update record behind
\* it, on the medium: otherwise the next boots would run an update no verb can
\* commit or roll back, and PrepareTarget's hygiene would be its only end.
\* (state-schema.md rule 1; engine.go SaveState before SwapSlot, ClearState last.)
NoOrphanTrial == env.armed => disk # NoRec

\* Why it holds: PrepareTarget's sync puts the record on the medium before the
\* trial is armed, install runs alone, and whoever removes the record has just
\* disarmed the trial.  Inductive when no call fails without being noticed.
ClearPcs == {"u_clear", "c_clear", "r_clear", "m_clear"}

TrialBacked ==
    /\ bootMounted
    /\ env.armed => state # NoRec /\ disk # NoRec
    /\ \A p \in Procs :
          /\ pc[p] \in {"i_write", "i_stream", "i_save"} => rec[p] # NoRec
          /\ pc[p] \in {"i_prep", "i_swap"} => state # NoRec
          /\ pc[p] = "i_swap" => disk # NoRec
          /\ pc[p] \in ClearPcs => ~env.armed
          /\ pc[p] \in AlonePcs => \A q \in Procs : q = p \/ pc[q] = "idle"

\* The slot the board falls back to, whatever it tries first.
FallbackOf(e) == IF e.armed THEN Other(e.slot) ELSE e.slot

Fallback == FallbackOf(env)

\* The board never loses its last bootable system: that slot boots, whatever is
\* on trial and whatever stopped in the middle (cli-contract.md
\* install; state-schema.md ordering rules).
Recoverable == content[Fallback] = "good"

\* A trial is only ever armed for an image that was written to its end and
\* verified, and it stays so: nothing rewrites a slot while it is on trial.
TrialVerified == env.armed => content[env.slot] # "torn"

\* With no update pending, nobody at work and no reboot owed, the board stays
\* where it is: the next boot takes the running slot, and not as a trial.
SettledStays ==
    state = NoRec /\ Idle /\ running # Off /\ ~rebootDue
        => env = Pinned(running)

\* Why Recoverable and SettledStays hold, on a file system that loses no rename.
\* The two need each other: install writes the slot that is not running, which is
\* not the slot the board falls back to only because a settled board stays where
\* it is.  A rollback that has swapped owes the reboot it has yet to report.
Owed == rebootDue \/ \E p \in Procs : pc[p] = "r_clear" /\ rec[p].target = running

Ending == state = NoRec \/ \E p \in Procs : pc[p] \in {"c_clear", "m_clear"}

BoardSafe ==
    /\ Recoverable
    /\ running # Off /\ Ending => env = Pinned(running) \/ Owed
    /\ disk = state
    /\ env.armed => state.target = env.slot
    /\ ~env.armed => env.count = 0
    /\ running # Off => content[running] = "good"
    /\ state # NoRec => content[Other(state.target)] = "good"

\* What install and switch count on at their next call: nobody else has touched
\* the record or the environment since the last one.
BeforeSave == {"i_write", "i_stream", "i_save"}
Naming     == {"i_prep", "i_swap", "i_mark", "i_post", "u_abort", "u_swap"}

CountsOn(p) ==
    /\ pc[p] \in InstallPcs => rec[p] # NoRec /\ rec[p].target = Other(running)
    /\ pc[p] \in BeforeSave \cup {"s_prep", "s_swap"} => state = NoRec
    /\ pc[p] \in Naming => state # NoRec /\ state.target = rec[p].target
    /\ pc[p] \in BeforeSave \cup {"i_prep", "i_swap", "u_clear"} => env = Pinned(running)
    /\ pc[p] \in {"s_prep", "s_swap"} => content[Other(running)] = "good"

\* What the verbs that end an update can still count on when several of them run
\* at once: the records they hold are of one update, and its way back boots.
Holding == CommitPcs \cup VerifyPcs \cup {"r_abort", "r_swap", "r_clear"}

Shares(p) ==
    /\ pc[p] \in Holding =>
          /\ rec[p] # NoRec /\ content[Other(rec[p].target)] = "good"
          /\ state # NoRec => state.target = rec[p].target
          /\ \A q \in Procs : pc[q] \in Holding => rec[q].target = rec[p].target
    /\ pc[p] = "r_clear" => env \in {Pinned(running), Pinned(Other(rec[p].target))}
    /\ pc[p] = "c_clear" /\ Procs = {p} => env = Pinned(running)

RecoverableInv == BoardSafe /\ \A p \in Procs : CountsOn(p) /\ Shares(p)

\* A failed deployment stays failed: no step turns its record into anything but
\* no record, and commit is not what removes it (commit.go: run rollback).
FailedStays ==
    [][state.phase = "failed" /\ state' # state /\ running' # Off
        => state' = NoRec /\ \E p \in Procs : pc[p] \in {"r_clear", "m_clear"}]_vars

\* p leaves the call l by returning from it, the board still up.
Leaves(p, l) == pc[p] = l /\ pc'[p] # l /\ running' # Off

\* Once commit has cleared the record the update is not undone: the next boot
\* and every later one takes the committed slot (commit.go:101-105).
CommitSticks ==
    [][\A p \in Procs : Leaves(p, "c_clear") /\ state' = NoRec
        => env' = Pinned(running)]_vars

\* A failed post-install hook unwinds to a clean slot: when the record is gone
\* the running slot is the next boot's, and not as a trial (engine.go:211-213).
UnwindClean ==
    [][\A p \in Procs : Leaves(p, "u_clear") /\ state' = NoRec
        => env' = Pinned(running)]_vars

\* An install refused or failed while writing has not put the slot it wrote in
\* the way of the next boot (engine.go:23-25, "never swapped").
RefusedNotBooted ==
    [][\A p \in Procs : Leaves(p, "i_stream") /\ pc'[p] = "idle"
        => NextBoot # rec[p].target]_vars

\* "rollback returns to a known-good slot" (swap-slot.go:45-48).
RollbackReturnsGood ==
    [][\A p \in Procs : Leaves(p, "r_swap") /\ pc'[p] = "r_clear"
        => content[env'.slot] = "good"]_vars

---------------------------------------------------------------------------
(* Liveness and refinement *)

\* The board is powered and its boot loader tries again; a process that runs
\* makes its next call; systemd starts the enabled units; the caller reboots
\* when it was told to.
Fairness ==
    /\ WF_vars(Boot)
    /\ WF_vars(Reboot /\ rebootDue)
    /\ \A p \in Procs :
          /\ WF_vars(pc[p] # "idle" /\ Step(p))
          /\ WF_vars((VerifyLoad(p) \/ CommitByUnit(p)) /\ UNCHANGED envVars)

LiveSpec == Spec /\ Fairness

\* A board that goes down comes up again, on a bad update as on a good one.
ComesBack == running = Off ~> running # Off

Device == INSTANCE ABDevice WITH
    Slot <- Slots, Down <- Off,
    up <- running,
    home <- Fallback,
    trial <- env.armed,
    sound <- {s \in Slots : content[s] = "good"}

\* The update engine on a trial-boot board keeps the A/B promise.
KeepsABPromise == Device!ABSpec
=============================================================================
