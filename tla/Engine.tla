------------------------------- MODULE Engine --------------------------------
(***************************************************************************)
(* The update engine: every verb as the sequence of calls it makes, one    *)
(* step per call that reads or writes shared state.  A process may stop    *)
(* between any two of them.                                                *)
(*                                                                         *)
(* A step that calls the connector takes the outcome `ok' as a parameter   *)
(* and says nothing of the connector's variables nor of `disk': the module *)
(* that composes the engine with a connector conjoins the call's effect.   *)
(* A refusal that changes nothing (a failed gate, an unreadable record, an *)
(* unresolvable slot) leaves the verb where it started and is not a step.  *)
(*                                                                         *)
(* There is no lock file: with several Procs the verbs interleave freely.  *)
(***************************************************************************)
EXTENDS StateFile

CONSTANTS
    Procs,      \* command lines that may run at the same time
    Verbs,      \* the verbs an operator or agent runs by hand
    Units,      \* the systemd units enabled: a subset of {"verify", "commit"}
    Faults,     \* the calls that may fail
    Promises    \* what the caller undertakes: a subset of Undertakings

Undertakings ==
    { "reboot_first",    \* obeys "reboot required" before the next install
      "install_alone" }  \* runs install and switch with no other verb running

AllFaults ==
    { "save", "clear",               \* SaveState, ClearState
      "prepare", "swap", "markgood", \* env.set inside the connector's methods
      "unwind",                      \* SwapSlot when a post-install hook failed
      "read",                        \* LoadState or CurrentSlot
      "mount",                       \* /boot, in this boot
      "abort", "confirm",            \* AbortPlatformUpdate, ConfirmBoot
      "early",                       \* the boot, before it is confirmed
      "flag",                        \* the firmware flags a slot that it boots
      "kill" }                       \* the process dies

AllVerbs == {"install", "commit", "rollback", "switch", "mark-good"}

ASSUME EngineAssumption ==
    /\ Verbs \subseteq AllVerbs
    /\ Units \subseteq {"verify", "commit"}
    /\ Faults \subseteq AllFaults
    /\ Promises \subseteq Undertakings

VARIABLES
    pc,         \* pc[p]: the call p makes next, "idle" when p runs nothing
    rec,        \* rec[p]: the State p holds in memory
    content,    \* content[s]: what slot s holds
    running,    \* the slot this boot runs from, Off while the board is down
    units,      \* the units this boot has still to start
    rebootDue   \* a verb reported "reboot required" and none has followed

Off == "off"

\* "good" boots to a userspace that answers; "bad" was written and verified but
\* never reaches userspace on this board; "torn" was not written to the end or
\* failed verification.
Images == {"good", "bad", "torn"}

InstallPcs == {"i_write", "i_stream", "i_save", "i_prep", "i_swap", "i_mark",
               "i_post", "u_abort", "u_swap", "u_clear"}
CommitPcs  == {"c_verify", "c_health", "c_good", "c_clear", "c_fail"}
VerifyPcs  == {"v_check", "v_fail"}
OtherPcs   == {"r_abort", "r_swap", "r_clear", "s_prep", "s_swap",
               "m_good", "m_clear"}
AlonePcs   == InstallPcs \cup {"s_prep", "s_swap"}
Pcs        == {"idle"} \cup InstallPcs \cup CommitPcs \cup VerifyPcs \cup OtherPcs

EngineTypeOK ==
    /\ pc \in [Procs -> Pcs]
    /\ rec \in [Procs -> Records]
    /\ content \in [Slots -> Images]
    /\ running \in Slots \cup {Off}
    /\ units \in SUBSET {"verify", "commit"}
    /\ rebootDue \in BOOLEAN

\* A provisioned board that booted slot A.
EngineInit ==
    /\ pc = [p \in Procs |-> "idle"]
    /\ rec = [p \in Procs |-> NoRec]
    /\ content = [s \in Slots |-> "good"]
    /\ running = "A"
    /\ units = {}
    /\ rebootDue = FALSE

board == <<content, running, units, rebootDue>>

Goto(p, l) == pc' = [pc EXCEPT ![p] = l]

\* The process exits.
Done(p) == Goto(p, "idle") /\ rec' = [rec EXCEPT ![p] = NoRec]

Hold(p, r) == rec' = [rec EXCEPT ![p] = r]

\* A process starts a verb; `alone' when the verb is install or switch.
Starts(p, alone) ==
    /\ pc[p] = "idle"
    /\ running # Off
    /\ "install_alone" \in Promises =>
          IF alone THEN \A q \in Procs : pc[q] = "idle"
                   ELSE \A q \in Procs : pc[q] \notin AlonePcs

\* SaveState(st) and ClearState, and then the step to l; on a failure the verb
\* returns the error.
SaveThen(p, r, l) ==
    \/ SaveFile(r) /\ Hold(p, r) /\ Goto(p, l)
    \/ "save" \in Faults /\ KeepFile /\ Done(p)

\* os.Remove fails on a record that is there.
ClearFails == "clear" \in Faults /\ state # NoRec /\ KeepFile

---------------------------------------------------------------------------
(* install *)

\* Fault variant: install builds its record without a phase.
InstallStartNoPhase(p) ==
    /\ "install" \in Verbs
    /\ Starts(p, TRUE)
    /\ "reboot_first" \in Promises => ~rebootDue
    /\ state = NoRec
    /\ Hold(p, [phase |-> "none", target |-> Other(running)])
    /\ Goto(p, "i_write")
    /\ UNCHANGED board /\ KeepFile

\* Fault variant: install without the in-flight gate.
InstallStartUngated(p) ==
    /\ "install" \in Verbs
    /\ Starts(p, TRUE)
    /\ "reboot_first" \in Promises => ~rebootDue
    /\ Hold(p, [phase |-> "written", target |-> Other(running)])
    /\ Goto(p, "i_write")
    /\ UNCHANGED board /\ KeepFile

\* Fault variant: install takes the running slot for its target.
InstallStartInPlace(p) ==
    /\ "install" \in Verbs
    /\ Starts(p, TRUE)
    /\ "reboot_first" \in Promises => ~rebootDue
    /\ state = NoRec
    /\ Hold(p, [phase |-> "written", target |-> running])
    /\ Goto(p, "i_write")
    /\ UNCHANGED board /\ KeepFile

\* The in-flight gate, the policy gates, CurrentSlot, PartitionFor, the
\* preflights and the pre-install hooks.
InstallStart(p) ==
    /\ "install" \in Verbs
    /\ Starts(p, TRUE)
    /\ "reboot_first" \in Promises => ~rebootDue
    /\ state = NoRec
    /\ Hold(p, [phase |-> "written", target |-> Other(running)])
    /\ Goto(p, "i_write")
    /\ UNCHANGED board /\ KeepFile

\* The device is opened and the first block lands.
InstallWrite(p) ==
    /\ pc[p] = "i_write"
    /\ content' = [content EXCEPT ![rec[p].target] = "torn"]
    /\ Goto(p, "i_stream")
    /\ UNCHANGED <<rec, running, units, rebootDue>> /\ KeepFile

\* Fault variant: a stream that ends early or does not verify is taken for good.
InstallVerifySkipped(p) ==
    /\ pc[p] = "i_stream"
    /\ \E c \in Images : content' = [content EXCEPT ![rec[p].target] = c]
    /\ Goto(p, "i_save")
    /\ UNCHANGED <<rec, running, units, rebootDue>> /\ KeepFile

\* The stream ends: written and verified, or failed, or rejected.  The digest is
\* of what was streamed: a second install into the same slot goes unnoticed.
InstallVerify(p) ==
    /\ pc[p] = "i_stream"
    /\ \/ /\ \E c \in Images :
                /\ c = "torn" => Procs # {p} /\ "install_alone" \notin Promises
                /\ content' = [content EXCEPT ![rec[p].target] = c]
          /\ Goto(p, "i_save")
          /\ UNCHANGED rec
       \/ Done(p) /\ UNCHANGED content
    /\ UNCHANGED <<running, units, rebootDue>> /\ KeepFile

\* Fault variant: the record is not written before the boot state changes.
InstallSaveLater(p) ==
    /\ pc[p] = "i_save"
    /\ Goto(p, "i_prep")
    /\ UNCHANGED <<rec, board>> /\ KeepFile

InstallSave(p) ==
    /\ pc[p] = "i_save"
    /\ SaveThen(p, rec[p], "i_prep")
    /\ UNCHANGED board

InstallPrepare(p, ok) ==
    /\ pc[p] = "i_prep"
    /\ IF ok THEN Goto(p, "i_swap") /\ UNCHANGED rec ELSE Done(p)
    /\ UNCHANGED <<board, state>>

InstallSwap(p, ok) ==
    /\ pc[p] = "i_swap"
    /\ IF ok THEN Goto(p, "i_mark") /\ UNCHANGED rec ELSE Done(p)
    /\ UNCHANGED <<board, state>>

InstallMark(p) ==
    /\ pc[p] = "i_mark"
    /\ SaveThen(p, [rec[p] EXCEPT !.phase = "swapped"], "i_post")
    /\ UNCHANGED board

\* Fault variant: the unwind clears the record and leaves the trial armed.
InstallPostClearsOnly(p) ==
    /\ pc[p] = "i_post"
    /\ \/ Done(p) /\ rebootDue' = TRUE
       \/ Goto(p, "u_clear") /\ UNCHANGED <<rec, rebootDue>>
    /\ UNCHANGED <<content, running, units>> /\ KeepFile

\* The post-install hooks pass, or the unwind begins.
InstallPost(p) ==
    /\ pc[p] = "i_post"
    /\ \/ Done(p) /\ rebootDue' = TRUE
       \/ Goto(p, "u_abort") /\ UNCHANGED <<rec, rebootDue>>
    /\ UNCHANGED <<content, running, units>> /\ KeepFile

\* The unwind warns of a failing step and goes on.
UnwindAbort(p) ==
    /\ pc[p] = "u_abort"
    /\ Goto(p, "u_swap")
    /\ UNCHANGED <<rec, board, state>>

UnwindSwap(p) ==
    /\ pc[p] = "u_swap"
    /\ Goto(p, "u_clear")
    /\ UNCHANGED <<rec, board, state>>

UnwindClear(p) ==
    /\ pc[p] = "u_clear"
    /\ ClearFile \/ ClearFails
    /\ Done(p)
    /\ UNCHANGED board

---------------------------------------------------------------------------
(* commit *)

\* Fault variant: commit takes up a record marked failed.
CommitLoadAnyPhase(p) ==
    /\ Starts(p, FALSE)
    /\ state.phase \in {"swapped", "failed"}
    /\ Hold(p, state)
    /\ Goto(p, IF running = state.target THEN "c_verify" ELSE "c_fail")
    /\ UNCHANGED <<content, running, rebootDue>> /\ KeepFile

\* Fault variant: commit does not compare the running slot with the target.
CommitLoadAnySlot(p) ==
    /\ Starts(p, FALSE)
    /\ state.phase = "swapped"
    /\ Hold(p, state)
    /\ Goto(p, "c_verify")
    /\ UNCHANGED <<content, running, rebootDue>> /\ KeepFile

\* LoadState, the phase switch and CurrentSlot.
CommitLoad(p) ==
    /\ Starts(p, FALSE)
    /\ state.phase = "swapped"
    /\ Hold(p, state)
    /\ Goto(p, IF running = state.target THEN "c_verify" ELSE "c_fail")
    /\ UNCHANGED <<content, running, rebootDue>> /\ KeepFile

CommitVerify(p, ok) ==
    /\ pc[p] = "c_verify"
    /\ Goto(p, IF ok THEN "c_health" ELSE "c_fail")
    /\ UNCHANGED <<rec, board, state>>

\* Fault variant: commit clears the record without MarkGood.
CommitHealthNoMark(p) ==
    /\ pc[p] = "c_health"
    /\ \E l \in {"c_clear", "c_fail"} : Goto(p, l)
    /\ UNCHANGED <<rec, board>> /\ KeepFile

CommitHealth(p) ==
    /\ pc[p] = "c_health"
    /\ \E l \in {"c_good", "c_fail"} : Goto(p, l)
    /\ UNCHANGED <<rec, board>> /\ KeepFile

\* Fault variant: a failed commit exits without marking the record.
CommitFailSilent(p) ==
    /\ pc[p] = "c_fail"
    /\ KeepFile
    /\ Done(p)
    /\ UNCHANGED board

\* Commit's three failure branches mark the record failed.
CommitFail(p) ==
    /\ pc[p] = "c_fail"
    /\ \/ SaveFile([rec[p] EXCEPT !.phase = "failed"])
       \/ "save" \in Faults /\ KeepFile
    /\ Done(p)
    /\ UNCHANGED board

\* A failing MarkGood is logged and commit goes on.
CommitGood(p) ==
    /\ pc[p] = "c_good"
    /\ Goto(p, "c_clear")
    /\ UNCHANGED <<rec, board, state>>

\* ClearState, then the history and the advisory hooks, which decide nothing.
CommitClear(p) ==
    /\ pc[p] = "c_clear"
    /\ ClearFile \/ ClearFails
    /\ Done(p)
    /\ UNCHANGED board

---------------------------------------------------------------------------
(* rollback, switch and mark-good *)

RollbackLoad(p) ==
    /\ "rollback" \in Verbs
    /\ Starts(p, FALSE)
    /\ state # NoRec
    /\ Hold(p, state)
    /\ Goto(p, IF running = Other(state.target) THEN "r_abort" ELSE "r_swap")
    /\ UNCHANGED board /\ KeepFile

RollbackAbort(p, ok) ==
    /\ pc[p] = "r_abort"
    /\ IF ok THEN Goto(p, "r_swap") /\ UNCHANGED rec ELSE Done(p)
    /\ UNCHANGED <<board, state>>

RollbackSwap(p, ok) ==
    /\ pc[p] = "r_swap"
    /\ IF ok THEN Goto(p, "r_clear") /\ UNCHANGED rec ELSE Done(p)
    /\ UNCHANGED <<board, state>>

\* RebootRequired tells the caller whether the swap back still has to happen.
RollbackClear(p) ==
    /\ pc[p] = "r_clear"
    /\ \/ ClearFile /\ rebootDue' = (running = rec[p].target)
       \/ ClearFails /\ UNCHANGED rebootDue
    /\ Done(p)
    /\ UNCHANGED <<content, running, units>>

\* The caller asks for the other slot, and only when that slot boots: the
\* precondition Switch documents and does not test.
SwitchLoad(p) ==
    /\ "switch" \in Verbs
    /\ Starts(p, TRUE)
    /\ state = NoRec
    /\ content[Other(running)] = "good"
    /\ Goto(p, "s_prep")
    /\ UNCHANGED <<rec, board>> /\ KeepFile

SwitchPrepare(p, ok) ==
    /\ pc[p] = "s_prep"
    /\ Goto(p, IF ok THEN "s_swap" ELSE "idle")
    /\ UNCHANGED <<rec, board, state>>

\* Fault variant: switch does not report that a reboot is required.
SwitchSwapSilent(p, ok) ==
    /\ pc[p] = "s_swap"
    /\ Done(p)
    /\ UNCHANGED <<board, state>>

SwitchSwap(p, ok) ==
    /\ pc[p] = "s_swap"
    /\ Done(p)
    /\ rebootDue' = (ok \/ rebootDue)
    /\ UNCHANGED <<content, running, units, state>>

MarkGoodStart(p) ==
    /\ "mark-good" \in Verbs
    /\ Starts(p, FALSE)
    /\ Goto(p, "m_good")
    /\ UNCHANGED <<rec, board>> /\ KeepFile

MarkGoodCall(p, ok) ==
    /\ pc[p] = "m_good"
    /\ Goto(p, IF ok THEN "m_clear" ELSE "idle")
    /\ UNCHANGED <<rec, board, state>>

MarkGoodClear(p) ==
    /\ pc[p] = "m_clear"
    /\ ClearFile \/ ClearFails
    /\ Done(p)
    /\ UNCHANGED board

---------------------------------------------------------------------------
(* The units of a boot: verify first, commit after it has finished. *)

VerifyLoad(p) ==
    /\ "verify" \in units
    /\ Starts(p, FALSE)
    /\ units' = units \ {"verify"}
    /\ \/ state.phase = "swapped" /\ Hold(p, state) /\ Goto(p, "v_check")
       \/ (state.phase # "swapped" \/ "read" \in Faults) /\ UNCHANGED <<pc, rec>>
    /\ UNCHANGED <<content, running, rebootDue>> /\ KeepFile

\* An error from either probe counts as a healthy answer.
Probes(compromised) ==
    IF "read" \in Faults THEN {compromised, FALSE} ELSE {compromised}

VerifyCheck(p, compromised) ==
    /\ pc[p] = "v_check"
    /\ \/ /\ compromised \/ running # rec[p].target
          /\ Goto(p, "v_fail") /\ UNCHANGED rec
       \/ /\ ~compromised
          /\ running = rec[p].target \/ "read" \in Faults
          /\ Done(p)
    /\ UNCHANGED <<board, state>>

VerifyFail(p) ==
    /\ pc[p] = "v_fail"
    /\ \/ SaveFile([rec[p] EXCEPT !.phase = "failed"])
       \/ "save" \in Faults /\ KeepFile
    /\ Done(p)
    /\ UNCHANGED board

CommitByHand(p) ==
    /\ "commit" \in Verbs
    /\ CommitLoad(p)
    /\ UNCHANGED units

CommitByUnit(p) ==
    /\ "commit" \in units
    /\ "verify" \notin units /\ \A q \in Procs : pc[q] \notin VerifyPcs
    /\ units' = units \ {"commit"}
    /\ \/ CommitLoad(p)
       \/ /\ Starts(p, FALSE)
          /\ state.phase # "swapped" \/ "read" \in Faults
          /\ UNCHANGED <<pc, rec, content, running, rebootDue>> /\ KeepFile

---------------------------------------------------------------------------
(* What happens to the engine when the board goes down and comes up. *)

GoDown ==
    /\ running' = Off
    /\ pc' = [p \in Procs |-> "idle"]
    /\ rec' = [p \in Procs |-> NoRec]
    /\ units' = {}
    /\ rebootDue' = FALSE
    /\ UNCHANGED content

ComeUp(s) ==
    /\ running' = s
    /\ units' = Units
    /\ UNCHANGED <<pc, rec, content, rebootDue>>

\* The steps that call no connector method with an effect.
EngineStep(p) ==
    \/ InstallStart(p)  \/ InstallWrite(p) \/ InstallVerify(p) \/ InstallSave(p)
    \/ InstallMark(p)   \/ InstallPost(p)  \/ UnwindClear(p)
    \/ CommitByHand(p)  \/ CommitByUnit(p) \/ CommitHealth(p)
    \/ CommitFail(p)    \/ CommitClear(p)
    \/ RollbackLoad(p)  \/ RollbackClear(p)
    \/ SwitchLoad(p)    \/ MarkGoodStart(p) \/ MarkGoodClear(p)
    \/ VerifyLoad(p)    \/ VerifyFail(p)
=============================================================================
