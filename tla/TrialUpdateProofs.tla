-------------------------- MODULE TrialUpdateProofs --------------------------
(***************************************************************************)
(* Theorems about TrialUpdate, for every number of processes, every boot   *)
(* limit, and whichever verbs, units, faults and promises there are.       *)
(***************************************************************************)
EXTENDS TrialUpdate, EngineProofs

\* The environments the connector writes.
LEMMA EnvValues ==
  ASSUME NEW s \in Slots
  PROVE  Pinned(s) \in Envs /\ Trial(s) \in Envs
  BY BootLimitAssumption DEF Pinned, Trial, Envs

\* The environment stays well typed under a call and under a boot attempt.
LEMMA SetEnvType ==
  ASSUME EnvTypeOK, NEW e \in Envs, SetEnv(e)
  PROVE  EnvTypeOK'
  BY DEF EnvTypeOK, SetEnv

LEMMA CountAttemptType ==
  ASSUME EnvTypeOK, CountAttempt
  PROVE  env' \in Envs
  BY BootLimitAssumption DEF EnvTypeOK, CountAttempt, Attempts, Envs

LEMMA BootChoiceType ==
  ASSUME EnvTypeOK
  PROVE  BootChoice \in Slots
  BY OtherType DEF EnvTypeOK, BootChoice, Envs

\* Whatever call a process is about to make, it leaves a well-typed environment.
LEMMA CallWritesType ==
  ASSUME TypeOK, NEW p \in Procs, running # Off, CallWrites(p)
  PROVE  EnvTypeOK'
<1> USE DEF TypeOK
<1>1. rec[p].target \in Slots /\ running \in Slots
  BY PhaseOfRecord DEF EngineTypeOK
<1>2. Other(rec[p].target) \in Slots /\ Other(running) \in Slots
  BY <1>1, OtherType
<1>3. env.slot \in Slots
  BY DEF EnvTypeOK, Envs
<1>4. CASE \E e \in Envs : SetEnv(e)
  BY <1>4, SetEnvType
<1>5. \E e \in Envs : SetEnv(e)
  BY <1>1, <1>2, <1>3, EnvValues DEF CallWrites, PrepareTarget, SwapSlot, MarkGood
<1>6. QED  BY <1>4, <1>5

---------------------------------------------------------------------------
(* Type correctness *)

\* The calls that write the environment, and the ones that do nothing here.
LEMMA CallIsEngines ==
  ASSUME TypeOK, NEW p \in Procs, EnvCall(p) \/ NoPlatformUpdate(p) \/ VerifyProbe(p)
  PROVE  \E ok \in BOOLEAN : EngineCall(p, ok)
<1>1. Probes(BootIsCompromised(running)) \subseteq BOOLEAN
  BY DEF TypeOK, BootIsCompromised, Probes, EnvTypeOK, Envs
<1> QED  BY <1>1 DEF EnvCall, NoPlatformUpdate, VerifyProbe, EngineCall

LEMMA CallType ==
  ASSUME TypeOK, NEW p \in Procs, running # Off,
         EnvCall(p) \/ NoPlatformUpdate(p) \/ VerifyProbe(p)
  PROVE  TypeOK'
<1> USE DEF TypeOK
<1>1. EngineTypeOK' /\ state' = state
  BY CallIsEngines, EngineCallType
<1>2. CASE EnvCall(p)
  <2>1. \/ CallWrites(p) /\ disk' = state
        \/ UNCHANGED <<envVars, disk>>
    BY <1>2 DEF EnvCall, CallFails
  <2>2. EnvTypeOK' /\ disk' \in Records
    BY <2>1, CallWritesType DEF EnvTypeOK, FileTypeOK, envVars
  <2> QED  BY <1>1, <1>2, <2>2 DEF FileTypeOK
<1>3. CASE NoPlatformUpdate(p) \/ VerifyProbe(p)
  BY <1>1, <1>3 DEF NoPlatformUpdate, VerifyProbe, EnvTypeOK, FileTypeOK, envVars
<1> QED  BY <1>2, <1>3

\* A board that goes down, a boot attempt and a writeback.
LEMMA OffStepType ==
  ASSUME TypeOK, Boot \/ Reboot \/ PowerCut \/ Flush
  PROVE  TypeOK'
<1> USE DEF TypeOK
<1>2. CASE Boot
  <2>1. EnvTypeOK' /\ FileTypeOK'
    BY <1>2, CountAttemptType, FileOpTypes DEF Boot, EnvTypeOK
  <2>2. EngineTypeOK'
    BY <1>2, BootChoiceType, EngineAssumption DEF Boot, ComeUp, EngineTypeOK, board
  <2> QED  BY <2>1, <2>2
<1>3. CASE Reboot \/ PowerCut
  BY <1>3, GoDownType, FileOpTypes DEF Reboot, PowerCut, EnvTypeOK, envVars
<1>4. CASE Flush
  BY <1>4, FileOpTypes DEF Flush, EnvTypeOK, EngineTypeOK, envVars, board
<1> QED  BY <1>2, <1>3, <1>4

\* A process that is killed, and a power cut inside a call.
LEMMA PowerType ==
  ASSUME TypeOK, NEW p \in Procs, running # Off, Kill(p) \/ PowerCutInCall(p)
  PROVE  TypeOK'
<1> USE DEF TypeOK
<1>1. CASE Kill(p)
  <2>1. EnvTypeOK'
    BY <1>1, CallWritesType DEF Kill, EnvTypeOK, envVars
  <2> QED  BY <1>1, <2>1, DoneType DEF Kill, EngineTypeOK, FileTypeOK
<1>2. CASE PowerCutInCall(p)
  BY <1>2, GoDownType, CallWritesType, FileOpTypes DEF PowerCutInCall
<1> QED  BY <1>1, <1>2

\* Nothing runs on a board that is down, so every call finds a running slot.
DownIsIdle == running = Off => Idle

LEMMA WorksOnlyUp ==
  ASSUME DownIsIdle, NEW p \in Procs, Step(p) \/ Kill(p) \/ PowerCutInCall(p)
  PROVE  running # Off
<1>1. pc[p] # "idle" => running # Off
  BY DEF DownIsIdle, Idle
<1>2. CASE EngineStep(p)
  BY <1>1, <1>2
  DEF EngineStep, InstallStart, InstallWrite, InstallVerify, InstallSave, InstallMark,
      InstallPost, UnwindClear, CommitByHand, CommitByUnit, CommitLoad, CommitHealth,
      CommitFail, CommitClear, RollbackLoad, RollbackClear, SwitchLoad, MarkGoodStart,
      MarkGoodClear, VerifyLoad, VerifyFail, Starts
<1>3. CASE EnvCall(p)
  BY <1>1, <1>3 DEF EnvCall, FaultAt
<1>4. CASE NoPlatformUpdate(p) \/ VerifyProbe(p)
  BY <1>1, <1>4
  DEF NoPlatformUpdate, VerifyProbe, UnwindAbort, RollbackAbort, CommitVerify, VerifyCheck
<1>5. CASE Kill(p)
  BY <1>1, <1>5 DEF Kill
<1>6. CASE PowerCutInCall(p)
  BY <1>1, <1>6 DEF PowerCutInCall, CallWrites
<1> QED  BY <1>2, <1>3, <1>4, <1>5, <1>6 DEF Step

LEMMA DownIsIdleKept ==
  ASSUME TypeOK, DownIsIdle, [Next]_vars
  PROVE  DownIsIdle'
<1>1. CASE UNCHANGED vars
  BY <1>1 DEF vars, DownIsIdle, Idle
<1>2. CASE GoDown
  BY <1>2 DEF GoDown, DownIsIdle, Idle
<1>3. CASE running' # Off
  BY <1>3 DEF DownIsIdle
<1>4. CASE Boot \/ Flush
  BY <1>4 DEF Boot, ComeUp, Flush, board, DownIsIdle, Idle
<1>5. ASSUME NEW p \in Procs, Step(p) \/ Kill(p)
      PROVE  running' = running
  BY <1>5, StepsStayUp, CallIsEngines DEF Step, Kill
<1>6. ASSUME NEW p \in Procs, Step(p) \/ Kill(p)
      PROVE  DownIsIdle'
  BY <1>3, <1>5, <1>6, WorksOnlyUp
<1> QED
  BY <1>1, <1>2, <1>4, <1>6 DEF Next, Reboot, PowerCut, PowerCutInCall

LEMMA InitTypes == Init => TypeOK /\ DownIsIdle
<1> SUFFICES ASSUME Init PROVE TypeOK /\ DownIsIdle
  OBVIOUS
<1>1. FileTypeOK
  BY NoRecType DEF Init, FileInit, FileTypeOK
<1>2. EnvTypeOK
  BY BootLimitAssumption DEF Init, EnvInit, EnvTypeOK, Envs, Slots
<1>3. EngineTypeOK
  BY NoRecType DEF Init, EngineInit, EngineTypeOK, Pcs, Slots, Images
<1>4. DownIsIdle
  BY DEF Init, EngineInit, DownIsIdle, Idle
<1> QED  BY <1>1, <1>2, <1>3, <1>4 DEF TypeOK

LEMMA TypeKept ==
  ASSUME TypeOK, DownIsIdle, [Next]_vars
  PROVE  TypeOK'
<1>1. CASE UNCHANGED vars
  BY <1>1 DEF vars, TypeOK, FileTypeOK, EnvTypeOK, EngineTypeOK
<1>2. ASSUME NEW p \in Procs, EngineStep(p), UNCHANGED envVars
      PROVE  TypeOK'
  BY <1>2, EngineStepType DEF TypeOK, EnvTypeOK, envVars
<1>3. ASSUME NEW p \in Procs, Step(p) \/ Kill(p) \/ PowerCutInCall(p)
      PROVE  TypeOK'
  BY <1>2, <1>3, WorksOnlyUp, CallType, PowerType DEF Step
<1>4. CASE Boot \/ Reboot \/ PowerCut \/ Flush
  BY <1>4, OffStepType
<1> QED  BY <1>1, <1>3, <1>4 DEF Next

\* Every variable keeps its type, whatever fails, is killed or loses power.
THEOREM TypeCorrect == Spec => []TypeOK
<1>1. Init => TypeOK /\ DownIsIdle
  BY InitTypes
<1>2. (TypeOK /\ DownIsIdle) /\ [Next]_vars => (TypeOK /\ DownIsIdle)'
  BY TypeKept, DownIsIdleKept
<1> QED  BY <1>1, <1>2, PTL DEF Spec

---------------------------------------------------------------------------
(* No orphan trial *)

\* What the theorem asks of the platform, next to InstallsAlone: MarkGood, the unwind
\* and the mount of /boot do not fail.
NoUnseenFailure == Faults \cap {"markgood", "unwind", "mount"} = {}

\* The engine's steps that touch no connector variable.
LEMMA EngineStepBacked ==
  ASSUME InstallsAlone, TypeOK, TrialBacked, NEW p \in Procs,
         EngineStep(p), UNCHANGED envVars
  PROVE  TrialBacked'
<1> USE DEF TrialBacked, envVars, board, Goto, Done, Hold, KeepFile, ClearPcs, AlonePcs, InstallPcs
<1>1. pc \in [Procs -> Pcs] /\ rec \in [Procs -> Records]
  BY DEF TypeOK, EngineTypeOK
<1>2. NoRec.phase = "none" /\ \A r \in Records : \A ph \in Phases : [r EXCEPT !.phase = ph] # NoRec
  BY WithPhase DEF NoRec
<1>a. CASE InstallStart(p)
  <2>1. \A q \in Procs : pc[q] = "idle"
    BY <1>a, StartsAlone DEF InstallStart, Starts
  <2>2. /\ rec'[p] # NoRec /\ pc'[p] = "i_write"
        /\ \A q \in Procs : q # p => pc'[q] = "idle"
        /\ state' = state /\ disk' = disk
    BY <1>a, <1>1, <2>1 DEF InstallStart, NoRec
  <2> QED  BY <2>2
<1>b. CASE InstallWrite(p)
  BY <1>b, <1>1, <1>2, StartsAlone DEF InstallWrite
<1>c. CASE InstallVerify(p)
  BY <1>c, <1>1, <1>2, StartsAlone DEF InstallVerify
<1>d. CASE InstallSave(p)
  BY <1>d, <1>1, <1>2, StartsAlone DEF InstallSave, SaveThen, SaveFile
<1>e. CASE InstallMark(p)
  BY <1>e, <1>1, <1>2, StartsAlone DEF InstallMark, SaveThen, SaveFile, Phases
<1>f. CASE InstallPost(p)
  BY <1>f, <1>1, <1>2, StartsAlone DEF InstallPost
<1>g. CASE UnwindClear(p)
  BY <1>g, <1>1, <1>2, StartsAlone DEF UnwindClear, ClearFails, ClearFile
<1>i. CASE CommitByHand(p)
  BY <1>i, <1>1, <1>2, StartsAlone DEF CommitByHand, CommitLoad
<1>j. CASE CommitByUnit(p)
  <2>1. CASE CommitLoad(p)
    BY <2>1, <1>1, <1>2, StartsAlone DEF CommitLoad
  <2>2. CASE UNCHANGED <<pc, rec>> /\ KeepFile
    BY <2>2
  <2> QED  BY <1>j, <2>1, <2>2 DEF CommitByUnit
<1>k. CASE CommitHealth(p)
  BY <1>k, <1>1, <1>2, StartsAlone DEF CommitHealth
<1>l. CASE CommitFail(p)
  BY <1>l, <1>1, <1>2, StartsAlone DEF CommitFail, SaveFile, Phases
<1>m. CASE CommitClear(p)
  BY <1>m, <1>1, <1>2, StartsAlone DEF CommitClear, ClearFails, ClearFile
<1>n. CASE RollbackLoad(p)
  BY <1>n, <1>1, <1>2, StartsAlone DEF RollbackLoad
<1>o. CASE RollbackClear(p)
  BY <1>o, <1>1, <1>2, StartsAlone DEF RollbackClear, ClearFails, ClearFile
<1>q. CASE SwitchLoad(p)
  BY <1>q, <1>1, <1>2, StartsAlone DEF SwitchLoad
<1>r. CASE MarkGoodStart(p)
  BY <1>r, <1>1, <1>2, StartsAlone DEF MarkGoodStart
<1>s. CASE MarkGoodClear(p)
  BY <1>s, <1>1, <1>2, StartsAlone DEF MarkGoodClear, ClearFails, ClearFile
<1>t. CASE VerifyLoad(p)
  <2>1. CASE Hold(p, state) /\ Goto(p, "v_check")
    <3>1. \A q \in Procs : q # p => pc[q] \notin AlonePcs
      BY <1>t, StartsAlone DEF VerifyLoad
    <3> QED  BY <1>t, <2>1, <1>1, <3>1 DEF VerifyLoad
  <2>2. CASE UNCHANGED <<pc, rec>>
    BY <1>t, <2>2 DEF VerifyLoad
  <2> QED  BY <1>t, <2>1, <2>2 DEF VerifyLoad
<1>u. CASE VerifyFail(p)
  BY <1>u, <1>1, <1>2, StartsAlone DEF VerifyFail, SaveFile, Phases
<1> QED
  BY <1>a, <1>b, <1>c, <1>d, <1>e, <1>f, <1>g, <1>i, <1>j, <1>k, <1>l, <1>m, <1>n, <1>o, <1>q, <1>r, <1>s, <1>t, <1>u DEF EngineStep

LEMMA ArmedBits == \A s : Pinned(s).armed = FALSE /\ Trial(s).armed = TRUE
  BY DEF Pinned, Trial

LEMMA MountedWrite ==
  ASSUME bootMounted, NEW e, SetEnv(e)
  PROVE  bootMounted' /\ env' = e
  BY DEF SetEnv

\* The one call that arms a trial is install's SwapSlot; every other disarms.
LEMMA CallEffect ==
  ASSUME bootMounted, NEW p \in Procs, CallWrites(p)
  PROVE  /\ bootMounted'
         /\ pc[p] # "i_swap" => env'.armed = FALSE
<1>1. CASE pc[p] = "i_swap"
  BY <1>1, MountedWrite DEF CallWrites, SwapSlot
<1>2. CASE pc[p] # "i_swap"
  <2>1. \E s : SetEnv(Pinned(s))
    BY <1>2, Zenon DEF CallWrites, PrepareTarget, SwapSlot, MarkGood
  <2> QED  BY <2>1, <1>2, MountedWrite, ArmedBits
<1> QED  BY <1>1, <1>2

\* A call to the connector: the record is durable before the trial is armed.
LEMMA EnvCallBacked ==
  ASSUME NoUnseenFailure, TypeOK, TrialBacked, NEW p \in Procs, EnvCall(p)
  PROVE  TrialBacked'
<1> USE DEF ClearPcs, AlonePcs, InstallPcs
<1>1. pc \in [Procs -> Pcs] /\ rec \in [Procs -> Records]
  BY DEF TypeOK, EngineTypeOK
<1>2. bootMounted
  BY DEF TrialBacked
<1>3. PICK ok \in BOOLEAN :
        /\ \/ InstallPrepare(p, ok) \/ InstallSwap(p, ok)
           \/ UnwindSwap(p)
           \/ CommitGood(p)
           \/ RollbackSwap(p, ok)
           \/ SwitchPrepare(p, ok)  \/ SwitchSwap(p, ok)
           \/ MarkGoodCall(p, ok)
        /\ IF ok THEN CallWrites(p) /\ disk' = state ELSE CallFails(p)
  BY DEF EnvCall
<1>4. state' = state /\ \A q \in Procs : q # p => pc'[q] = pc[q] /\ rec'[q] = rec[q]
  BY <1>1, <1>3
  DEF InstallPrepare, InstallSwap, UnwindSwap, CommitGood, RollbackSwap, SwitchPrepare,
      SwitchSwap, MarkGoodCall, Goto, Done
\* The call succeeded.
<1>5. CASE ok
  <2>1. /\ bootMounted' /\ disk' = state
        /\ pc[p] # "i_swap" => env'.armed = FALSE
    BY <1>2, <1>3, <1>5, CallEffect
  <2>2. CASE pc[p] = "i_swap"
    <3>1. pc'[p] = "i_mark"
      BY <1>1, <1>3, <1>5, <2>2
      DEF InstallPrepare, InstallSwap, UnwindSwap, CommitGood, RollbackSwap, SwitchPrepare,
          SwitchSwap, MarkGoodCall, Goto
    <3> QED  BY <1>4, <2>1, <2>2, <3>1 DEF TrialBacked
  <2>3. CASE pc[p] # "i_swap"
    <3>1. /\ pc[p] # "idle"
          /\ pc'[p] \in AlonePcs => pc[p] \in AlonePcs
          /\ pc'[p] = "i_swap" => pc[p] = "i_prep"
          /\ pc'[p] \notin {"i_write", "i_stream", "i_save", "i_prep"}
      BY <1>1, <1>3, <1>5, <2>3
      DEF InstallPrepare, InstallSwap, UnwindSwap, CommitGood, RollbackSwap, SwitchPrepare,
          SwitchSwap, MarkGoodCall, Goto, Done
    <3> QED  BY <1>4, <2>1, <2>3, <3>1 DEF TrialBacked
  <2> QED  BY <2>2, <2>3
\* It failed, seen by its caller.
<1>6. CASE ~ok
  <2>1. UNCHANGED <<env, bootMounted, disk>> /\ FaultAt[pc[p]] \notin {"markgood", "unwind"}
    BY <1>2, <1>3, <1>6 DEF CallFails, NoUnseenFailure, envVars, EnvWritable
  <2>2. pc[p] \notin {"c_good", "m_good", "u_swap"}
    BY <2>1 DEF FaultAt
  <2>3. pc'[p] = "idle"
    BY <1>1, <1>3, <1>6, <2>2
    DEF InstallPrepare, InstallSwap, UnwindSwap, CommitGood, RollbackSwap, SwitchPrepare,
        SwitchSwap, MarkGoodCall, Goto, Done
  <2> QED  BY <1>4, <2>1, <2>3 DEF TrialBacked
<1> QED  BY <1>5, <1>6

\* The calls without an effect.
LEMMA QuietCallBacked ==
  ASSUME TypeOK, TrialBacked, NEW p \in Procs, NoPlatformUpdate(p) \/ VerifyProbe(p)
  PROVE  TrialBacked'
<1>1. /\ UNCHANGED <<env, bootMounted, state, disk>>
      /\ \A q \in Procs : q # p => pc'[q] = pc[q] /\ rec'[q] = rec[q]
      /\ pc[p] # "idle"
      /\ pc'[p] \in {"u_swap", "r_swap", "c_health", "v_fail", "idle"}
      /\ pc'[p] \in AlonePcs => pc[p] \in AlonePcs
  BY DEF NoPlatformUpdate, VerifyProbe, UnwindAbort, RollbackAbort, CommitVerify,
         VerifyCheck, envVars, Goto, Done, AlonePcs, InstallPcs, TypeOK, EngineTypeOK
<1> QED  BY <1>1 DEF TrialBacked, ClearPcs, AlonePcs, InstallPcs

\* What a call interrupted after its write has done.
LEMMA CallWritesBacked ==
  ASSUME TrialBacked, NEW p \in Procs, CallWrites(p)
  PROVE  /\ bootMounted'
         /\ env'.armed => state # NoRec /\ disk # NoRec
         /\ env'.armed => pc[p] = "i_swap"
  BY CallEffect DEF TrialBacked

LEMMA KillBacked ==
  ASSUME TypeOK, TrialBacked, NEW p \in Procs, Kill(p)
  PROVE  TrialBacked'
<1>1. pc \in [Procs -> Pcs] /\ rec \in [Procs -> Records]
  BY DEF TypeOK, EngineTypeOK
<1>2. /\ bootMounted'
      /\ env'.armed => state # NoRec /\ disk # NoRec
      /\ env'.armed => env.armed \/ pc[p] = "i_swap"
  BY CallWritesBacked DEF Kill, TrialBacked, envVars
<1>3. /\ pc' = [pc EXCEPT ![p] = "idle"] /\ rec' = [rec EXCEPT ![p] = NoRec]
      /\ state' = state /\ disk' = disk
  BY DEF Kill, Done, Goto
<1>4. pc'[p] = "idle" /\ \A q \in Procs : q # p => pc'[q] = pc[q] /\ rec'[q] = rec[q]
  BY <1>1, <1>3
<1>5. \A q \in Procs : q # p /\ pc[q] \in ClearPcs => ~env'.armed
  BY <1>2 DEF TrialBacked, ClearPcs, AlonePcs, InstallPcs
<1> QED
  BY <1>2, <1>3, <1>4, <1>5 DEF TrialBacked, ClearPcs, AlonePcs, InstallPcs

LEMMA PowerBacked ==
  ASSUME NoUnseenFailure, TypeOK, DownIsIdle, TrialBacked,
         \/ Boot \/ Reboot \/ PowerCut \/ Flush
         \/ \E p \in Procs : PowerCutInCall(p)
  PROVE  TrialBacked'
<1> USE DEF ClearPcs, AlonePcs, InstallPcs
<1>1. CASE Boot
  <2>1. bootMounted'
    <3>1. "mount" \notin Faults
      BY DEF NoUnseenFailure
    <3>2. bootMounted' \in {TRUE}
      BY <1>1, <3>1, SMT DEF Boot
    <3> QED  BY <3>2, Zenon
  <2>2. pc' = pc /\ rec' = rec /\ state' = state /\ disk' = disk
    BY <1>1 DEF Boot, ComeUp, KeepFile, board
  <2>3. env'.armed = env.armed
    BY <1>1 DEF Boot, CountAttempt, TypeOK, EnvTypeOK, Envs
  <2> QED  BY <2>1, <2>2, <2>3 DEF TrialBacked
<1>2. CASE Reboot \/ PowerCut
  BY <1>2 DEF Reboot, PowerCut, GoDown, SyncFile, LoseFile, envVars, TrialBacked
<1>3. CASE Flush
  BY <1>3 DEF Flush, SyncFile, envVars, board, TrialBacked
<1>4. ASSUME NEW p \in Procs, PowerCutInCall(p)
      PROVE  TrialBacked'
  <2>1. bootMounted' /\ (env'.armed => disk # NoRec)
    BY <1>4, CallWritesBacked DEF PowerCutInCall
  <2> QED  BY <1>4, <2>1 DEF PowerCutInCall, GoDown, LoseFile, TrialBacked
<1> QED  BY <1>1, <1>2, <1>3, <1>4

LEMMA BackedKept ==
  ASSUME InstallsAlone, NoUnseenFailure, TypeOK, DownIsIdle, TrialBacked, [Next]_vars
  PROVE  TrialBacked'
<1>1. CASE UNCHANGED vars
  BY <1>1 DEF vars, TrialBacked
<1>2. ASSUME NEW p \in Procs, Step(p)
      PROVE  TrialBacked'
  BY <1>2, EngineStepBacked, EnvCallBacked, QuietCallBacked DEF Step
<1>3. CASE \/ \E p \in Procs : PowerCutInCall(p)
           \/ Boot \/ Reboot \/ PowerCut \/ Flush
  BY <1>3, PowerBacked
<1> QED  BY <1>1, <1>2, <1>3, KillBacked DEF Next

LEMMA BackedAlways ==
  ASSUME InstallsAlone, NoUnseenFailure
  PROVE  Spec => [](TypeOK /\ DownIsIdle /\ TrialBacked)
<1>1. Init => TypeOK /\ DownIsIdle /\ TrialBacked
  BY InitTypes DEF Init, FileInit, EnvInit, EngineInit, TrialBacked, ClearPcs, AlonePcs, InstallPcs
<1>2. (TypeOK /\ DownIsIdle /\ TrialBacked) /\ [Next]_vars
        => (TypeOK /\ DownIsIdle /\ TrialBacked)'
  BY TypeKept, DownIsIdleKept, BackedKept
<1> QED  BY <1>1, <1>2, PTL DEF Spec

\* The record behind an armed trial is on the medium, in every state: with
\* install and switch run alone, and whatever else fails, dies or loses power.
THEOREM NoOrphan ==
  ASSUME InstallsAlone, NoUnseenFailure
  PROVE  Spec => []NoOrphanTrial
<1>1. TypeOK /\ DownIsIdle /\ TrialBacked => NoOrphanTrial
  BY DEF TrialBacked, NoOrphanTrial
<1> QED  BY <1>1, BackedAlways, PTL

\* Why: every call that arms or disarms a trial finds its record saved, synced or
\* still there.
THEOREM BackedByRecord ==
  ASSUME InstallsAlone, NoUnseenFailure
  PROVE  Spec => []TrialBacked
  BY BackedAlways, PTL

---------------------------------------------------------------------------
(* A trial is of a verified image *)

Streaming == {"i_write", "i_stream", "i_save"}
Verifying == {"i_save", "i_prep", "i_swap"}

\* No slot is written while a record, and so a trial, may be there; and what
\* install goes on with is whole.
Verified ==
    /\ TrialVerified
    /\ \A p \in Procs :
          /\ pc[p] \in Streaming => state = NoRec
          /\ pc[p] \in Verifying => content[rec[p].target] # "torn"

\* While one process works, no other one is installing.
LEMMA OthersAway ==
  ASSUME InstallsAlone, TypeOK, TrialBacked, NEW p \in Procs, Step(p)
  PROVE  \A q \in Procs : q # p =>
            pc[q] \notin AlonePcs /\ pc'[q] = pc[q] /\ rec'[q] = rec[q]
<1>1. pc \in [Procs -> Pcs] /\ rec \in [Procs -> Records]
  BY DEF TypeOK, EngineTypeOK
<1>2. pc[p] = "idle" => \A q \in Procs : q # p => pc[q] \notin AlonePcs
  <2>1. SUFFICES ASSUME pc[p] = "idle" PROVE Starts(p, TRUE) \/ Starts(p, FALSE)
    BY StartsAlone
  <2>2. EngineStep(p)
    BY <2>1 DEF Step, EnvCall, NoPlatformUpdate, VerifyProbe, FaultAt, UnwindAbort, RollbackAbort,
                CommitVerify, VerifyCheck
  <2> QED
    BY <2>1, <2>2
    DEF EngineStep, InstallStart, InstallWrite, InstallVerify, InstallSave, InstallMark, InstallPost,
        UnwindClear, CommitByHand, CommitByUnit, CommitLoad, CommitHealth, CommitFail, CommitClear,
        RollbackLoad, RollbackClear, SwitchLoad, MarkGoodStart, MarkGoodClear, VerifyLoad, VerifyFail
<1>3. pc[p] # "idle" => \A q \in Procs : q # p => pc[q] \notin AlonePcs
  BY DEF TrialBacked
<1>4. \A q \in Procs : q # p => pc'[q] = pc[q] /\ rec'[q] = rec[q]
  <2>1. CASE EngineStep(p)
    BY <1>1, <2>1
    DEF EngineStep, InstallStart, InstallWrite, InstallVerify, InstallSave, InstallMark, InstallPost,
        UnwindClear, CommitByHand, CommitByUnit, CommitLoad, CommitHealth, CommitFail, CommitClear,
        RollbackLoad, RollbackClear, SwitchLoad, MarkGoodStart, MarkGoodClear, VerifyLoad, VerifyFail,
        SaveThen, Goto, Done, Hold
  <2>2. CASE EnvCall(p)
    BY <1>1, <2>2
    DEF EnvCall, InstallPrepare, InstallSwap, UnwindSwap, CommitGood, RollbackSwap, SwitchPrepare,
        SwitchSwap, MarkGoodCall, Goto, Done
  <2>3. CASE NoPlatformUpdate(p) \/ VerifyProbe(p)
    BY <1>1, <2>3
    DEF NoPlatformUpdate, VerifyProbe, UnwindAbort, RollbackAbort, CommitVerify, VerifyCheck, Goto, Done
  <2> QED  BY <2>1, <2>2, <2>3 DEF Step
<1> QED  BY <1>2, <1>3, <1>4

\* It is enough to look at the process that works and at the trial.
LEMMA OwnVerified ==
  ASSUME InstallsAlone, TypeOK, TrialBacked, Verified, NEW p \in Procs, Step(p),
         TrialVerified',
         pc'[p] \in Streaming => state' = NoRec,
         pc'[p] \in Verifying => content'[rec'[p].target] # "torn"
  PROVE  Verified'
<1>1. \A q \in Procs : q # p =>
         pc'[q] \notin Streaming /\ pc'[q] \notin Verifying
  BY OthersAway DEF AlonePcs, InstallPcs, Streaming, Verifying
<1> QED  BY <1>1 DEF Verified

LEMMA EngineStepVerified ==
  ASSUME InstallsAlone, TypeOK, TrialBacked, Verified, NEW p \in Procs,
         EngineStep(p), UNCHANGED envVars
  PROVE  Verified'
<1> USE DEF envVars, Goto, Done, Hold, Streaming, Verifying
<1>1. /\ pc \in [Procs -> Pcs] /\ rec \in [Procs -> Records] /\ content \in [Slots -> Images]
      /\ rec[p].target \in Slots
  BY PhaseOfRecord DEF TypeOK, EngineTypeOK
<1>2. Step(p)
  BY DEF Step
<1>3. CASE InstallWrite(p) \/ InstallVerify(p)
  <2>1. ~env'.armed
    BY <1>3 DEF InstallWrite, InstallVerify, Verified, TrialBacked
  <2>2. TrialVerified'
    BY <2>1 DEF TrialVerified
  <2>3. state' = state /\ state = NoRec
    BY <1>3 DEF InstallWrite, InstallVerify, Verified, KeepFile
  <2>4. pc'[p] \in Verifying => content'[rec'[p].target] # "torn"
    BY <1>1, <1>3 DEF InstallWrite, InstallVerify, InstallsAlone, OneAtATime
  <2> QED  BY <1>2, <2>2, <2>3, <2>4, OwnVerified
<1>4. CASE ~InstallWrite(p) /\ ~InstallVerify(p)
  <2>1. content' = content
    BY <1>4
    DEF EngineStep, InstallStart, InstallSave, InstallMark, InstallPost,
        UnwindClear, CommitByHand, CommitByUnit, CommitLoad, CommitHealth, CommitFail, CommitClear,
        RollbackLoad, RollbackClear, SwitchLoad, MarkGoodStart, MarkGoodClear, VerifyLoad, VerifyFail,
        board
  <2>2. TrialVerified'
    BY <2>1 DEF Verified, TrialVerified
  <2>3. CASE InstallStart(p)
    BY <1>1, <1>2, <2>2, <2>3, OwnVerified DEF InstallStart, KeepFile
  <2>4. CASE InstallSave(p)
    BY <1>1, <1>2, <2>1, <2>2, <2>4, OwnVerified DEF InstallSave, SaveThen, Verified
  <2>5. CASE ~InstallStart(p) /\ ~InstallSave(p)
    <3>1. pc'[p] \notin Streaming /\ pc'[p] \notin Verifying
      BY <1>1, <1>4, <2>5, <1>2
      DEF EngineStep, InstallMark, InstallPost,
          UnwindClear, CommitByHand, CommitByUnit, CommitLoad, CommitHealth, CommitFail, CommitClear,
          RollbackLoad, RollbackClear, SwitchLoad, MarkGoodStart, MarkGoodClear, VerifyLoad, VerifyFail,
          SaveThen, Starts
    <3> QED  BY <1>2, <2>2, <3>1, OwnVerified
  <2> QED  BY <2>3, <2>4, <2>5
<1> QED  BY <1>3, <1>4

\* Only install's SwapSlot names a slot for trial, and it has just verified it.
LEMMA WriteVerified ==
  ASSUME TypeOK, TrialBacked, Verified, NEW p \in Procs, CallWrites(p)
  PROVE  env'.armed => content[env'.slot] # "torn"
<1>1. CASE pc[p] = "i_swap"
  <2>1. env' = Trial(rec[p].target)
    BY <1>1, MountedWrite DEF CallWrites, SwapSlot, TrialBacked
  <2> QED  BY <1>1, <2>1 DEF Trial, Verified, Verifying
<1>2. CASE pc[p] # "i_swap"
  BY <1>2, CallEffect DEF TrialBacked
<1> QED  BY <1>1, <1>2

LEMMA CallVerified ==
  ASSUME InstallsAlone, TypeOK, TrialBacked, Verified, NEW p \in Procs,
         EnvCall(p) \/ NoPlatformUpdate(p) \/ VerifyProbe(p)
  PROVE  Verified'
<1>1. pc \in [Procs -> Pcs] /\ rec \in [Procs -> Records]
  BY DEF TypeOK, EngineTypeOK
<1>2. Step(p) /\ content' = content
  BY DEF Step, EnvCall, NoPlatformUpdate, VerifyProbe, UnwindAbort, RollbackAbort, CommitVerify,
         VerifyCheck, InstallPrepare, InstallSwap, UnwindSwap, CommitGood, RollbackSwap,
         SwitchPrepare, SwitchSwap, MarkGoodCall, board
<1>3. env' = env \/ CallWrites(p)
  BY DEF EnvCall, CallFails, NoPlatformUpdate, VerifyProbe, envVars
<1>4. TrialVerified'
  BY <1>2, <1>3, WriteVerified DEF Verified, TrialVerified
<1>5. /\ pc'[p] \notin Streaming
      /\ pc'[p] \in Verifying => pc[p] \in Verifying /\ rec'[p] = rec[p]
  BY <1>1
  DEF EnvCall, NoPlatformUpdate, VerifyProbe, UnwindAbort, RollbackAbort, CommitVerify,
      VerifyCheck, InstallPrepare, InstallSwap, UnwindSwap, CommitGood, RollbackSwap,
      SwitchPrepare, SwitchSwap, MarkGoodCall, Goto, Done, Streaming, Verifying
<1>6. pc'[p] \in Verifying => content'[rec'[p].target] # "torn"
  BY <1>2, <1>5 DEF Verified
<1> QED  BY <1>2, <1>4, <1>5, <1>6, OwnVerified

\* A kill, a boot and the loss of power write no slot and start no verb.
LEMMA StopVerified ==
  ASSUME TypeOK, DownIsIdle, TrialBacked, Verified,
         \/ \E p \in Procs : Kill(p) \/ PowerCutInCall(p)
         \/ Boot \/ Reboot \/ PowerCut \/ Flush
  PROVE  Verified'
<1>1. content' = content
  BY DEF Kill, PowerCutInCall, GoDown, Boot, ComeUp, Reboot, PowerCut, Flush, board
<1>2. TrialVerified'
  <2>1. CASE \E p \in Procs : Kill(p) \/ PowerCutInCall(p)
    BY <1>1, <2>1, WriteVerified DEF Kill, PowerCutInCall, envVars, Verified, TrialVerified
  <2>2. CASE Boot
    BY <1>1, <2>2 DEF Boot, CountAttempt, TypeOK, EnvTypeOK, Envs, Verified, TrialVerified
  <2>3. CASE Reboot \/ PowerCut \/ Flush
    BY <1>1, <2>3 DEF Reboot, PowerCut, Flush, envVars, Verified, TrialVerified
  <2> QED  BY <2>1, <2>2, <2>3
<1>3. \A q \in Procs : \/ pc'[q] = "idle"
                       \/ pc'[q] = pc[q] /\ rec'[q] = rec[q] /\ state' = state
  <2>1. ASSUME NEW p \in Procs, Kill(p)
        PROVE  \A q \in Procs : \/ pc'[q] = "idle"
                                \/ pc'[q] = pc[q] /\ rec'[q] = rec[q] /\ state' = state
    BY <2>1 DEF Kill, Done, Goto, TypeOK, EngineTypeOK
  <2>2. CASE Reboot \/ PowerCut \/ \E p \in Procs : PowerCutInCall(p)
    BY <2>2 DEF Reboot, PowerCut, PowerCutInCall, GoDown
  <2>3. CASE Boot
    BY <2>3 DEF Boot, ComeUp, KeepFile
  <2>4. CASE Flush
    BY <2>4 DEF Flush, SyncFile
  <2> QED  BY <2>1, <2>2, <2>3, <2>4
<1> QED  BY <1>1, <1>2, <1>3 DEF Verified, Streaming, Verifying

\* A trial is only ever armed for an image that was written to its end and verified,
\* and nothing rewrites the slot while it is on trial.
THEOREM OnlyVerifiedTried ==
  ASSUME InstallsAlone, NoUnseenFailure
  PROVE  Spec => []TrialVerified
<1>1. Init => Verified
  BY DEF Init, EnvInit, EngineInit, Pinned, Verified, TrialVerified, Streaming, Verifying
<1>2. (TypeOK /\ DownIsIdle /\ TrialBacked) /\ Verified /\ [Next]_vars => Verified'
  <2>1. ASSUME UNCHANGED vars, Verified PROVE Verified'
    BY <2>1 DEF vars, Verified, TrialVerified
  <2> QED  BY <2>1, EngineStepVerified, CallVerified, StopVerified DEF Next, Step
<1>3. Verified => TrialVerified
  BY DEF Verified
<1> QED  BY <1>1, <1>2, <1>3, BackedAlways, PTL DEF Spec
===============================================================================
