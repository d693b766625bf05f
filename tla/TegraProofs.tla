------------------------------ MODULE TegraProofs ------------------------------
(***************************************************************************)
(* Theorems about TegraUpdate, for every number of processes and of boot   *)
(* attempts, and whichever verbs, units, faults and promises there are     *)
(* unless a theorem says otherwise.                                        *)
(***************************************************************************)
EXTENDS TegraUpdate, EngineProofs

---------------------------------------------------------------------------
(* Type correctness. *)

\* Nothing runs on a board that is down.
DownIsIdle == running = Off => \A p \in Procs : pc[p] = "idle"

LEMMA WorksOnlyUp ==
  ASSUME DownIsIdle, NEW p \in Procs, Step(p) \/ Kill(p) \/ PowerCutInCall(p)
  PROVE  running # Off
<1>1. pc[p] # "idle" => running # Off
  BY DEF DownIsIdle
<1>2. CASE EngineStep(p) \/ VerifierLoads(p)
  BY <1>1, <1>2
  DEF EngineStep, InstallStart, InstallWrite, InstallVerify, InstallSave, InstallMark,
      InstallPost, UnwindClear, CommitByHand, CommitByUnit, CommitLoad, CommitHealth,
      CommitFail, CommitClear, RollbackLoad, RollbackClear, SwitchLoad, MarkGoodStart,
      MarkGoodClear, VerifierLoads, VerifyLoad, VerifyFail, Starts
<1>3. CASE BootCall(p)
  BY <1>1, <1>3 DEF BootCall, FaultAt
<1>4. CASE WriteSlot(p) \/ PlatformVerdict(p) \/ VerifierChecks(p)
  BY <1>1, <1>4
  DEF WriteSlot, Rewrite, InstallWrite, InstallVerify, PlatformVerdict, CommitVerify, VerifierChecks,
      VerifyCheck
<1>5. CASE Kill(p) \/ PowerCutInCall(p)
  BY <1>1, <1>5 DEF Kill, PowerCutInCall, CallWrites
<1> QED  BY <1>2, <1>3, <1>4, <1>5 DEF Step, EngineOnly

\* A call that a process makes is one of the engine's.
LEMMA CallIsEngines ==
  ASSUME NEW p \in Procs, BootCall(p) \/ PlatformVerdict(p) \/ VerifierChecks(p)
  PROVE  (\E ok \in BOOLEAN : EngineCall(p, ok)) /\ disk' = disk
<1>1. BootIsCompromised(running) \in BOOLEAN
  BY DEF BootIsCompromised
<1>2. Probes(BootIsCompromised(running)) \subseteq BOOLEAN
  BY <1>1 DEF Probes
<1>3. \A seen : Verdict(running, seen) \in BOOLEAN
  BY DEF Verdict, VersionChanged
<1> QED  BY <1>2, <1>3 DEF BootCall, PlatformVerdict, VerifierChecks, EngineCall

LEMMA StepIsEngines ==
  ASSUME NEW p \in Procs, Step(p)
  PROVE  EngineStep(p) \/ \E ok \in BOOLEAN : EngineCall(p, ok)
  BY CallIsEngines DEF Step, EngineOnly, WriteSlot, Rewrite, VerifierLoads, EngineStep

\* Whatever call a process is about to make, cut off after any of its writes.
LEMMA CallWritesType ==
  ASSUME TypeOK, running # Off, NEW p \in Procs, NEW done, NEW seen, CallWrites(p, done, seen)
  PROVE  TegraTypeOK'
<1>1. /\ rec[p].target \in Slots /\ running \in Slots
      /\ Other(rec[p].target) \in Slots /\ Other(running) \in Slots
  BY PhaseOfRecord, OtherType DEF TypeOK, EngineTypeOK
<1> USE TegraBootAssumption DEF TypeOK, TegraTypeOK, fwVars, capVars, blVars, tegraVars
<1>2. \A s \in Slots : PrepareTarget(s) => TegraTypeOK'
  BY DEF PrepareTarget
<1>3. \A s \in Slots : Request(s) => TegraTypeOK'
  BY DEF Request
<1>4. \A s \in Slots : Stage(running, done, seen) => TegraTypeOK'
  BY <1>1 DEF Stage, Copied
<1>5. \A s \in Slots : Repoint(s, seen) => TegraTypeOK'
  BY <1>3 DEF Repoint
<1>6. Abort => TegraTypeOK'
  BY DEF Abort
<1>7. MarkGood(running, done) => TegraTypeOK'
  BY <1>1 DEF MarkGood, Confirm
<1> QED
  BY <1>1, <1>2, <1>3, <1>4, <1>5, <1>6, <1>7 DEF CallWrites, Activate

LEMMA BootType ==
  ASSUME TypeOK, Boot
  PROVE  TypeOK'
<1> USE DEF TypeOK
<1>1. PICK applied \in BOOLEAN, hasty \in {FALSE, "flag" \in Faults} :
         /\ ProcessCapsule(applied) /\ JudgeRequest /\ Attempt(applied, hasty)
         /\ IF content[Picked(applied)] = "good" THEN ComeUp(Picked(applied))
            ELSE UNCHANGED <<pc, rec, board>>
  BY DEF Boot
<1>2. Wanted(applied) \in Slots /\ Picked(applied) \in Slots
  BY OtherType DEF TegraTypeOK, Wanted, Picked
<1>3. tries' \in [Slots -> 0..Retries]
  BY <1>1, <1>2, TegraBootAssumption DEF TegraTypeOK, Attempt, Spent
<1>4. flagged' \in SUBSET Slots /\ chain' \in Slots
  BY <1>1, <1>2 DEF TegraTypeOK, Attempt
<1>5. /\ osi' \in BOOLEAN /\ staged' \in {"none", "loose", "kept"} /\ esrt' \in {"success", "error"}
      /\ version' \in [Slots -> Versions] /\ fresh' \in SUBSET Slots
      /\ effective' = effective /\ before' = before /\ marker' = marker
  BY <1>1, OtherType DEF TegraTypeOK, ProcessCapsule, Found
<1>6. next' \in Slots \cup {NoReq} /\ switching' \in {"absent", "in_progress", "judged"}
  BY <1>1 DEF TegraTypeOK, JudgeRequest
<1>7. EngineTypeOK'
  BY <1>1, <1>2, EngineAssumption DEF ComeUp, EngineTypeOK, board
<1>8. FileTypeOK'
  BY FileOpTypes DEF Boot
<1> QED  BY <1>3, <1>4, <1>5, <1>6, <1>7, <1>8 DEF TegraTypeOK

LEMMA StepType ==
  ASSUME TypeOK, DownIsIdle, NEW p \in Procs, Step(p)
  PROVE  TypeOK'
<1> USE DEF TypeOK
<1>1. running # Off
  BY WorksOnlyUp
<1>2. running \in Slots /\ rec[p].target \in Slots
  BY <1>1, PhaseOfRecord DEF EngineTypeOK
<1>3. UNCHANGED tegraVars => TegraTypeOK'
  BY DEF TegraTypeOK, tegraVars, fwVars, capVars, blVars
<1>4. Confirm(running) => TegraTypeOK'
  BY <1>2, TegraBootAssumption DEF Confirm, TegraTypeOK, capVars, blVars
<1>5. CASE EngineOnly(p)
  BY <1>3, <1>5, EngineStepType DEF EngineOnly
<1>6. CASE WriteSlot(p)
  <2>1. InstallWrite(p) \/ InstallVerify(p)
    BY <1>6 DEF WriteSlot, Rewrite
  <2>2. marker' \in SUBSET Slots /\ fresh' \in SUBSET Slots
    BY <1>2, <1>6 DEF WriteSlot, Rewrite, TegraTypeOK
  <2>3. TegraTypeOK'
    BY <1>6, <2>2 DEF WriteSlot, TegraTypeOK, fwVars, capVars
  <2> QED  BY <2>1, <2>3, EngineStepType DEF EngineStep
<1>7. CASE BootCall(p)
  <2>1. TegraTypeOK'
    BY <1>1, <1>3, <1>7, CallWritesType DEF BootCall, CallFails
  <2> QED  BY <1>7, <2>1, CallIsEngines, EngineCallType DEF FileTypeOK
<1>8. CASE PlatformVerdict(p)
  <2>1. TegraTypeOK'
    BY <1>8 DEF PlatformVerdict, VerifyUpdate, TegraTypeOK, fwVars, blVars
  <2> QED  BY <1>8, <2>1, CallIsEngines, EngineCallType DEF FileTypeOK
<1>9. CASE VerifierLoads(p)
  <2>1. TegraTypeOK'
    BY <1>3, <1>4, <1>9 DEF VerifierLoads, ConfirmBoot
  <2> QED  BY <1>9, <2>1, EngineStepType DEF VerifierLoads, EngineStep
<1>10. CASE VerifierChecks(p)
  <2>1. TegraTypeOK'
    BY <1>3, <1>4, <1>10 DEF VerifierChecks, ConfirmBoot
  <2> QED  BY <1>10, <2>1, CallIsEngines, EngineCallType DEF FileTypeOK
<1> QED  BY <1>5, <1>6, <1>7, <1>8, <1>9, <1>10 DEF Step

LEMMA StopType ==
  ASSUME TypeOK, DownIsIdle,
         Reboot \/ PowerCut \/ Watchdog \/ \E p \in Procs : Kill(p) \/ PowerCutInCall(p)
  PROVE  TypeOK'
<1> USE DEF TypeOK
<1>1. UNCHANGED tegraVars => TegraTypeOK'
  BY DEF TegraTypeOK, tegraVars, fwVars, capVars, blVars
<1>2. CASE Reboot
  <2>1. TegraTypeOK'
    BY <1>2 DEF Reboot, SyncESP, TegraTypeOK, fwVars, blVars
  <2> QED  BY <1>2, <2>1, GoDownType, FileOpTypes DEF Reboot
<1>3. CASE PowerCut \/ Watchdog
  BY <1>1, <1>3, GoDownType, FileOpTypes DEF PowerCut, Watchdog
<1>4. ASSUME NEW p \in Procs, Kill(p)
      PROVE  TypeOK'
  <2>1. TegraTypeOK'
    BY <1>1, <1>4, WorksOnlyUp, CallWritesType DEF Kill
  <2> QED  BY <1>4, <2>1, DoneType DEF Kill, EngineTypeOK, FileTypeOK
<1>5. ASSUME NEW p \in Procs, PowerCutInCall(p)
      PROVE  TypeOK'
  BY <1>5, WorksOnlyUp, CallWritesType, GoDownType, FileOpTypes DEF PowerCutInCall
<1> QED  BY <1>2, <1>3, <1>4, <1>5

LEMMA RunningKept ==
  ASSUME TypeOK, DownIsIdle, NEW p \in Procs, Step(p) \/ Kill(p)
  PROVE  running' = running /\ running # Off
<1> SUFFICES running' = running
  BY WorksOnlyUp
<1>1. CASE EngineStep(p) \/ VerifierLoads(p)
  BY <1>1, StepsStayUp DEF VerifierLoads, EngineStep
<1>2. CASE BootCall(p) \/ PlatformVerdict(p) \/ VerifierChecks(p)
  BY <1>2, StepsStayUp, CallIsEngines
<1>3. CASE WriteSlot(p) \/ Kill(p)
  BY <1>3, StepsStayUp DEF WriteSlot, Rewrite, EngineStep, Kill
<1> QED  BY <1>1, <1>2, <1>3 DEF Step, EngineOnly

LEMMA DownIsIdleKept ==
  ASSUME TypeOK, DownIsIdle, [Next]_vars
  PROVE  DownIsIdle'
<1>1. CASE UNCHANGED vars
  BY <1>1 DEF vars, DownIsIdle
<1>2. CASE GoDown
  BY <1>2 DEF GoDown, DownIsIdle
<1>3. CASE Boot
  <2>1. Picked(TRUE) # Off /\ Picked(FALSE) # Off
    BY OtherType DEF Picked, Wanted, TypeOK, TegraTypeOK, Off, Slots
  <2> QED  BY <1>3, <2>1 DEF Boot, ComeUp, board, DownIsIdle
<1>4. ASSUME NEW p \in Procs, Step(p) \/ Kill(p)
      PROVE  DownIsIdle'
  BY <1>4, RunningKept DEF DownIsIdle
<1> QED
  BY <1>1, <1>2, <1>3, <1>4 DEF Next, Reboot, PowerCut, PowerCutInCall, Watchdog

LEMMA InitTypes == Init => TypeOK /\ DownIsIdle
<1> SUFFICES ASSUME Init PROVE TypeOK /\ DownIsIdle
  OBVIOUS
<1>1. FileTypeOK
  BY NoRecType DEF Init, FileInit, FileTypeOK
<1>2. TegraTypeOK
  <2>1. [s \in Slots |-> Retries] \in [Slots -> 0..Retries]
    BY TegraBootAssumption
  <2>2. [s \in Slots |-> "v1"] \in [Slots -> Versions]
    BY DEF Versions
  <2> QED  BY <2>1, <2>2 DEF Init, TegraInit, TegraTypeOK, Slots
<1>3. EngineTypeOK
  BY NoRecType DEF Init, EngineInit, EngineTypeOK, Pcs, Slots, Images
<1>4. DownIsIdle
  BY DEF Init, EngineInit, DownIsIdle
<1> QED  BY <1>1, <1>2, <1>3, <1>4 DEF TypeOK

LEMMA TypeKept ==
  ASSUME TypeOK, DownIsIdle, [Next]_vars
  PROVE  TypeOK'
<1>1. CASE UNCHANGED vars
  BY <1>1
  DEF vars, TypeOK, FileTypeOK, TegraTypeOK, EngineTypeOK, tegraVars, fwVars, capVars, blVars
<1> QED  BY <1>1, StepType, StopType, BootType DEF Next

LEMMA TypesAlways == Spec => [](TypeOK /\ DownIsIdle)
<1>1. TypeOK /\ DownIsIdle /\ [Next]_vars => (TypeOK /\ DownIsIdle)'
  BY TypeKept, DownIsIdleKept
<1> QED  BY <1>1, InitTypes, PTL DEF Spec

\* Every variable of the record, the engine and the connector keeps its type,
\* whatever fails, is killed, is flagged or loses power.
THEOREM TegraTypeCorrect == Spec => []TypeOK
  BY TypesAlways, PTL

---------------------------------------------------------------------------
(* The capsule. *)

\* A capsule is armed only after it is durable, and disarmed before it is
\* removed: no call that stops half way, no kill, no power cut and no boot leaves
\* the firmware told to process a capsule that the ESP may lose
\* (swap-slot.go:313-320, verify.go:150-176).
THEOREM CapsuleIsDurable == Spec => []ArmedIsDurable
<1> USE DEF ArmedIsDurable
<1>1. Init => ArmedIsDurable
  BY DEF Init, TegraInit
<1>2. ASSUME ArmedIsDurable, [Next]_vars
      PROVE  ArmedIsDurable'
  <2>1. UNCHANGED tegraVars \/ UNCHANGED capVars \/ UNCHANGED <<osi, staged>> => ArmedIsDurable'
    BY <1>2 DEF tegraVars, capVars
  <2>2. \A p \in Procs : Writes(p) \in Nat /\ 1..Writes(p) \subseteq Nat
    BY DEF Writes
  <2>3. ASSUME NEW p \in Procs, NEW done \in Nat, NEW seen, CallWrites(p, done, seen)
        PROVE  ArmedIsDurable'
    <3>1. ASSUME Stage(running, done, seen)
          PROVE  ArmedIsDurable'
      <4>1. osi' => osi \/ done > 3
        BY <3>1, Zenon DEF Stage
      <4>2. done > 3 => done > 2
        BY <2>3
      <4> QED  BY <1>2, <3>1, <4>1, <4>2 DEF Stage, Copied
    <3>2. Abort => ArmedIsDurable'
      BY DEF Abort
    <3>3. \A s : PrepareTarget(s) \/ Request(s) \/ Repoint(s, seen) => UNCHANGED capVars
      BY DEF PrepareTarget, Request, Repoint
    <3>4. MarkGood(running, done) => UNCHANGED capVars
      BY DEF MarkGood, Confirm
    <3> QED  BY <2>1, <2>3, <3>1, <3>2, <3>3, <3>4 DEF CallWrites, Activate
  <2>4. Confirm(running) => ArmedIsDurable'
    BY <2>1 DEF Confirm
  <2>5. ASSUME NEW p \in Procs, Step(p)
        PROVE  ArmedIsDurable'
    <3>1. CASE EngineOnly(p)
      BY <2>1, <3>1 DEF EngineOnly
    <3>2. CASE WriteSlot(p)
      BY <2>1, <3>2 DEF WriteSlot
    <3>3. CASE BootCall(p)
      BY <2>1, <2>2, <2>3, <3>3 DEF BootCall, CallFails
    <3>4. CASE PlatformVerdict(p)
      BY <2>1, <3>4 DEF PlatformVerdict, VerifyUpdate
    <3>5. CASE VerifierLoads(p) \/ VerifierChecks(p)
      BY <2>1, <2>4, <3>5 DEF VerifierLoads, VerifierChecks, ConfirmBoot
    <3> QED  BY <2>5, <3>1, <3>2, <3>3, <3>4, <3>5 DEF Step
  <2>6. ASSUME NEW p \in Procs, Kill(p) \/ PowerCutInCall(p)
        PROVE  ArmedIsDurable'
    BY <2>1, <2>2, <2>3, <2>6 DEF Kill, PowerCutInCall
  <2>7. CASE Boot
    BY <2>7 DEF Boot, ProcessCapsule
  <2>8. CASE Reboot
    BY <1>2, <2>8 DEF Reboot, SyncESP
  <2>9. CASE PowerCut \/ Watchdog \/ UNCHANGED vars
    BY <2>1, <2>9 DEF PowerCut, Watchdog, vars
  <2> QED  BY <1>2, <2>5, <2>6, <2>7, <2>8, <2>9 DEF Next
<1> QED  BY <1>1, <1>2, PTL DEF Spec

---------------------------------------------------------------------------
(* The boot attempts. *)

\* What the theorems below ask of the platform: the verifier's unit is enabled, its
\* confirmation works, and the firmware flags no slot that it boots.
Answered == "verify" \in Units /\ Faults \cap {"flag", "confirm"} = {}

\* The verifier has still to answer for this boot.
Pending == "verify" \in units \/ \E p \in Procs : pc[p] = "v_check"

\* The running slot boots, installs leave it alone, and it has attempts left or is
\* about to get them; a board that is down has a slot that boots to go to.
Trusted ==
    /\ \A p \in Procs : Aims(p)
    /\ running # Off =>
          /\ content[running] = "good"
          /\ running \notin flagged
          /\ tries[running] > 0 \/ Pending
    /\ running = Off => \E s \in Slots : content[s] = "good" /\ ~Spent(s)

\* The same for the full budget.
Budgeted == running # Off => Confirmed \/ Pending

\* A change that takes no attempts away and flags no slot, and grants a slot whose
\* flag it resets the full budget.
Restores ==
    /\ flagged' \subseteq flagged
    /\ \A s \in Slots : /\ tries'[s] \in {tries[s], Retries}
                        /\ s \in flagged \ flagged' => tries'[s] = Retries

\* So does every call of the connector's.
LEMMA CallsRestore ==
  ASSUME TypeOK, running \in Slots, NEW p \in Procs, NEW done, NEW seen, CallWrites(p, done, seen)
  PROVE  Restores
<1> USE DEF TypeOK, TegraTypeOK, Restores
<1>1. \A s : PrepareTarget(s) => Restores
  BY DEF PrepareTarget
<1>2. MarkGood(running, done) => Restores
  BY DEF MarkGood, Confirm
<1>3. Stage(running, done, seen) \/ Abort => flagged' = flagged /\ tries' = tries
  BY DEF Stage, Abort, fwVars
<1>4. \A s : Request(s) \/ Repoint(s, seen) => flagged' = flagged /\ tries' = tries
  BY DEF Request, Repoint
<1> QED  BY <1>1, <1>2, <1>3, <1>4 DEF CallWrites, Activate

\* Nor does a step of a verb; and who owes the verifier's answer gives it.
LEMMA StepsAnswer ==
  ASSUME Answered, TypeOK, DownIsIdle, NEW p \in Procs, Step(p), running \notin flagged
  PROVE  /\ Restores
         /\ Pending => Pending' \/ tries'[running] = Retries
<1> USE DEF TypeOK, TegraTypeOK, Restores
<1>1. running \in Slots
  BY WorksOnlyUp DEF EngineTypeOK
<1>2. UNCHANGED tegraVars => flagged' = flagged /\ tries' = tries
  BY DEF tegraVars, fwVars
<1>3. Confirm(running) => /\ flagged' = flagged /\ tries'[running] = Retries
                          /\ \A s \in Slots : tries'[s] \in {tries[s], Retries}
  BY <1>1 DEF Confirm
<1>4. ConfirmBoot => Confirm(running)
  BY DEF Answered, ConfirmBoot
<1>5. pc \in [Procs -> Pcs]
  BY DEF EngineTypeOK
<1>6. CASE EngineOnly(p)
  <2>1. "verify" \in units => "verify" \in units'
    BY <1>6
    DEF EngineOnly, EngineStep, InstallStart, InstallWrite, InstallVerify, InstallSave, InstallMark,
        InstallPost, UnwindClear, CommitByHand, CommitByUnit, CommitLoad, CommitHealth, CommitFail,
        CommitClear, RollbackLoad, RollbackClear, SwitchLoad, MarkGoodStart, MarkGoodClear,
        VerifyLoad, VerifyFail, board
  <2>2. pc[p] # "v_check"
    BY <1>6
    DEF EngineOnly, EngineStep, InstallStart, InstallWrite, InstallVerify, InstallSave, InstallMark,
        InstallPost, UnwindClear, CommitByHand, CommitByUnit, CommitLoad, CommitHealth, CommitFail,
        CommitClear, RollbackLoad, RollbackClear, SwitchLoad, MarkGoodStart, MarkGoodClear,
        VerifyLoad, VerifyFail, Starts
  <2>3. \A q \in Procs \ {p} : pc'[q] = pc[q]
    BY <1>6, StepsItself DEF EngineOnly
  <2> QED  BY <1>2, <1>6, <2>1, <2>2, <2>3 DEF EngineOnly, Pending
<1>7. ASSUME NEW ok \in BOOLEAN, EngineCall(p, ok)
      PROVE  units' = units /\ (pc[p] = "v_check" => VerifyCheck(p, ok))
  BY <1>7
  DEF EngineCall, InstallPrepare, InstallSwap, UnwindAbort, UnwindSwap, CommitVerify, CommitGood,
      RollbackAbort, RollbackSwap, SwitchPrepare, SwitchSwap, MarkGoodCall, VerifyCheck, board
<1>8. CASE BootCall(p)
  <2>1. Restores
    BY <1>1, <1>2, <1>8, CallsRestore DEF BootCall, CallFails
  <2>2. pc[p] # "v_check"
    BY <1>8 DEF BootCall, FaultAt
  <2>3. \A q \in Procs \ {p} : pc'[q] = pc[q]
    BY <1>8, CallIsEngines, StepsItself
  <2>4. units' = units
    BY <1>7, <1>8, CallIsEngines
  <2> QED  BY <2>1, <2>2, <2>3, <2>4 DEF Pending
<1>9. CASE PlatformVerdict(p)
  <2>1. flagged' = flagged /\ tries' = tries
    BY <1>9 DEF PlatformVerdict, VerifyUpdate, fwVars
  <2>2. pc[p] # "v_check"
    BY <1>9 DEF PlatformVerdict, CommitVerify
  <2>3. \A q \in Procs \ {p} : pc'[q] = pc[q]
    BY <1>9, CallIsEngines, StepsItself
  <2>4. units' = units
    BY <1>7, <1>9, CallIsEngines
  <2> QED  BY <2>1, <2>2, <2>3, <2>4 DEF Pending
<1>10. CASE WriteSlot(p)
  <2>1. flagged' = flagged /\ tries' = tries
    BY <1>10 DEF WriteSlot, fwVars
  <2>2. pc[p] # "v_check" /\ units' = units
    BY <1>10 DEF WriteSlot, Rewrite, InstallWrite, InstallVerify
  <2>3. \A q \in Procs \ {p} : pc'[q] = pc[q]
    BY <1>10, StepsItself DEF WriteSlot, Rewrite, EngineStep
  <2> QED  BY <2>1, <2>2, <2>3 DEF Pending
<1>11. CASE VerifierLoads(p)
  <2>1. CASE pc' = pc
    BY <1>3, <1>4, <1>11, <2>1 DEF VerifierLoads
  <2>2. CASE pc' # pc
    <3>1. pc'[p] = "v_check"
      BY <1>5, <1>11, <2>2 DEF VerifierLoads, VerifyLoad, Goto
    <3> QED  BY <1>2, <1>11, <2>2, <3>1 DEF VerifierLoads, Pending
  <2> QED  BY <2>1, <2>2
<1>12. CASE VerifierChecks(p)
  <2>1. BootIsCompromised(running) = FALSE
    BY DEF BootIsCompromised
  <2>2. Probes(BootIsCompromised(running)) = {FALSE}
    BY <2>1 DEF Probes
  <2> QED  BY <1>3, <1>4, <1>12, <2>2 DEF VerifierChecks
<1> QED  BY <1>6, <1>8, <1>9, <1>10, <1>11, <1>12 DEF Step

LEMMA StepTrusted ==
  ASSUME Answered, TypeOK, DownIsIdle, Trusted, NEW p \in Procs, Step(p)
  PROVE  Trusted' /\ (Budgeted => Budgeted')
<1>1. running' = running /\ running # Off /\ running \in Slots /\ running \notin flagged
  <2>1. running' = running /\ running # Off
    BY RunningKept
  <2>2. running \in Slots
    BY <2>1 DEF TypeOK, EngineTypeOK
  <2>3. running \notin flagged
    BY <2>1 DEF Trusted
  <2> QED  BY <2>1, <2>2, <2>3
<1>2. /\ flagged' \subseteq flagged
      /\ tries'[running] \in {tries[running], Retries}
      /\ Pending => Pending' \/ tries'[running] = Retries
  BY <1>1, StepsAnswer DEF Restores
<1>3. EngineStep(p) \/ \E ok \in BOOLEAN : EngineCall(p, ok)
  BY StepIsEngines
<1>4. Aims(p)' /\ content'[running] = content[running]
  BY <1>1, <1>3, StepAims DEF TypeOK, Trusted
<1>5. \A q \in Procs \ {p} : Aims(q)'
  BY <1>1, <1>3, StepsItself DEF TypeOK, Trusted, Aims
<1> QED
  BY <1>1, <1>2, <1>4, <1>5, TegraBootAssumption DEF Trusted, Budgeted, Confirmed

\* Who stops a board finds attempts left, or was the watchdog.
LEMMA StopFinds ==
  ASSUME Answered, TypeOK, DownIsIdle, Trusted,
         Reboot \/ PowerCut \/ Watchdog \/ \E p \in Procs : PowerCutInCall(p)
  PROVE  /\ running # Off /\ running \in Slots /\ running' = Off
         /\ tries[running] \in Nat /\ tries[running] > 0
         /\ Restores
<1>1. running' = Off
  BY DEF Reboot, PowerCut, Watchdog, PowerCutInCall, GoDown
<1>2. running # Off /\ running \in Slots
  <2>1. running # Off
    BY DEF Reboot, PowerCut, Watchdog, PowerCutInCall, Settled
  <2> QED  BY <2>1 DEF TypeOK, EngineTypeOK
<1>3. tries[running] \in Nat /\ tries[running] > 0
  <2>1. tries[running] \in Nat
    BY <1>2, TegraBootAssumption DEF TypeOK, TegraTypeOK
  <2>2. Settled => tries[running] > 0
    BY TegraBootAssumption DEF Settled, Confirmed
  <2>3. Watchdog => ~Pending
    BY DEF Watchdog, Pending, VerifyPcs
  <2> QED  BY <1>2, <2>1, <2>2, <2>3 DEF Reboot, PowerCut, PowerCutInCall, Trusted
<1>4. Restores
  BY <1>2, CallsRestore DEF Restores, Reboot, PowerCut, Watchdog, PowerCutInCall, tegraVars, fwVars
<1> QED  BY <1>1, <1>2, <1>3, <1>4

LEMMA StopTrusted ==
  ASSUME Answered, TypeOK, DownIsIdle, Trusted,
         Reboot \/ PowerCut \/ Watchdog \/ \E p \in Procs : PowerCutInCall(p)
  PROVE  Trusted' /\ Budgeted'
<1>1. running' = Off /\ content' = content /\ \A p \in Procs : pc'[p] = "idle"
  BY DEF Reboot, PowerCut, Watchdog, PowerCutInCall, GoDown
<1>2. PICK s \in Slots : s = running
  BY StopFinds
<1>3. content[s] = "good" /\ s \notin flagged
  BY <1>2, StopFinds DEF Trusted
<1>4. ~Spent(s)' /\ content'[s] = "good"
  BY <1>1, <1>2, <1>3, StopFinds, TegraBootAssumption DEF Restores, Spent
<1> QED
  BY <1>1, <1>4 DEF Trusted, Aims, Budgeted, InstallPcs

\* A verb that is killed may be the verifier: the running slot keeps what it has.
LEMMA KillTrusted ==
  ASSUME TypeOK, DownIsIdle, Trusted, NEW p \in Procs, Kill(p)
  PROVE  Trusted' /\ ("early" \notin Faults => Budgeted')
<1>1. running' = running /\ running # Off /\ running \in Slots /\ content' = content
  <2>1. running' = running /\ running # Off /\ content' = content
    BY DEF Kill, Settled
  <2> QED  BY <2>1 DEF TypeOK, EngineTypeOK
<1>2. /\ tries[running] \in Nat /\ tries[running] > 0
      /\ "early" \notin Faults => tries[running] = Retries
  <2>1. tries[running] \in Nat
    BY <1>1, TegraBootAssumption DEF TypeOK, TegraTypeOK
  <2> QED  BY <2>1, TegraBootAssumption DEF Kill, Settled, Confirmed
<1>3. /\ flagged' \subseteq flagged
      /\ tries'[running] \in {tries[running], Retries}
  BY <1>1, CallsRestore DEF Restores, Kill, tegraVars, fwVars
<1>4. \A q \in Procs : Aims(q)'
  BY <1>1 DEF Kill, Done, Goto, Trusted, Aims, InstallPcs, TypeOK, EngineTypeOK
<1>5. content[running] = "good" /\ running \notin flagged
  BY <1>1 DEF Trusted
<1> QED
  BY <1>1, <1>2, <1>3, <1>4, <1>5, TegraBootAssumption DEF Trusted, Budgeted, Confirmed

\* The firmware's attempt lands on a slot that is not spent: one that boots, or one
\* that does not and leaves the other as it was.
LEMMA BootTrusted ==
  ASSUME Answered, TypeOK, DownIsIdle, Trusted, Boot
  PROVE  Trusted' /\ Budgeted'
<1>1. PICK applied \in BOOLEAN :
         /\ Attempt(applied, FALSE)
         /\ IF content[Picked(applied)] = "good" THEN ComeUp(Picked(applied))
            ELSE UNCHANGED <<pc, rec, board>>
  <2>1. ("flag" \in Faults) = FALSE
    BY DEF Answered
  <2> QED  BY <2>1 DEF Boot
<1> DEFINE s == Picked(applied)
           w == Wanted(applied)
<1>2. w \in Slots /\ s \in Slots /\ s \in {w, Other(w)} /\ (s = Other(w) => s # w /\ Spent(w))
  BY OtherTwice, OtherType DEF TypeOK, TegraTypeOK, Wanted, Picked
<1>3. /\ ~Spent(s)
      /\ flagged' = flagged \cup ({w} \ {s})
      /\ \A t \in Slots : t # s => tries'[t] = tries[t]
  BY <1>1, <1>2 DEF Attempt, TypeOK, TegraTypeOK
<1>4. running = Off /\ content' = content /\ \A p \in Procs : pc[p] = "idle" /\ pc'[p] = "idle"
  BY <1>1 DEF Boot, DownIsIdle, ComeUp, board
<1>5. \A p \in Procs : Aims(p)'
  BY <1>4 DEF Aims, InstallPcs
<1>6. CASE content[s] = "good"
  <2>1. running' = s /\ Pending' /\ s \notin flagged'
    BY <1>1, <1>3, <1>6 DEF ComeUp, Pending, Answered, Spent
  <2>2. s # Off
    BY <1>2 DEF Slots, Off
  <2> QED  BY <1>4, <1>5, <1>6, <2>1, <2>2 DEF Trusted, Budgeted
<1>7. CASE content[s] # "good"
  <2>1. running' = Off
    BY <1>1, <1>4, <1>7 DEF board
  <2>2. PICK g \in Slots : content[g] = "good" /\ ~Spent(g)
    BY <1>4 DEF Trusted
  <2>3. g # s /\ g # w
    BY <1>2, <1>7, <2>2, OtherTwice DEF Slots, Other
  <2>4. ~Spent(g)' /\ content'[g] = "good"
    BY <1>3, <1>4, <2>2, <2>3 DEF Spent
  <2> QED  BY <1>5, <2>1, <2>4 DEF Trusted, Budgeted
<1> QED  BY <1>6, <1>7

LEMMA TrustedKept ==
  ASSUME Answered, TypeOK, DownIsIdle, Trusted, [Next]_vars
  PROVE  Trusted'
<1>1. CASE UNCHANGED vars
  BY <1>1 DEF vars, tegraVars, fwVars, Trusted, Pending, Aims, Spent
<1> QED  BY <1>1, StepTrusted, StopTrusted, KillTrusted, BootTrusted DEF Next

LEMMA BudgetedKept ==
  ASSUME Answered, {"kill", "early"} \cap Faults # {"kill", "early"},
         TypeOK, DownIsIdle, Trusted, Budgeted, [Next]_vars
  PROVE  Budgeted'
<1>1. CASE UNCHANGED vars
  BY <1>1 DEF vars, tegraVars, fwVars, Budgeted, Pending, Confirmed
<1>2. ASSUME NEW p \in Procs, Kill(p)
      PROVE  Budgeted'
  BY <1>2, KillTrusted DEF Kill
<1> QED  BY <1>1, <1>2, StepTrusted, StopTrusted, BootTrusted DEF Next

LEMMA TrustedAlways ==
  ASSUME Answered
  PROVE  Spec => [](TypeOK /\ DownIsIdle /\ Trusted)
<1>1. Init => Trusted
  BY TegraBootAssumption DEF Init, EngineInit, TegraInit, Trusted, Aims, InstallPcs, Slots, Off
<1>2. TypeOK /\ DownIsIdle /\ Trusted /\ [Next]_vars => Trusted'
  BY TrustedKept
<1> QED  BY <1>1, <1>2, TypesAlways, PTL DEF Spec

\* The firmware always has a slot that boots and that it is willing to boot, or
\* runs it, for any number of attempts and of verbs at once and whatever else
\* fails: the verifier answers for every boot before its attempts run out
\* (commit.go:215-272, tegrauefi.go:163-175).
THEOREM AlwaysEligible ==
  ASSUME Answered
  PROVE  Spec => []Eligible
<1>1. TypeOK /\ Trusted => Eligible
  BY DEF TypeOK, EngineTypeOK, Trusted, Eligible
<1> QED  BY <1>1, TrustedAlways, PTL

\* The watchdog finds every boot confirmed that the verifier is done with, on the
\* slot that an update fell back to as on the trial, unless the verifier was killed
\* in a boot that others had cut short (commit.go:251-272).
THEOREM WatchdogContent ==
  ASSUME Answered, {"kill", "early"} \cap Faults # {"kill", "early"}
  PROVE  Spec => []BootConfirmed
<1>1. Init => Budgeted
  BY DEF Init, EngineInit, TegraInit, Budgeted, Confirmed, Slots
<1>2. TypeOK /\ DownIsIdle /\ Trusted /\ Budgeted /\ [Next]_vars => Budgeted'
  BY BudgetedKept
<1>3. Budgeted => BootConfirmed
  BY DEF Budgeted, BootConfirmed, Pending, VerifyPcs
<1> QED  BY <1>1, <1>2, <1>3, TrustedAlways, PTL DEF Spec

---------------------------------------------------------------------------
(* The slot a rollback and an unwind leave the board to. *)

\* The firmware's next choice is s, and no capsule changes that: if one is armed, the
\* request that keeps it from running is not one that a confirmation withdraws.
Points(s) == Wanted(FALSE) = s /\ (osi => next # NoReq)

LEMMA PointsThere ==
  ASSUME NEW s \in Slots, Points(s)
  PROVE  NextBoots = {s} \/ Spent(s)
  BY DEF Points, NextBoots, Picked, CapsuleRuns, BootChainIdle

\* A request wins over the chain and keeps a capsule from running; where it is
\* withdrawn, the chain is the slot's and no capsule is armed.
LEMMA RepointPoints ==
  ASSUME NEW s \in Slots, NEW seen, Repoint(s, seen)
  PROVE  Points(s)'
<1>1. s # NoReq
  BY DEF Slots, NoReq
<1>2. CASE Request(s)
  BY <1>1, <1>2 DEF Request, Points, Wanted
<1>3. CASE KeepsRunningSlot(s) /\ next' = NoReq /\ UNCHANGED <<chain, capVars>>
  BY <1>3 DEF KeepsRunningSlot, Points, Wanted, capVars
<1> QED  BY <1>2, <1>3 DEF Repoint

\* Rollback and unwind come to remove the record only from a re-point.
LEMMA ComesFromSwap ==
  ASSUME TypeOK, NEW p \in Procs, Step(p), pc'[p] \in {"r_clear", "u_clear"}
  PROVE  /\ BootCall(p) /\ rec'[p] = rec[p]
         /\ pc'[p] = "r_clear" => pc[p] = "r_swap" /\ \E seen : Repoint(Other(rec[p].target), seen)
         /\ pc'[p] = "u_clear" => pc[p] = "u_swap" /\ running' = running
<1> USE DEF Goto, Done, Hold
<1>1. pc \in [Procs -> Pcs]
  BY DEF TypeOK, EngineTypeOK
<1>2. ~EngineStep(p)
  BY <1>1
  DEF EngineStep, InstallStart, InstallWrite, InstallVerify, InstallSave, InstallMark, InstallPost,
      SaveThen, UnwindClear, CommitByHand, CommitByUnit, CommitLoad, CommitHealth, CommitFail,
      CommitClear, RollbackLoad, RollbackClear, SwitchLoad, MarkGoodStart, MarkGoodClear,
      VerifyLoad, VerifyFail, Starts
<1>3. ~PlatformVerdict(p) /\ ~VerifierChecks(p)
  BY <1>1 DEF PlatformVerdict, CommitVerify, VerifierChecks, VerifyCheck
<1>4. BootCall(p)
  BY <1>2, <1>3 DEF Step, EngineOnly, WriteSlot, Rewrite, VerifierLoads, EngineStep
<1>5. PICK ok \in BOOLEAN : EngineCall(p, ok) /\ (ok => \E seen : CallWrites(p, Writes(p), seen))
  BY <1>4 DEF BootCall, EngineCall
<1>6. CASE pc'[p] = "r_clear"
  <2>1. RollbackSwap(p, ok) /\ ok
    BY <1>1, <1>5, <1>6
    DEF EngineCall, InstallPrepare, InstallSwap, UnwindAbort, UnwindSwap, CommitVerify, CommitGood,
        RollbackAbort, RollbackSwap, SwitchPrepare, SwitchSwap, MarkGoodCall, VerifyCheck
  <2> QED  BY <1>4, <1>5, <1>6, <2>1 DEF RollbackSwap, CallWrites
<1>7. CASE pc'[p] = "u_clear"
  <2>1. UnwindSwap(p)
    BY <1>1, <1>5, <1>7
    DEF EngineCall, InstallPrepare, InstallSwap, UnwindAbort, UnwindSwap, CommitVerify, CommitGood,
        RollbackAbort, RollbackSwap, SwitchPrepare, SwitchSwap, MarkGoodCall, VerifyCheck
  <2> QED  BY <1>4, <1>7, <2>1 DEF UnwindSwap, board
<1> QED  BY <1>6, <1>7

\* The unwind's swap takes place: no fault makes it fail.
LEMMA UnwindRepoints ==
  ASSUME "unwind" \notin Faults, NEW p \in Procs, BootCall(p), pc[p] = "u_swap"
  PROVE  \E seen : Repoint(running, seen)
<1>1. FaultAt["u_swap"] = "unwind"
  BY DEF FaultAt
<1>2. ~CallFails(p)
  BY <1>1 DEF CallFails
<1> QED  BY <1>2 DEF BootCall, CallWrites

\* A process that is about to remove the record finds the next boot pointed.
Pointed ==
    \A p \in Procs :
        /\ pc[p] = "r_clear" => Points(Other(rec[p].target))
        /\ pc[p] = "u_clear" /\ "unwind" \notin Faults => Points(running)

\* The calls that request no other slot leave the choice alone; the re-point of a
\* rollback may be for the same slot.
LEMMA CallKeepsPoints ==
  ASSUME NEW s \in Slots, Points(s), NEW p \in Procs, pc[p] \notin {"i_swap", "u_swap", "s_swap"},
         pc[p] = "r_swap" => Other(rec[p].target) = s,
         NEW done, NEW seen, CallWrites(p, done, seen)
  PROVE  Points(s)'
<1>1. CASE pc[p] = "r_swap"
  <2>1. Repoint(s, seen)
    BY <1>1 DEF CallWrites
  <2> QED  BY <2>1, RepointPoints
<1>2. CASE pc[p] # "r_swap"
  <2>1. Abort \/ MarkGood(running, done) \/ \E t : PrepareTarget(t)
    BY <1>2 DEF CallWrites
  <2>2. chain' = chain /\ next' = next /\ (osi' => osi)
    BY <2>1 DEF Abort, MarkGood, Confirm, PrepareTarget, fwVars, capVars
  <2> QED  BY <2>2 DEF Points, Wanted
<1> QED  BY <1>1, <1>2

LEMMA StepKeepsPoints ==
  ASSUME NEW s \in Slots, Points(s), NEW p \in Procs, pc[p] \notin {"i_swap", "u_swap", "s_swap"},
         pc[p] = "r_swap" => Other(rec[p].target) = s, Step(p)
  PROVE  Points(s)'
<1>1. UNCHANGED tegraVars \/ Confirm(running) \/ UNCHANGED <<fwVars, osi>> => Points(s)'
  BY DEF Points, Wanted, Confirm, tegraVars, fwVars, capVars
<1>2. CASE BootCall(p)
  BY <1>1, <1>2, CallKeepsPoints DEF BootCall, CallFails
<1>3. CASE WriteSlot(p)
  BY <1>1, <1>3 DEF WriteSlot, capVars
<1>4. CASE EngineOnly(p) \/ PlatformVerdict(p) \/ VerifierLoads(p) \/ VerifierChecks(p)
  BY <1>1, <1>4
  DEF EngineOnly, PlatformVerdict, VerifyUpdate, VerifierLoads, VerifierChecks, ConfirmBoot
<1> QED  BY <1>2, <1>3, <1>4 DEF Step

\* Verbs that run side by side work on one update.
LEMMA OneUpdateAlways ==
  ASSUME InstallsAlone
  PROVE  Spec => [](TypeOK /\ DownIsIdle /\ OneUpdate)
<1>1. Init => OneUpdate
  BY DEF Init, EngineInit, OneUpdate, Lone, Agreed, Undisturbed, Working, AlonePcs, InstallPcs,
         CommitPcs, VerifyPcs
<1>2. ASSUME TypeOK, DownIsIdle, OneUpdate, [Next]_vars
      PROVE  OneUpdate'
  <2>1. FileTypeOK /\ EngineTypeOK
    BY <1>2 DEF TypeOK
  <2>2. ASSUME NEW p \in Procs, Step(p)
        PROVE  OneUpdate'
    BY <1>2, <2>1, <2>2, StepIsEngines, StepOneUpdate
  <2>3. ASSUME NEW p \in Procs, Kill(p)
        PROVE  OneUpdate'
    BY <1>2, <2>1, <2>3, StopOneUpdate DEF Kill
  <2>4. CASE GoDown
    BY <1>2, <2>1, <2>4, StopOneUpdate
  <2>5. CASE Boot
    BY <1>2, <2>5
    DEF Boot, ComeUp, board, KeepFile, OneUpdate, Lone, Agreed, Undisturbed
  <2>6. CASE UNCHANGED vars
    BY <1>2, <2>6 DEF vars, OneUpdate, Lone, Agreed, Undisturbed
  <2> QED
    BY <1>2, <2>2, <2>3, <2>4, <2>5, <2>6 DEF Next, Reboot, PowerCut, PowerCutInCall, Watchdog
<1> QED  BY <1>1, <1>2, TypesAlways, PTL DEF Spec

\* Whatever a verb does, or has done when it is killed, another one that is about to
\* remove the record is not an install and finds its choice kept.
LEMMA OthersPointed ==
  ASSUME InstallsAlone, TypeOK, OneUpdate, Pointed,
         NEW p \in Procs, Step(p) \/ Kill(p),
         NEW q \in Procs \ {p}, pc'[q] \in {"r_clear", "u_clear"}
  PROVE  pc'[q] = "r_clear" /\ Points(Other(rec[q].target))'
<1>1. pc'[q] = pc[q] /\ rec'[q] = rec[q]
  <2>1. Step(p) => pc'[q] = pc[q] /\ rec'[q] = rec[q]
    BY StepIsEngines, StepsItself DEF TypeOK
  <2>2. Kill(p) => pc'[q] = pc[q] /\ rec'[q] = rec[q]
    BY DEF Kill, Done, Goto, TypeOK, EngineTypeOK
  <2> QED  BY <2>1, <2>2
<1>2. pc[q] = "r_clear" /\ pc[p] \notin AlonePcs
  <2>1. Step(p) => pc[q] \notin AlonePcs
    BY StepIsEngines, StepLone DEF OneUpdate, TypeOK
  <2>2. Kill(p) => pc[p] # "idle"
    BY DEF Kill
  <2> QED  BY <1>1, <2>1, <2>2 DEF OneUpdate, Lone, AlonePcs, InstallPcs
<1>3. PICK s \in Slots : s = Other(rec[q].target)
  BY PhaseOfRecord, OtherType DEF TypeOK, EngineTypeOK
<1>4. Points(s) /\ (pc[p] = "r_swap" => Other(rec[p].target) = s)
  BY <1>2, <1>3 DEF Pointed, OneUpdate, Agreed, Working
<1>5. UNCHANGED tegraVars => Points(s)'
  BY <1>4 DEF tegraVars, fwVars, capVars, Points, Wanted
<1>6. Points(s)'
  BY <1>2, <1>4, <1>5, StepKeepsPoints, CallKeepsPoints DEF Kill, AlonePcs, InstallPcs
<1>7. Other(rec[q].target)' = s
  BY <1>1, <1>3
<1> QED  BY <1>1, <1>2, <1>6, <1>7 DEF Points

LEMMA PointedKept ==
  ASSUME InstallsAlone, TypeOK, DownIsIdle, OneUpdate, Pointed, [Next]_vars
  PROVE  Pointed'
<1>1. CASE GoDown
  BY <1>1 DEF GoDown, Pointed
<1>2. CASE UNCHANGED vars
  BY <1>2 DEF vars, tegraVars, fwVars, capVars, blVars, Pointed, Points, Wanted
<1>3. CASE Boot
  BY <1>3 DEF Boot, ComeUp, DownIsIdle, board, Pointed
<1>4. ASSUME NEW p \in Procs, Kill(p)
      PROVE  Pointed'
  <2>1. pc'[p] = "idle"
    BY <1>4 DEF Kill, Done, Goto, TypeOK, EngineTypeOK
  <2> QED  BY <1>4, <2>1, OthersPointed DEF Pointed
<1>5. ASSUME NEW p \in Procs, Step(p)
      PROVE  Pointed'
  <2>1. SUFFICES ASSUME pc'[p] \in {"r_clear", "u_clear"}
        PROVE  /\ pc'[p] = "r_clear" => Points(Other(rec[p].target))'
               /\ pc'[p] = "u_clear" /\ "unwind" \notin Faults => Points(running)'
    BY <1>5, <2>1, OthersPointed DEF Pointed
  <2>2. running \in Slots /\ rec[p].target \in Slots
    BY <1>5, WorksOnlyUp, PhaseOfRecord DEF TypeOK, EngineTypeOK
  <2>3. CASE pc'[p] = "r_clear"
    <3>1. PICK seen : Repoint(Other(rec[p].target), seen)
      BY <1>5, <2>1, <2>3, ComesFromSwap
    <3>2. PICK s \in Slots : s = Other(rec[p].target)
      BY <2>2, OtherType
    <3>3. Points(s)'
      BY <3>1, <3>2, RepointPoints
    <3>4. Other(rec[p].target)' = s
      BY <1>5, <2>1, <2>3, <3>2, ComesFromSwap
    <3> QED  BY <2>3, <3>3, <3>4 DEF Points
  <2>4. CASE pc'[p] = "u_clear" /\ "unwind" \notin Faults
    <3>1. PICK seen : Repoint(running, seen)
      BY <1>5, <2>1, <2>4, ComesFromSwap, UnwindRepoints
    <3>2. PICK s \in Slots : s = running /\ s = running'
      BY <1>5, <2>1, <2>2, <2>4, ComesFromSwap
    <3>3. Points(s)'
      BY <3>1, <3>2, RepointPoints
    <3> QED  BY <2>4, <3>2, <3>3 DEF Points
  <2> QED  BY <2>3, <2>4
<1> QED
  BY <1>1, <1>2, <1>3, <1>4, <1>5 DEF Next, Reboot, PowerCut, PowerCutInCall, Watchdog

LEMMA PointedAlways ==
  ASSUME InstallsAlone
  PROVE  Spec => [](TypeOK /\ DownIsIdle /\ Pointed)
<1>1. Init => Pointed
  BY DEF Init, EngineInit, Pointed
<1>2. TypeOK /\ DownIsIdle /\ OneUpdate /\ Pointed /\ [Next]_vars => Pointed'
  BY PointedKept
<1> QED  BY <1>1, <1>2, OneUpdateAlways, PTL DEF Spec

\* Who leaves the removal of the record or the post-install hooks, killed or not,
\* leaves the firmware alone.
LEMMA EndKeepsFirmware ==
  ASSUME TypeOK, DownIsIdle, [Next]_vars, running' # Off,
         NEW p \in Procs, pc[p] \in {"r_clear", "u_clear", "i_post", "c_clear"}, pc'[p] # pc[p]
  PROVE  /\ NextBoots' = NextBoots /\ CapsuleRuns' = CapsuleRuns /\ flagged' = flagged
         /\ Step(p) \/ Kill(p)
<1>1. ~(\E q \in Procs : PowerCutInCall(q)) /\ ~Reboot /\ ~PowerCut /\ ~Watchdog
  BY DEF PowerCutInCall, Reboot, PowerCut, Watchdog, GoDown
<1>2. ~Boot
  BY DEF Boot, DownIsIdle
<1>3. ASSUME NEW q \in Procs \ {p}
      PROVE  ~Step(q) /\ ~Kill(q)
  <2>1. Step(q) => pc'[p] = pc[p]
    BY StepIsEngines, StepsItself DEF TypeOK
  <2>2. Kill(q) => pc'[p] = pc[p]
    BY DEF Kill, Done, Goto, TypeOK, EngineTypeOK
  <2> QED  BY <2>1, <2>2
<1>4. Step(p) \/ Kill(p)
  BY <1>1, <1>2, <1>3 DEF Next, vars
<1>5. UNCHANGED tegraVars
  <2>1. CASE Kill(p)
    BY <2>1 DEF Kill, CallWrites
  <2>2. CASE Step(p)
    BY <2>2
    DEF Step, EngineOnly, WriteSlot, Rewrite, InstallWrite, InstallVerify, BootCall, FaultAt,
        PlatformVerdict, CommitVerify, VerifierLoads, VerifyLoad, Starts, VerifierChecks, VerifyCheck
  <2> QED  BY <1>4, <2>1, <2>2
<1> QED
  BY <1>4, <1>5
  DEF tegraVars, fwVars, capVars, NextBoots, Picked, Wanted, Spent, CapsuleRuns, BootChainIdle

\* After a rollback that reports success the board boots the slot the update came
\* from, by a request or because the request for the other one is withdrawn, and
\* whatever failed or was killed before (commit.go:135-185, bootchain_state.go:62).
THEOREM RollbackIsNext ==
  ASSUME InstallsAlone
  PROVE  Spec => RollbackHolds
<1>1. ASSUME TypeOK, DownIsIdle, Pointed, [Next]_vars, NEW p \in Procs, Leaves(p, "r_clear")
      PROVE  NextBoots' = {Other(rec[p].target)} \/ Spent(Other(rec[p].target))
  <2>1. Other(rec[p].target) \in Slots
    BY <1>1, PhaseOfRecord, OtherType DEF TypeOK, EngineTypeOK
  <2>2. Points(Other(rec[p].target))
    BY <1>1 DEF Leaves, Pointed
  <2> QED  BY <1>1, <2>1, <2>2, PointsThere, EndKeepsFirmware DEF Leaves
<1>2. TypeOK /\ DownIsIdle /\ Pointed /\ [Next]_vars =>
        \A p \in Procs : Leaves(p, "r_clear") /\ state' = NoRec
          => LET origin == Other(rec[p].target) IN NextBoots' = {origin} \/ Spent(origin)
  BY <1>1
<1> QED  BY <1>2, PointedAlways, PTL DEF Spec, RollbackHolds

\* A post-install hook that fails leaves the board on the slot it runs, as long as
\* the unwind's own swap does not fail (engine.go:211-225).
THEOREM UnwindIsNext ==
  ASSUME InstallsAlone, "unwind" \notin Faults
  PROVE  Spec => UnwindHolds
<1>1. ASSUME TypeOK, DownIsIdle, Pointed, [Next]_vars, NEW p \in Procs, Leaves(p, "u_clear")
      PROVE  NextBoots' = {running} \/ Spent(running)
  <2>1. running \in Slots
    BY <1>1 DEF Leaves, DownIsIdle, TypeOK, EngineTypeOK
  <2>2. Points(running)
    BY <1>1 DEF Leaves, Pointed
  <2> QED  BY <1>1, <2>1, <2>2, PointsThere, EndKeepsFirmware DEF Leaves
<1>2. TypeOK /\ DownIsIdle /\ Pointed /\ [Next]_vars =>
        \A p \in Procs : Leaves(p, "u_clear") /\ state' = NoRec
          => NextBoots' = {running} \/ Spent(running)
  BY <1>1
<1> QED  BY <1>2, PointedAlways, PTL DEF Spec, UnwindHolds

---------------------------------------------------------------------------
(* The slot an install has the firmware try. *)

\* A slot that has used its attempts up is flagged, which has PrepareTarget grant it
\* new ones, or it is the firmware's next choice, which flags it.
Accounted ==
    /\ running # Off => Other(running) \in flagged \/ tries[Other(running)] > 0
    /\ running = Off => \A s \in Slots : s \in flagged \/ tries[s] > 0 \/ Points(s)

LEMMA RestoredAccounted ==
  ASSUME TypeOK, Accounted, Restores, running # Off, running' = running
  PROVE  Accounted'
<1>1. running \in Slots /\ Other(running) \in Slots
  BY OtherType DEF TypeOK, EngineTypeOK
<1> QED  BY <1>1, TegraBootAssumption DEF Accounted, Restores

LEMMA StopAccounted ==
  ASSUME Answered, TypeOK, DownIsIdle, Trusted, Accounted,
         Reboot \/ PowerCut \/ Watchdog \/ \E p \in Procs : PowerCutInCall(p)
  PROVE  Accounted'
<1>1. \A s \in Slots : s \in {running, Other(running)}
  BY StopFinds DEF Slots, Other
<1>2. ASSUME NEW s \in Slots
      PROVE  s \in flagged' \/ tries'[s] > 0
  BY <1>1, StopFinds, TegraBootAssumption DEF Accounted, Restores
<1>3. running' = Off
  BY StopFinds
<1> QED  BY <1>2, <1>3 DEF Accounted

LEMMA BootAccounted ==
  ASSUME Answered, TypeOK, DownIsIdle, Trusted, Accounted, Boot
  PROVE  Accounted'
<1>1. PICK applied \in BOOLEAN :
         /\ ProcessCapsule(applied) /\ JudgeRequest /\ Attempt(applied, FALSE)
         /\ IF content[Picked(applied)] = "good" THEN ComeUp(Picked(applied))
            ELSE UNCHANGED <<pc, rec, board>>
  <2>1. ("flag" \in Faults) = FALSE
    BY DEF Answered
  <2> QED  BY <2>1 DEF Boot
<1> DEFINE w == Wanted(applied)
<1>a. w \in Slots /\ Picked(applied) \in Slots
  BY OtherType DEF TypeOK, TegraTypeOK, Wanted, Picked
<1>b. PICK s \in Slots : s = Picked(applied)
  BY <1>a
<1>2. w \in Slots /\ s \in {w, Other(w)} /\ (s = Other(w) => s # w /\ Spent(w))
  BY <1>a, <1>b, OtherTwice DEF Picked
<1>3. /\ ~Spent(s)
      /\ flagged' = flagged \cup ({w} \ {s})
      /\ \A t \in Slots : t # s => tries'[t] = tries[t]
      /\ chain' = s
  BY <1>1, <1>b, <1>2 DEF Attempt, TypeOK, TegraTypeOK
<1>4. running = Off
  BY DEF Boot
<1>5. ASSUME NEW t \in Slots, t # s
      PROVE  t \in flagged' \/ tries'[t] > 0
  <2>1. CASE Points(t)
    <3>1. ~applied
      BY <1>1, <2>1 DEF ProcessCapsule, Points, CapsuleRuns, BootChainIdle
    <3>2. w = t
      BY <2>1, <3>1 DEF Points
    <3> QED  BY <1>3, <1>5, <3>2
  <2> QED  BY <1>3, <1>4, <1>5, <2>1 DEF Accounted
<1>6. CASE content[s] = "good"
  <2>1. running' = s /\ s # Off
    BY <1>1, <1>b, <1>6 DEF ComeUp, Slots, Off
  <2> QED  BY <1>2, <1>5, <2>1, OtherType, OtherTwice DEF Accounted
<1>7. CASE content[s] # "good"
  <2>1. running' = Off
    BY <1>1, <1>b, <1>4, <1>7 DEF board
  <2>2. s = w
    <3>1. PICK g \in Slots : content[g] = "good" /\ ~Spent(g)
      BY <1>4 DEF Trusted
    <3>2. g = Other(s)
      BY <1>2, <1>7, <3>1 DEF Slots, Other
    <3>3. Other(Other(w)) = w
      BY <1>2, OtherTwice
    <3> QED  BY <1>2, <3>1, <3>2, <3>3
  <2>3. Points(s)'
    <3>1. osi' = FALSE
      BY <1>1 DEF ProcessCapsule
    <3>2. next' = NoReq \/ next' = next
      BY <1>1 DEF JudgeRequest
    <3>3. applied => next = NoReq
      BY <1>1 DEF ProcessCapsule, CapsuleRuns, BootChainIdle
    <3>4. next # NoReq => next = s
      BY <2>2, <3>3 DEF Wanted
    <3>5. Wanted(FALSE)' = chain'
      BY <1>3, <3>2, <3>4 DEF Wanted
    <3> QED  BY <3>1, <3>5, <1>3 DEF Points
  <2> QED  BY <1>5, <2>1, <2>3 DEF Accounted
<1> QED  BY <1>6, <1>7

LEMMA AccountedKept ==
  ASSUME Answered, TypeOK, DownIsIdle, Trusted, Accounted, [Next]_vars
  PROVE  Accounted'
<1>1. CASE UNCHANGED vars
  BY <1>1
  DEF vars, tegraVars, fwVars, capVars, Accounted, Points, Wanted
<1>2. ASSUME NEW p \in Procs, Step(p)
      PROVE  Accounted'
  <2>1. running' = running /\ running # Off
    BY <1>2, RunningKept
  <2> QED  BY <1>2, <2>1, StepsAnswer, RestoredAccounted DEF Trusted
<1>3. ASSUME NEW p \in Procs, Kill(p)
      PROVE  Accounted'
  <2>1. running' = running /\ running # Off /\ running \in Slots
    BY <1>3, RunningKept DEF TypeOK, EngineTypeOK
  <2>2. UNCHANGED tegraVars => Restores
    BY DEF tegraVars, fwVars, Restores
  <2> QED  BY <1>3, <2>1, <2>2, CallsRestore, RestoredAccounted DEF Kill
<1> QED  BY <1>1, <1>2, <1>3, StopAccounted, BootAccounted DEF Next

\* What an install has done for the slot it wrote: PrepareTarget took its flag, and
\* SwapSlot armed the capsule or requested the slot.
Tried ==
    \A p \in Procs :
        /\ pc[p] \in {"i_swap", "i_mark", "i_post"} => rec[p].target \notin flagged
        /\ pc[p] \in {"i_mark", "i_post"} =>
              IF Stages(rec[p].target) THEN CapsuleRuns ELSE next = rec[p].target

LEMMA ActivateArms ==
  ASSUME NEW p \in Procs, NEW seen, pc[p] = "i_swap",
         Activate(running, rec[p].target, Writes(p), seen)
  PROVE  /\ flagged' = flagged /\ effective' = effective /\ marker' = marker
         /\ IF Stages(rec[p].target) THEN CapsuleRuns' ELSE next' = rec[p].target
<1>1. CASE Stages(rec[p].target)
  <2>1. Stage(running, 4, seen)
    BY <1>1 DEF Activate, Writes
  <2>2. 4 > 2 /\ 4 > 3
    OBVIOUS
  <2>3. osi'
    BY <2>1, <2>2, Zenon DEF Stage
  <2>4. staged' = "kept"
    BY <2>1, <2>2, Zenon DEF Stage, Copied
  <2>5. BootChainIdle /\ UNCHANGED <<fwVars, blVars>>
    BY <2>1, Zenon DEF Stage
  <2> QED  BY <1>1, <2>3, <2>4, <2>5 DEF fwVars, blVars, CapsuleRuns, BootChainIdle
<1>2. CASE ~Stages(rec[p].target)
  BY <1>2 DEF Activate, Request, blVars
<1> QED  BY <1>1, <1>2

\* The only ways to the calls that Tried speaks of.
LEMMA TryingFrom ==
  ASSUME TypeOK, NEW p \in Procs, Step(p), pc'[p] \in {"i_swap", "i_mark", "i_post"}
  PROVE  /\ rec'[p].target = rec[p].target
         /\ pc'[p] = "i_swap" => PrepareTarget(rec[p].target)
         /\ pc'[p] = "i_mark" =>
               pc[p] = "i_swap" /\ \E seen : Activate(running, rec[p].target, Writes(p), seen)
         /\ pc'[p] = "i_post" => pc[p] = "i_mark" /\ UNCHANGED tegraVars
<1> USE DEF Goto, Done, Hold
<1>1. pc \in [Procs -> Pcs] /\ rec \in [Procs -> Records]
  BY DEF TypeOK, EngineTypeOK
<1>2. ~PlatformVerdict(p) /\ ~VerifierChecks(p)
  BY <1>1 DEF PlatformVerdict, CommitVerify, VerifierChecks, VerifyCheck
<1>3. CASE EngineStep(p)
  <2>1. InstallMark(p)
    BY <1>1, <1>3
    DEF EngineStep, InstallStart, InstallWrite, InstallVerify, InstallSave, InstallPost,
        SaveThen, UnwindClear, CommitByHand, CommitByUnit, CommitLoad, CommitHealth, CommitFail,
        CommitClear, RollbackLoad, RollbackClear, SwitchLoad, MarkGoodStart, MarkGoodClear,
        VerifyLoad, VerifyFail, Starts
  <2>2. EngineOnly(p)
    BY <1>2, <2>1
    DEF Step, WriteSlot, Rewrite, InstallWrite, InstallVerify, BootCall, FaultAt, VerifierLoads,
        VerifyLoad, Starts, InstallMark
  <2>3. [rec[p] EXCEPT !.phase = "swapped"].target = rec[p].target
    BY <1>1 DEF Records, NoRec
  <2> QED  BY <1>1, <2>1, <2>2, <2>3 DEF InstallMark, SaveThen, EngineOnly
<1>4. CASE BootCall(p)
  <2>1. PICK ok \in BOOLEAN : EngineCall(p, ok) /\ (ok => \E seen : CallWrites(p, Writes(p), seen))
    BY <1>4 DEF BootCall, EngineCall
  <2>2. ok /\ (InstallPrepare(p, ok) \/ InstallSwap(p, ok))
    BY <1>1, <2>1
    DEF EngineCall, InstallPrepare, InstallSwap, UnwindAbort, UnwindSwap, CommitVerify, CommitGood,
        RollbackAbort, RollbackSwap, SwitchPrepare, SwitchSwap, MarkGoodCall, VerifyCheck
  <2>3. CASE InstallPrepare(p, ok)
    BY <1>1, <2>1, <2>2, <2>3 DEF InstallPrepare, CallWrites
  <2>4. CASE InstallSwap(p, ok)
    BY <1>1, <2>1, <2>2, <2>4 DEF InstallSwap, CallWrites
  <2> QED  BY <2>2, <2>3, <2>4
<1> QED
  BY <1>2, <1>3, <1>4 DEF Step, EngineOnly, WriteSlot, Rewrite, VerifierLoads, EngineStep

LEMMA TriedKept ==
  ASSUME InstallsAlone, TypeOK, DownIsIdle, OneUpdate, Tried, [Next]_vars
  PROVE  Tried'
<1>1. CASE GoDown
  BY <1>1 DEF GoDown, Tried
<1>2. CASE UNCHANGED vars
  BY <1>2
  DEF vars, tegraVars, fwVars, capVars, blVars, Tried, Stages, CapsuleRuns, BootChainIdle
<1>3. CASE Boot
  BY <1>3 DEF Boot, ComeUp, DownIsIdle, board, Tried
<1>4. ASSUME NEW p \in Procs, Kill(p)
      PROVE  Tried'
  <2>1. pc'[p] = "idle" /\ \A q \in Procs \ {p} : pc'[q] \notin AlonePcs \/ pc[p] = "idle"
    BY <1>4 DEF Kill, Done, Goto, OneUpdate, Lone, TypeOK, EngineTypeOK
  <2> QED  BY <1>4, <2>1 DEF Kill, Tried, AlonePcs, InstallPcs
<1>5. ASSUME NEW p \in Procs, Step(p)
      PROVE  Tried'
  <2>1. SUFFICES ASSUME pc'[p] \in {"i_swap", "i_mark", "i_post"}
        PROVE  /\ rec'[p].target \notin flagged'
               /\ pc'[p] # "i_swap" =>
                     IF Stages(rec[p].target)' THEN CapsuleRuns' ELSE next' = rec'[p].target
    <3>1. \A q \in Procs \ {p} : pc'[q] \notin AlonePcs
      BY <1>5, StepIsEngines, StepLone, StepsItself DEF OneUpdate, TypeOK
    <3> QED  BY <2>1, <3>1 DEF Tried, AlonePcs, InstallPcs
  <2>2. rec'[p].target = rec[p].target
    BY <1>5, <2>1, TryingFrom
  <2>3. CASE pc'[p] = "i_swap"
    BY <1>5, <2>2, <2>3, TryingFrom DEF PrepareTarget
  <2>4. CASE pc'[p] = "i_mark"
    <3>1. PICK seen : Activate(running, rec[p].target, Writes(p), seen) /\ pc[p] = "i_swap"
      BY <1>5, <2>4, TryingFrom
    <3> QED  BY <2>2, <2>4, <3>1, ActivateArms DEF Tried, Stages
  <2>5. CASE pc'[p] = "i_post"
    <3>1. UNCHANGED tegraVars /\ pc[p] = "i_mark"
      BY <1>5, <2>5, TryingFrom
    <3> QED
      BY <2>2, <2>5, <3>1
      DEF Tried, tegraVars, fwVars, capVars, blVars, Stages, CapsuleRuns, BootChainIdle
  <2> QED  BY <2>1, <2>3, <2>4, <2>5
<1> QED
  BY <1>1, <1>2, <1>3, <1>4, <1>5 DEF Next, Reboot, PowerCut, PowerCutInCall, Watchdog

\* An install that asks for a reboot has the firmware try the new slot: its capsule
\* will run, or the slot is requested and has attempts left, however earlier updates,
\* kills and cuts left request, flags and attempts (swap-slot.go:95-159).
THEOREM InstallIsTried ==
  ASSUME InstallsAlone, Answered
  PROVE  Spec => InstallTakes
<1> DEFINE Inv == TypeOK /\ DownIsIdle /\ Trusted /\ Accounted /\ Tried
<1>1. Init => Accounted /\ Tried
  BY OtherType, TegraBootAssumption
  DEF Init, EngineInit, TegraInit, Accounted, Tried, Slots, Other, Off
<1>2. TypeOK /\ DownIsIdle /\ Trusted /\ Accounted /\ [Next]_vars => Accounted'
  BY AccountedKept
<1>3. TypeOK /\ DownIsIdle /\ OneUpdate /\ Tried /\ [Next]_vars => Tried'
  BY TriedKept
<1>4. ASSUME Inv, [Next]_vars, NEW p \in Procs, Leaves(p, "i_post")
      PROVE  IF Stages(rec[p].target) THEN CapsuleRuns' /\ rec[p].target \notin flagged'
             ELSE NextBoots' = {rec[p].target}
  <2>1. NextBoots' = NextBoots /\ CapsuleRuns' = CapsuleRuns /\ flagged' = flagged
    BY <1>4, EndKeepsFirmware DEF Leaves
  <2>2. rec[p].target \notin flagged
    BY <1>4 DEF Leaves, Tried
  <2>3. CASE Stages(rec[p].target)
    BY <1>4, <2>1, <2>2, <2>3 DEF Leaves, Tried
  <2>4. CASE ~Stages(rec[p].target)
    <3>1. running # Off /\ rec[p].target = Other(running) /\ rec[p].target \in Slots
      BY <1>4, PhaseOfRecord
      DEF Leaves, DownIsIdle, Trusted, Aims, InstallPcs, TypeOK, EngineTypeOK
    <3>2. ~Spent(rec[p].target)
      BY <1>4, <2>2, <3>1 DEF Accounted, Spent
    <3>3. next = rec[p].target
      BY <1>4, <2>4 DEF Leaves, Tried
    <3>4. Points(rec[p].target)
      BY <3>1, <3>3 DEF Points, Wanted, Slots, NoReq
    <3> QED  BY <2>1, <2>4, <3>1, <3>2, <3>4, PointsThere
  <2> QED  BY <2>3, <2>4
<1>5. Inv /\ [Next]_vars =>
        \A p \in Procs : Leaves(p, "i_post") /\ pc'[p] = "idle"
          => IF Stages(rec[p].target) THEN CapsuleRuns' /\ rec[p].target \notin flagged'
             ELSE NextBoots' = {rec[p].target}
  BY <1>4
<1> QED  BY <1>1, <1>2, <1>3, <1>5, TrustedAlways, OneUpdateAlways, PTL DEF Spec, InstallTakes

---------------------------------------------------------------------------
(* The record. *)

\* A failed deployment stays failed until rollback or mark-good removes its record:
\* whatever fails, is killed, is flagged, loses power or loses a rename, for one
\* command line (commit.go:46-47).
THEOREM TegraFailedIsFinal ==
  ASSUME OneAtATime
  PROVE  Spec => FailedStays
<1>1. ASSUME NEW p \in Procs, Step(p)
      PROVE  EngineStep(p) \/ \E ok \in BOOLEAN : EngineCall(p, ok)
  BY <1>1, StepIsEngines
<1>2. ASSUME TypeOK, Unfailed, [Next]_vars
      PROVE  Unfailed'
  <2>1. FileTypeOK /\ EngineTypeOK
    BY <1>2 DEF TypeOK
  <2>2. ASSUME NEW p \in Procs, Step(p)
        PROVE  Unfailed'
    BY <1>1, <1>2, <2>1, <2>2, StepUnfailed, CallUnfailed
  <2>3. ASSUME NEW p \in Procs, Kill(p)
        PROVE  Unfailed'
    BY <1>2, <2>1, <2>3, StopUnfailed DEF Kill
  <2>4. CASE Reboot \/ PowerCut \/ Watchdog \/ \E p \in Procs : PowerCutInCall(p)
    BY <1>2, <2>1, <2>4, StopUnfailed DEF Reboot, PowerCut, Watchdog, PowerCutInCall
  <2>5. CASE Boot \/ UNCHANGED vars
    BY <1>2, <2>5 DEF Boot, ComeUp, KeepFile, vars, board, Unfailed
  <2> QED  BY <1>2, <2>2, <2>3, <2>4, <2>5 DEF Next
<1>3. ASSUME TypeOK, Unfailed, [Next]_vars, state.phase = "failed", state' # state, running' # Off
      PROVE  state' = NoRec /\ \E p \in Procs : pc[p] \in {"r_clear", "m_clear"}
  <2>1. FileTypeOK /\ EngineTypeOK
    BY <1>3 DEF TypeOK
  <2>2. ~(\E p \in Procs : PowerCutInCall(p)) /\ ~Reboot /\ ~PowerCut /\ ~Watchdog
    BY <1>3 DEF PowerCutInCall, Reboot, PowerCut, Watchdog, GoDown
  <2>3. ~Boot /\ ~UNCHANGED vars /\ \A p \in Procs : ~Kill(p)
    BY <1>3 DEF Boot, KeepFile, vars, Kill
  <2>4. PICK p \in Procs : Step(p)
    BY <1>3, <2>2, <2>3 DEF Next
  <2>5. EngineStep(p)
    BY <1>1, <1>3, <2>1, <2>4, EngineCallType
  <2> QED  BY <1>3, <2>5, FailedEnds
<1>4. Init => Unfailed
  BY DEF Init, EngineInit, Unfailed, InstallPcs, CommitPcs, VerifyPcs
<1>5. TypeOK /\ Unfailed /\ [Next]_vars => Unfailed'
  BY <1>2
<1>6. TypeOK /\ Unfailed /\ [Next]_vars =>
        (state.phase = "failed" /\ state' # state /\ running' # Off
           => state' = NoRec /\ \E p \in Procs : pc[p] \in {"r_clear", "m_clear"})
  BY <1>3
<1> QED  BY <1>4, <1>5, <1>6, TegraTypeCorrect, PTL DEF FailedStays, Spec
===============================================================================
