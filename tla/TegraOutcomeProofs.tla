-------------------------- MODULE TegraOutcomeProofs --------------------------
(***************************************************************************)
(* Where a request leads on a Jetson: a board that is up boots what it     *)
(* runs unless a record, or a caller who owes a reboot, says otherwise; a  *)
(* commit is final; a bootloader update is accepted when it was applied.   *)
(***************************************************************************)
EXTENDS TegraProofs

\* What the theorems ask of caller, platform and file system.
Sober == InstallsAlone /\ Answered /\ LazyRename = FALSE

\* The slot an update to t came from boots, and the firmware has not given it up.
Origin(t) == content[Other(t)] = "good" /\ (running = Other(t) \/ ~Spent(Other(t)))

\* The record is durable, every update has its origin, and what is requested is a slot
\* that can be tried, or runs, or is being tried.
Sourced ==
    /\ disk = state
    /\ running # Off => chain = running
    /\ state # NoRec => Origin(state.target)
    /\ \A p \in Procs : pc[p] \in Working => Origin(rec[p].target)
    /\ \A p \in Procs : pc[p] = "s_swap" => Other(running) \notin flagged
    /\ \/ next \in {NoReq, running} \/ ~Spent(next)
       \/ running = Off /\ switching = "in_progress"

\* What the invariants of TegraProofs say together.
Known == TypeOK /\ DownIsIdle /\ OneUpdate /\ Trusted /\ Accounted /\ Tried

LEMMA KnownAlways ==
  ASSUME Sober
  PROVE  Spec => []Known
<1>1. Init => Accounted /\ Tried
  BY OtherType, TegraBootAssumption
  DEF Init, EngineInit, TegraInit, Accounted, Tried, Slots, Other, Off
<1>2. TypeOK /\ DownIsIdle /\ Trusted /\ Accounted /\ [Next]_vars => Accounted'
  BY AccountedKept DEF Sober
<1>3. TypeOK /\ DownIsIdle /\ OneUpdate /\ Tried /\ [Next]_vars => Tried'
  BY TriedKept DEF Sober
<1>4. InstallsAlone /\ Answered
  BY DEF Sober
<1> QED  BY <1>1, <1>2, <1>3, <1>4, TrustedAlways, OneUpdateAlways, PTL DEF Spec, Known

\* What p requests, other than the slot that runs: one that can be tried, and a
\* rollback the slot that its update came from.
Requests(p, s) ==
    /\ s \in Slots /\ ~Spent(s)
    /\ pc[p] \in {"i_swap", "s_swap"} \/ (pc[p] = "r_swap" /\ s = Other(rec[p].target))

\* A call changes neither chain nor verdict, and arms a capsule only in the swap of
\* an install.
LEMMA CallRequests ==
  ASSUME Known, Sourced, running # Off, NEW p \in Procs, NEW done, NEW seen,
         CallWrites(p, done, seen)
  PROVE  /\ chain' = chain /\ UNCHANGED blVars
         /\ next' \in {next, NoReq, running} \/ Requests(p, next')
         /\ (osi' => osi) \/ pc[p] = "i_swap"
<1> USE DEF fwVars, capVars, blVars, tegraVars
<1>1. running \in Slots /\ running # Other(running) /\ Other(running) \in Slots
  BY OtherType, OtherTwice DEF Known, TypeOK, EngineTypeOK
<1>2. Other(running) \notin flagged => ~Spent(Other(running))
  BY <1>1, TegraBootAssumption DEF Known, Accounted, Spent
<1>3. CASE pc[p] \in {"i_prep", "s_prep"}
  BY <1>3 DEF CallWrites, PrepareTarget
<1>4. CASE pc[p] = "i_swap"
  <2>1. rec[p].target = Other(running) /\ ~Spent(rec[p].target)
    BY <1>2, <1>4 DEF Known, Trusted, Aims, InstallPcs, Tried
  <2>2. Stage(running, done, seen) \/ Request(rec[p].target)
    BY <1>4 DEF CallWrites, Activate
  <2> QED  BY <1>1, <1>4, <2>1, <2>2 DEF Stage, Request, Requests
<1>5. CASE pc[p] \in {"u_swap", "r_swap", "s_swap"}
  <2>1. PICK s \in Slots : Repoint(s, seen) /\ (s = running \/ Requests(p, s))
    <3>1. CASE pc[p] = "u_swap"
      BY <1>1, <3>1 DEF CallWrites
    <3>2. CASE pc[p] = "s_swap"
      BY <1>1, <1>2, <3>2 DEF CallWrites, Sourced, Requests
    <3>3. CASE pc[p] = "r_swap"
      BY <3>3, PhaseOfRecord, OtherType
      DEF CallWrites, Sourced, Origin, Working, Known, TypeOK, EngineTypeOK, Requests
    <3> QED  BY <1>5, <3>1, <3>2, <3>3
  <2> QED  BY <2>1 DEF Repoint, Request
<1>6. CASE pc[p] \in {"r_abort", "u_abort", "c_good", "m_good"}
  BY <1>6 DEF CallWrites, Abort, MarkGood, Confirm
<1> QED  BY <1>3, <1>4, <1>5, <1>6 DEF CallWrites

LEMMA StepRequests ==
  ASSUME Known, Sourced, NEW p \in Procs, Step(p)
  PROVE  /\ running' = running /\ running # Off /\ running \in Slots
         /\ chain' = chain /\ (UNCHANGED blVars \/ pc[p] \in {"i_write", "i_stream"})
         /\ next' \in {next, NoReq, running} \/ Requests(p, next')
         /\ (osi' => osi) \/ pc[p] = "i_swap"
<1> USE DEF fwVars, capVars, tegraVars
<1>1. running' = running /\ running # Off /\ running \in Slots
  BY RunningKept DEF Known, TypeOK, EngineTypeOK
<1>2. CASE BootCall(p)
  BY <1>1, <1>2, CallRequests DEF BootCall, CallFails
<1>3. CASE WriteSlot(p)
  BY <1>1, <1>3 DEF WriteSlot, Rewrite, InstallWrite, InstallVerify
<1>4. CASE EngineOnly(p) \/ PlatformVerdict(p) \/ VerifierLoads(p) \/ VerifierChecks(p)
  BY <1>1, <1>4
  DEF EngineOnly, PlatformVerdict, VerifyUpdate, VerifierLoads, VerifierChecks, ConfirmBoot, Confirm
<1> QED  BY <1>2, <1>3, <1>4 DEF Step

LEMMA RestoredTrial ==
  ASSUME TypeOK, Restores, NEW s \in Slots, ~Spent(s)
  PROVE  ~(s \in flagged' \/ tries'[s] = 0)
  BY TegraBootAssumption DEF Restores, Spent

\* A step leaves a slot that updates come from alone: who writes a slot is alone, has
\* no record yet and writes the other one.
LEMMA StepOrigin ==
  ASSUME Sober, Known, NEW p \in Procs, Step(p), NEW t \in Slots, Origin(t),
         pc[p] \in {"i_write", "i_stream"} => t = rec[p].target
  PROVE  Origin(t)'
<1>1. running' = running /\ running # Off /\ Other(t) \in Slots
  BY RunningKept, OtherType DEF Known
<1>2. Restores
  BY <1>1, StepsAnswer DEF Known, Sober, Trusted
<1>3. content'[Other(t)] = content[Other(t)]
  <2>1. content' = content \/ InstallWrite(p) \/ InstallVerify(p)
    BY StepIsEngines, StepsStayUp
  <2>2. CASE InstallWrite(p) \/ InstallVerify(p)
    <3>1. pc[p] \in {"i_write", "i_stream"}
      BY <2>2 DEF InstallWrite, InstallVerify
    <3>2. t = rec[p].target /\ Other(t) # t
      BY <3>1, OtherTwice
    <3>3. content \in [Slots -> Images]
      BY DEF Known, TypeOK, EngineTypeOK
    <3> QED  BY <1>1, <2>2, <3>2, <3>3 DEF InstallWrite, InstallVerify
  <2> QED  BY <2>1, <2>2
<1>4. PICK o \in Slots : o = Other(t)
  BY <1>1
<1>5. ~Spent(o) => ~(o \in flagged' \/ tries'[o] = 0)
  BY <1>2, RestoredTrial DEF Known
<1>6. content[o] = "good" /\ (running = o \/ ~Spent(o))
  BY <1>4 DEF Origin
<1>7. content'[o] = "good" /\ (running' = o \/ ~(o \in flagged' \/ tries'[o] = 0))
  BY <1>1, <1>3, <1>4, <1>5, <1>6
<1> QED  BY <1>4, <1>7 DEF Origin, Spent

\* The record on the medium is the one in the file.
LEMMA StepDurable ==
  ASSUME LazyRename = FALSE, disk = state, NEW p \in Procs, Step(p) \/ Kill(p)
  PROVE  disk' = state'
<1>1. /\ \A r : SaveFile(r) => disk' = state'
      /\ ClearFile \/ ClearFails \/ KeepFile => disk' = state'
  BY DEF SaveFile, ClearFile, ClearFails, KeepFile
<1>2. \A r, l : SaveThen(p, r, l) => disk' = state'
  BY <1>1 DEF SaveThen
<1>3. CASE EngineStep(p)
  BY <1>1, <1>2, <1>3
  DEF EngineStep, InstallStart, InstallWrite, InstallVerify, InstallSave, InstallMark, InstallPost,
      UnwindClear, CommitByHand, CommitByUnit, CommitLoad, CommitHealth, CommitFail, CommitClear,
      RollbackLoad, RollbackClear, SwitchLoad, MarkGoodStart, MarkGoodClear, VerifyLoad, VerifyFail
<1>4. CASE BootCall(p) \/ PlatformVerdict(p) \/ VerifierChecks(p)
  BY <1>4
  DEF BootCall, PlatformVerdict, VerifierChecks, InstallPrepare, InstallSwap, UnwindAbort, UnwindSwap,
      CommitVerify, CommitGood, RollbackAbort, RollbackSwap, SwitchPrepare, SwitchSwap, MarkGoodCall,
      VerifyCheck
<1>5. CASE Kill(p)
  BY <1>5 DEF Kill
<1> QED  BY <1>3, <1>4, <1>5 DEF Step, EngineOnly, WriteSlot, Rewrite, VerifierLoads, EngineStep

\* A switch requests the slot only once its flag is reset.
LEMMA SwitchPrepares ==
  ASSUME EngineTypeOK, NEW p \in Procs, Step(p), pc'[p] = "s_swap"
  PROVE  PrepareTarget(Other(running))
<1> USE DEF Goto, Done, Hold
<1>1. pc \in [Procs -> Pcs]
  BY DEF EngineTypeOK
<1>2. ~EngineStep(p) /\ ~PlatformVerdict(p) /\ ~VerifierChecks(p)
  BY <1>1
  DEF EngineStep, InstallStart, InstallWrite, InstallVerify, InstallSave, InstallMark, InstallPost,
      SaveThen, UnwindClear, CommitByHand, CommitByUnit, CommitLoad, CommitHealth, CommitFail,
      CommitClear, RollbackLoad, RollbackClear, SwitchLoad, MarkGoodStart, MarkGoodClear,
      VerifyLoad, VerifyFail, Starts, PlatformVerdict, CommitVerify, VerifierChecks, VerifyCheck
<1>3. PICK ok \in BOOLEAN : EngineCall(p, ok) /\ (ok => \E seen : CallWrites(p, Writes(p), seen))
  BY <1>2 DEF Step, EngineOnly, WriteSlot, Rewrite, VerifierLoads, EngineStep, BootCall, EngineCall
<1>4. SwitchPrepare(p, ok) /\ ok
  BY <1>1, <1>3
  DEF EngineCall, InstallPrepare, InstallSwap, UnwindAbort, UnwindSwap, CommitVerify, CommitGood,
      RollbackAbort, RollbackSwap, SwitchPrepare, SwitchSwap, MarkGoodCall, VerifyCheck
<1> QED  BY <1>3, <1>4 DEF SwitchPrepare, CallWrites

LEMMA StepSourced ==
  ASSUME Sober, Known, Sourced, NEW p \in Procs, Step(p)
  PROVE  Sourced'
<1>1. /\ running' = running /\ running # Off /\ running \in Slots /\ chain' = chain
      /\ next' \in {next, NoReq, running} \/ (next' \in Slots /\ ~Spent(next'))
  BY StepRequests DEF Requests
<1>2. disk' = state'
  BY StepDurable DEF Sober, Sourced
<1>14. Restores
  BY <1>1, StepsAnswer DEF Known, Sober, Trusted
<1>3. FileTypeOK /\ EngineTypeOK /\ OneUpdate /\ pc \in [Procs -> Pcs] /\ rec \in [Procs -> Records]
  BY DEF Known, TypeOK, EngineTypeOK
<1>4. /\ Undisturbed(p)'
      /\ \/ state' \in {state, NoRec}
         \/ pc[p] \in Working /\ state'.target = rec[p].target
      /\ pc'[p] \in Working =>
            \/ pc[p] \in Working /\ rec'[p].target = rec[p].target
            \/ pc'[p] = "i_write" /\ state = NoRec /\ state' = NoRec
            \/ rec'[p] = state /\ state' = state /\ state # NoRec
  BY <1>3, StepIsEngines, StepRecords DEF OneUpdate
<1>5. \A q \in Procs \ {p} : pc'[q] = pc[q] /\ rec'[q] = rec[q] /\ pc[q] \notin AlonePcs
  BY <1>3, StepIsEngines, StepsItself, StepLone DEF Sober, OneUpdate
<1>6. state # NoRec => state.target \in Slots
  BY <1>3, PhaseOfRecord DEF FileTypeOK
<1>7. \A q \in Procs : rec[q].target \in Slots
  BY <1>3, PhaseOfRecord
<1>8. ASSUME NEW t \in Slots,
             \/ state # NoRec /\ t = state.target
             \/ \E q \in Procs : pc[q] \in Working /\ t = rec[q].target
      PROVE  Origin(t)'
  <2>1. Origin(t)
    BY <1>8 DEF Sourced
  <2>2. pc[p] \in {"i_write", "i_stream"} => t = rec[p].target
    BY <1>3, <1>8
    DEF OneUpdate, Lone, Undisturbed, Working, AlonePcs, InstallPcs, CommitPcs, VerifyPcs
  <2> QED  BY <2>1, <2>2, StepOrigin
<1>9. ASSUME NEW t \in Slots, pc'[p] = "i_write", t = rec'[p].target
      PROVE  Origin(t)'
  <2>1. Trusted'
    BY StepTrusted DEF Known, Sober
  <2>2. t = Other(running)
    BY <1>1, <1>9, <2>1 DEF Trusted, Aims, InstallPcs
  <2>3. Other(t) = running
    BY <1>1, <2>2, OtherTwice
  <2> QED  BY <1>1, <2>1, <2>3 DEF Trusted, Origin
<1>10. state' # NoRec => Origin(state.target)'
  <2>1. SUFFICES ASSUME state' # NoRec
                 PROVE  Origin(state.target)'
    OBVIOUS
  <2>2. PICK t \in Slots : t = state'.target
    BY <1>4, <1>6, <1>7, <2>1
  <2>3. Origin(t)'
    BY <1>4, <1>8, <2>1, <2>2
  <2> QED  BY <2>2, <2>3 DEF Origin, Spent
<1>11. ASSUME NEW q \in Procs, pc'[q] \in Working
       PROVE  Origin(rec[q].target)'
  <2>1. EngineTypeOK'
    BY TypeKept DEF Known, Next, TypeOK
  <2>2. PICK t \in Slots : t = rec'[q].target
    BY <2>1, PhaseOfRecord DEF EngineTypeOK
  <2>3. Origin(t)'
    BY <1>4, <1>5, <1>8, <1>9, <1>11, <2>2
  <2> QED  BY <2>2, <2>3 DEF Origin, Spent
<1>12. ASSUME NEW q \in Procs, pc'[q] = "s_swap"
       PROVE  Other(running) \notin flagged'
  <2>1. q = p
    BY <1>5, <1>12 DEF AlonePcs
  <2>2. PrepareTarget(Other(running))
    BY <1>3, <1>12, <2>1, SwitchPrepares
  <2> QED  BY <2>2 DEF PrepareTarget
<1>13. \/ next' \in {NoReq, running'}
       \/ ~Spent(next)'
  <2>1. CASE next' \in {NoReq, running}
    BY <1>1, <2>1
  <2>2. CASE next' \in Slots /\ ~Spent(next')
    <3>1. PICK s \in Slots : s = next' /\ ~Spent(s)
      BY <2>2 DEF Spent
    <3> QED  BY <1>14, <3>1, RestoredTrial DEF Known, Spent
  <2>3. CASE next' = next /\ next \notin {NoReq, running}
    <3>1. PICK s \in Slots : s = next /\ ~Spent(s)
      BY <1>1, <2>3 DEF Sourced, Known, TypeOK, TegraTypeOK
    <3> QED  BY <1>14, <2>3, <3>1, RestoredTrial DEF Known, Spent
  <2> QED  BY <1>1, <2>1, <2>2, <2>3
<1>15. running' # Off => chain' = running'
  BY <1>1 DEF Sourced
<1> QED  BY <1>1, <1>2, <1>10, <1>11, <1>12, <1>13, <1>15 DEF Sourced

\* What a kill and a power cut leave of a call.
LEMMA KillSourced ==
  ASSUME Sober, Known, Sourced, NEW p \in Procs, Kill(p)
  PROVE  Sourced'
<1>1. running' = running /\ running # Off /\ running \in Slots /\ content' = content
  BY RunningKept DEF Known, TypeOK, EngineTypeOK, Kill
<1>2. /\ disk' = disk /\ state' = state
      /\ \A q \in Procs : pc'[q] \in {pc[q], "idle"} /\ (pc'[q] = pc[q] => rec'[q] = rec[q])
  BY DEF Kill, Done, Goto, Known, TypeOK, EngineTypeOK
<1>3. /\ Restores /\ chain' = chain
      /\ next' \in {next, NoReq, running} \/ (next' \in Slots /\ ~Spent(next'))
  <2>1. UNCHANGED tegraVars => Restores /\ chain' = chain /\ next' = next
    BY DEF tegraVars, fwVars, Restores
  <2> QED  BY <1>1, <2>1, CallsRestore, CallRequests DEF Kill, Known, Requests
<1>4. ASSUME NEW t \in Slots, Origin(t)
      PROVE  Origin(t)'
  <2>1. PICK o \in Slots : o = Other(t)
    BY OtherType
  <2>2. content[o] = "good" /\ (running = o \/ ~Spent(o))
    BY <1>4, <2>1 DEF Origin
  <2>3. ~Spent(o) => ~(o \in flagged' \/ tries'[o] = 0)
    BY <1>3, RestoredTrial DEF Known
  <2> QED  BY <1>1, <2>1, <2>2, <2>3 DEF Origin, Spent
<1>5. state' # NoRec => Origin(state.target)'
  <2>1. SUFFICES ASSUME state # NoRec
                 PROVE  Origin(state.target)'
    BY <1>2
  <2>2. PICK t \in Slots : t = state.target /\ Origin(t)
    BY <2>1, PhaseOfRecord DEF Known, TypeOK, FileTypeOK, Sourced
  <2> QED  BY <1>2, <1>4, <2>2 DEF Origin, Spent
<1>6. ASSUME NEW q \in Procs, pc'[q] \in Working
      PROVE  Origin(rec[q].target)'
  <2>1. pc[q] \in Working /\ rec'[q] = rec[q]
    BY <1>2, <1>6 DEF Working, InstallPcs, CommitPcs, VerifyPcs
  <2>2. PICK t \in Slots : t = rec[q].target /\ Origin(t)
    BY <2>1, PhaseOfRecord DEF Known, TypeOK, EngineTypeOK, Sourced
  <2> QED  BY <1>4, <2>1, <2>2 DEF Origin, Spent
<1>7. ASSUME NEW q \in Procs, pc'[q] = "s_swap"
      PROVE  Other(running) \notin flagged'
  BY <1>1, <1>2, <1>3, <1>7 DEF Sourced, Restores
<1>8. next' \in {NoReq, running'} \/ ~Spent(next)'
  <2>1. CASE next' \in Slots /\ ~Spent(next')
    <3>1. PICK s \in Slots : s = next' /\ ~Spent(s)
      BY <2>1 DEF Spent
    <3> QED  BY <1>3, <3>1, RestoredTrial DEF Known, Spent
  <2>2. CASE next' = next /\ next \notin {NoReq, running}
    <3>1. PICK s \in Slots : s = next /\ ~Spent(s)
      BY <1>1, <2>2 DEF Sourced, Known, TypeOK, TegraTypeOK
    <3> QED  BY <1>3, <2>2, <3>1, RestoredTrial DEF Known, Spent
  <2> QED  BY <1>1, <1>3, <2>1, <2>2
<1> QED  BY <1>1, <1>2, <1>3, <1>5, <1>6, <1>7, <1>8 DEF Sourced

LEMMA StopSourced ==
  ASSUME Sober, Known, Sourced,
         Reboot \/ PowerCut \/ Watchdog \/ \E p \in Procs : PowerCutInCall(p)
  PROVE  Sourced'
<1>1. /\ running # Off /\ running \in Slots /\ running' = Off
      /\ tries[running] \in Nat /\ tries[running] > 0 /\ Restores
  BY StopFinds DEF Sober, Known
<1>2. /\ disk' = disk /\ state' = state /\ content' = content
      /\ \A p \in Procs : pc'[p] = "idle"
  BY DEF Reboot, PowerCut, Watchdog, PowerCutInCall, GoDown, SyncFile, LoseFile, Sourced
<1>3. next' \in {next, NoReq, running} \/ (next' \in Slots /\ ~Spent(next'))
  <2>1. UNCHANGED tegraVars \/ UNCHANGED fwVars => next' = next
    BY DEF tegraVars, fwVars
  <2> QED
    BY <1>1, <2>1, CallRequests DEF Reboot, PowerCut, Watchdog, PowerCutInCall, Requests
<1>4. ~Spent(running)
  BY <1>1 DEF Known, Trusted, Spent
<1>5. state' # NoRec => Origin(state.target)'
  <2>1. SUFFICES ASSUME state # NoRec
                 PROVE  Origin(state.target)'
    BY <1>2
  <2>2. PICK o \in Slots : o = Other(state.target)
    BY <2>1, PhaseOfRecord, OtherType DEF Known, TypeOK, FileTypeOK
  <2>3. content[o] = "good" /\ ~Spent(o)
    BY <1>4, <2>1, <2>2 DEF Sourced, Origin
  <2>4. ~(o \in flagged' \/ tries'[o] = 0)
    BY <1>1, <2>3, RestoredTrial DEF Known
  <2> QED  BY <1>2, <2>2, <2>3, <2>4 DEF Origin, Spent
<1>6. next' = NoReq \/ ~Spent(next)'
  <2>1. PICK s \in Slots \cup {NoReq} : s = next' /\ (s # NoReq => ~Spent(s))
    BY <1>1, <1>3, <1>4 DEF Sourced, Known, TypeOK, TegraTypeOK, Spent
  <2> QED  BY <1>1, <2>1, RestoredTrial DEF Known, Spent
<1> QED
  BY <1>1, <1>2, <1>5, <1>6 DEF Sourced, Working, InstallPcs, CommitPcs, VerifyPcs
\* A boot: either the slot that the firmware picked comes up, or it cost that slot an
\* attempt and left the other one alone.
LEMMA BootPicks ==
  ASSUME Sober, Known, Boot
  PROVE  \E applied \in BOOLEAN, s \in Slots :
            /\ ProcessCapsule(applied) /\ JudgeRequest
            /\ Wanted(applied) \in Slots /\ s \in {Wanted(applied), Other(Wanted(applied))}
            /\ ~Spent(Wanted(applied)) => s = Wanted(applied)
            /\ ~Spent(s) /\ chain' = s
            /\ \A t \in Slots \ {s} : ~Spent(t) => ~(t \in flagged' \/ tries'[t] = 0)
            /\ running = Off /\ running' = IF content[s] = "good" THEN s ELSE Off
            /\ rebootDue' = rebootDue
            /\ state' = state /\ disk' = disk /\ content' = content
            /\ \A p \in Procs : pc[p] = "idle" /\ pc'[p] = "idle"
<1>1. PICK applied \in BOOLEAN :
         /\ ProcessCapsule(applied) /\ JudgeRequest /\ Attempt(applied, FALSE)
         /\ IF content[Picked(applied)] = "good" THEN ComeUp(Picked(applied))
            ELSE UNCHANGED <<pc, rec, board>>
  <2>1. ("flag" \in Faults) = FALSE
    BY DEF Sober, Answered
  <2> QED  BY <2>1 DEF Boot
<1> DEFINE w == Wanted(applied)
<1>2. w \in Slots /\ Picked(applied) \in Slots
  BY OtherType DEF Known, TypeOK, TegraTypeOK, Wanted, Picked
<1>3. PICK s \in Slots : s = Picked(applied)
  BY <1>2
<1>4. s \in {w, Other(w)} /\ (~Spent(w) => s = w)
  BY <1>3 DEF Picked
<1>5. /\ ~Spent(s) /\ chain' = s
      /\ flagged' = flagged \cup ({w} \ {s})
      /\ \A t \in Slots : t # s => tries'[t] = tries[t]
  BY <1>1, <1>3 DEF Attempt, Known, TypeOK, TegraTypeOK
<1>6. \A t \in Slots \ {s} : ~Spent(t) => ~(t \in flagged' \/ tries'[t] = 0)
  BY <1>4, <1>5 DEF Spent
<1>7. /\ running = Off /\ state' = state /\ disk' = disk /\ content' = content
      /\ \A p \in Procs : pc[p] = "idle" /\ pc'[p] = "idle"
  BY <1>1 DEF Boot, Known, DownIsIdle, ComeUp, board, KeepFile
<1>8. rebootDue' = rebootDue /\ running' = IF content[s] = "good" THEN s ELSE Off
  BY <1>1, <1>3, <1>7 DEF ComeUp, board
<1> QED  BY <1>1, <1>2, <1>4, <1>5, <1>6, <1>7, <1>8

\* A board that comes up is on the slot that it would boot again.
LEMMA BootLands ==
  ASSUME Sober, Known, Sourced, Boot
  PROVE  Sourced' /\ (running' # Off => Points(running)')
<1>1. PICK applied \in BOOLEAN, s \in Slots :
            /\ ProcessCapsule(applied) /\ JudgeRequest
            /\ Wanted(applied) \in Slots /\ s \in {Wanted(applied), Other(Wanted(applied))}
            /\ ~Spent(Wanted(applied)) => s = Wanted(applied)
            /\ ~Spent(s) /\ chain' = s
            /\ \A t \in Slots \ {s} : ~Spent(t) => ~(t \in flagged' \/ tries'[t] = 0)
            /\ running = Off /\ running' = IF content[s] = "good" THEN s ELSE Off
            /\ rebootDue' = rebootDue
            /\ state' = state /\ disk' = disk /\ content' = content
            /\ \A p \in Procs : pc[p] = "idle" /\ pc'[p] = "idle"
  BY BootPicks
<1>2. next' = NoReq \/ (next' = s /\ switching' = "in_progress")
  <2>1. CASE next = NoReq
    BY <1>1, <2>1 DEF JudgeRequest
  <2>2. CASE next # NoReq /\ next' # NoReq
    <3>1. next' = next /\ switching # "in_progress" /\ switching' = "in_progress"
      BY <1>1, <2>2 DEF JudgeRequest
    <3>2. next # Off
      BY <2>2 DEF Known, TypeOK, TegraTypeOK, Slots, NoReq, Off
    <3>3. ~Spent(next)
      BY <1>1, <2>2, <3>1, <3>2 DEF Sourced
    <3>4. ~applied
      BY <1>1, <2>2 DEF ProcessCapsule, CapsuleRuns, BootChainIdle
    <3>5. Wanted(applied) = next
      BY <2>2, <3>4 DEF Wanted
    <3> QED  BY <1>1, <3>1, <3>3, <3>5
  <2> QED  BY <2>1, <2>2
<1>3. s # Off /\ s # NoReq
  BY DEF Slots, Off, NoReq
<1>4. running' # Off => Points(running)'
  <2>1. SUFFICES ASSUME running' # Off
                 PROVE  Points(running)'
    OBVIOUS
  <2>2. running' = s /\ chain' = s /\ osi' = FALSE
    BY <1>1, <2>1 DEF ProcessCapsule
  <2> QED  BY <1>2, <1>3, <2>2 DEF Points, Wanted
<1>5. state' # NoRec => Origin(state.target)'
  <2>1. SUFFICES ASSUME state # NoRec
                 PROVE  Origin(state.target)'
    BY <1>1
  <2>2. PICK o \in Slots : o = Other(state.target)
    BY <2>1, PhaseOfRecord, OtherType DEF Known, TypeOK, FileTypeOK
  <2>3. content[o] = "good" /\ ~Spent(o)
    BY <1>1, <2>1, <2>2 DEF Sourced, Origin, Slots, Off
  <2>4. o = running' \/ ~(o \in flagged' \/ tries'[o] = 0)
    BY <1>1, <2>3
  <2> QED  BY <1>1, <2>2, <2>3, <2>4 DEF Origin, Spent
<1>6. next' \in {NoReq, running'} \/ (running' = Off /\ switching' = "in_progress")
  BY <1>1, <1>2
<1>7. Sourced'
  BY <1>1, <1>5, <1>6 DEF Sourced, Working, InstallPcs, CommitPcs, VerifyPcs
<1> QED  BY <1>4, <1>7

LEMMA SourcedAlways ==
  ASSUME Sober
  PROVE  Spec => [](Known /\ Sourced)
<1>1. Init => Sourced
  BY DEF Init, FileInit, EngineInit, TegraInit, Sourced, Working, InstallPcs, CommitPcs, VerifyPcs
<1>2. ASSUME Known, Sourced, [Next]_vars
      PROVE  Sourced'
  <2>1. CASE UNCHANGED vars
    BY <1>2, <2>1 DEF vars, tegraVars, fwVars, Sourced, Origin, Spent
  <2> QED  BY <1>2, <2>1, StepSourced, KillSourced, StopSourced, BootLands DEF Next
<1>3. Known /\ Sourced /\ [Next]_vars => Sourced'
  BY <1>2
<1> QED  BY <1>1, <1>3, KnownAlways, PTL DEF Spec
---------------------------------------------------------------------------
(* The verdict on a bootloader update. *)

Applied(t) == t \in fresh /\ esrt = "success" /\ ~osi

\* t waits for its capsule on the slot it was staged from, or was passed over for it.
Waiting(t) == running # t /\ chain = Other(t) /\ next \in {NoReq, Other(t)}

\* A record that is swapped is of a bootloader update that was applied or waits; who
\* is about to ask for the verdict finds it applied.
Judgeable ==
    /\ state.phase = "swapped" /\ Stages(state.target) =>
          Applied(state.target) \/ Waiting(state.target)
    /\ \A p \in Procs : pc[p] = "c_verify" /\ Stages(running) => Applied(running)

LEMMA KeepsJudgeable ==
  ASSUME Known, Judgeable, state.phase = "swapped", state' = state, chain' = chain,
         UNCHANGED blVars, osi' => osi, running' \in {running, Off}, running # Off,
         next' \in {next, NoReq, running, Other(state.target)}
  PROVE  Stages(state.target)' => Applied(state.target)' \/ Waiting(state.target)'
<1>1. PICK t \in Slots : t = state.target
  BY PhaseOfRecord DEF Known, TypeOK, FileTypeOK, NoRec
<1>2. running # t => running = Other(t)
  BY <1>1 DEF Known, TypeOK, EngineTypeOK, Slots, Other
<1>3. t # Off
  BY DEF Slots, Off
<1>4. Stages(t)' => Applied(t)' \/ Waiting(t)'
  BY <1>1, <1>2, <1>3 DEF Judgeable, Stages, Applied, Waiting, blVars
<1> QED  BY <1>1, <1>4 DEF Stages, Applied, Waiting

\* A record becomes swapped when the request is made, and not later.
LEMMA SwappedFrom ==
  ASSUME TypeOK, OneUpdate, NEW p \in Procs, Step(p), state'.phase = "swapped"
  PROVE  \/ /\ state' = state
            /\ pc[p] \notin {"i_write", "i_stream", "i_save", "i_prep", "i_swap", "i_mark",
                              "s_prep", "s_swap"}
         \/ /\ pc[p] = "i_mark" /\ UNCHANGED tegraVars /\ running' = running
            /\ state'.target = rec[p].target
<1> USE DEF Undisturbed
<1>1. /\ pc \in [Procs -> Pcs] /\ rec \in [Procs -> Records] /\ state \in Records
      /\ Undisturbed(p) /\ NoRec.phase = "none"
  BY DEF TypeOK, EngineTypeOK, FileTypeOK, OneUpdate, NoRec
<1>2. \A r \in Records : [r EXCEPT !.phase = "failed"].phase = "failed"
  BY DEF Records, NoRec
<1>3. CASE pc[p] = "i_mark"
  <2>1. EngineOnly(p)
    BY <1>3
    DEF Step, WriteSlot, Rewrite, InstallWrite, InstallVerify, BootCall, FaultAt, PlatformVerdict,
        CommitVerify, VerifierLoads, VerifyLoad, Starts, VerifierChecks, VerifyCheck
  <2>2. state'.target = rec[p].target
    BY <1>1, <1>3, StepIsEngines, StepRecords DEF TypeOK
  <2>3. running' = running
    BY StepIsEngines, StepsStayUp
  <2> QED  BY <1>3, <2>1, <2>2, <2>3 DEF EngineOnly
<1>4. CASE pc[p] # "i_mark" /\ state' = state
  BY <1>1, <1>4
<1>5. CASE pc[p] # "i_mark" /\ state' # state
  <2>1. EngineStep(p)
    BY <1>5, StepIsEngines, EngineCallType DEF TypeOK
  <2>2. ~InstallSave(p)
    BY <1>1, <1>5 DEF InstallSave, SaveThen, SaveFile, KeepFile
  <2>3. ~CommitFail(p) /\ ~VerifyFail(p)
    BY <1>1, <1>2, <1>5 DEF CommitFail, VerifyFail, SaveFile, KeepFile
  <2>4. ~ClearFile /\ ~ClearFails /\ ~KeepFile
    BY <1>1, <1>5 DEF ClearFile, ClearFails, KeepFile
  <2> QED
    BY <1>5, <2>1, <2>2, <2>3, <2>4
    DEF EngineStep, InstallStart, InstallWrite, InstallVerify, InstallMark, InstallPost,
        UnwindClear, CommitByHand, CommitByUnit, CommitLoad, CommitHealth, CommitClear,
        RollbackLoad, RollbackClear, SwitchLoad, MarkGoodStart, MarkGoodClear, VerifyLoad
<1> QED  BY <1>3, <1>4, <1>5

\* Commit asks for the verdict of the slot that runs and is on trial.
LEMMA VerdictFrom ==
  ASSUME TypeOK, NEW p \in Procs, Step(p), pc'[p] = "c_verify"
  PROVE  state.phase = "swapped" /\ state.target = running /\ UNCHANGED tegraVars
<1> USE DEF Goto, Done, Hold
<1>1. pc \in [Procs -> Pcs]
  BY DEF TypeOK, EngineTypeOK
<1>2. \A ok \in BOOLEAN : ~EngineCall(p, ok)
  BY <1>1
  DEF EngineCall, InstallPrepare, InstallSwap, UnwindAbort, UnwindSwap, CommitVerify, CommitGood,
      RollbackAbort, RollbackSwap, SwitchPrepare, SwitchSwap, MarkGoodCall, VerifyCheck
<1>3. EngineStep(p)
  BY <1>2, StepIsEngines
<1>4. CommitLoad(p) /\ pc[p] = "idle"
  BY <1>1, <1>3
  DEF EngineStep, InstallStart, InstallWrite, InstallVerify, InstallSave, InstallMark, InstallPost,
      SaveThen, UnwindClear, CommitByHand, CommitByUnit, CommitLoad, CommitHealth, CommitFail,
      CommitClear, RollbackLoad, RollbackClear, SwitchLoad, MarkGoodStart, MarkGoodClear,
      VerifyLoad, VerifyFail, Starts
<1>5. EngineOnly(p)
  BY <1>1, <1>2, <1>4, CallIsEngines
  DEF Step, WriteSlot, Rewrite, InstallWrite, InstallVerify, VerifierLoads, VerifyLoad
<1> QED  BY <1>1, <1>4, <1>5 DEF CommitLoad, EngineOnly

LEMMA StepJudgeable ==
  ASSUME Sober, Known, Sourced, Judgeable, NEW p \in Procs, Step(p)
  PROVE  Judgeable'
<1>1. /\ running' = running /\ running # Off /\ running \in Slots
      /\ chain' = chain /\ (UNCHANGED blVars \/ pc[p] \in {"i_write", "i_stream"})
      /\ next' \in {next, NoReq, running} \/ Requests(p, next')
      /\ (osi' => osi) \/ pc[p] = "i_swap"
  BY StepRequests
<1>2. EngineTypeOK /\ OneUpdate /\ Aims(p)
  BY DEF Known, TypeOK, Trusted
<1>3. \A q \in Procs \ {p} : pc'[q] = pc[q]
  BY <1>2, StepIsEngines, StepsItself
<1>4. ASSUME state'.phase = "swapped", Stages(state.target)'
      PROVE  Applied(state.target)' \/ Waiting(state.target)'
  <2>1. CASE pc[p] = "i_mark"
    <3>1. UNCHANGED tegraVars /\ state'.target = rec[p].target
      BY <1>4, <2>1, SwappedFrom DEF Known
    <3>2. PICK t \in Slots : t = rec[p].target
      BY <1>2, PhaseOfRecord DEF EngineTypeOK
    <3>3. t = Other(running) /\ Other(t) = running /\ t # running
      BY <1>1, <1>2, <2>1, <3>2, OtherTwice DEF Aims, InstallPcs
    <3>4. Stages(t)
      BY <1>4, <3>1, <3>2 DEF Stages, tegraVars, blVars
    <3>5. next = NoReq
      BY <2>1, <3>2, <3>4 DEF Known, Tried, CapsuleRuns, BootChainIdle
    <3>6. Waiting(t)'
      BY <1>1, <3>1, <3>3, <3>5 DEF Waiting, Sourced, tegraVars, fwVars
    <3> QED  BY <3>1, <3>2, <3>6 DEF Waiting
  <2>2. CASE pc[p] # "i_mark"
    <3>1. state' = state /\ pc[p] \notin {"i_write", "i_stream", "i_swap", "s_swap"}
      BY <1>4, <2>2, SwappedFrom DEF Known
    <3>2. pc[p] = "r_swap" => rec[p].target = state.target
      BY <1>2, <1>4, <3>1 DEF OneUpdate, Agreed, Working, NoRec
    <3> QED  BY <1>1, <1>4, <3>1, <3>2, KeepsJudgeable DEF Requests
  <2> QED  BY <2>1, <2>2
<1>5. ASSUME NEW q \in Procs, pc'[q] = "c_verify", Stages(running)'
      PROVE  Applied(running)'
  <2>1. PICK t \in Slots : t = running
    BY <1>1
  <2>2. CASE q = p
    <3>1. state.phase = "swapped" /\ state.target = running /\ UNCHANGED tegraVars
      BY <1>5, <2>2, VerdictFrom DEF Known
    <3>2. Stages(t)
      BY <1>1, <1>5, <2>1, <3>1 DEF Stages, tegraVars, blVars
    <3>3. Applied(t)
      BY <2>1, <3>1, <3>2 DEF Judgeable, Waiting
    <3> QED  BY <1>1, <2>1, <3>1, <3>3 DEF Applied, tegraVars, blVars, capVars
  <2>3. CASE q # p
    <3>1. pc[q] = "c_verify" /\ pc[p] \notin AlonePcs
      BY <1>2, <1>3, <1>5, <2>3 DEF OneUpdate, Lone
    <3>2. UNCHANGED blVars /\ (osi' => osi)
      BY <1>1, <3>1 DEF AlonePcs, InstallPcs
    <3>3. Stages(t)
      BY <1>1, <1>5, <2>1, <3>2 DEF Stages, blVars
    <3>4. Applied(t)
      BY <2>1, <3>1, <3>3 DEF Judgeable
    <3> QED  BY <1>1, <2>1, <3>2, <3>4 DEF Applied, blVars
  <2> QED  BY <2>2, <2>3
<1> QED  BY <1>4, <1>5 DEF Judgeable
\* Nothing that is called while an update is on trial arms a capsule, or requests
\* another slot than the one that runs or the one that the update came from.
LEMMA TrialRequests ==
  ASSUME Known, Sourced, running # Off, state.phase = "swapped",
         NEW p \in Procs, NEW done, NEW seen, CallWrites(p, done, seen)
  PROVE  /\ chain' = chain /\ UNCHANGED blVars /\ (osi' => osi)
         /\ next' \in {next, NoReq, running, Other(state.target)}
<1>1. pc[p] \notin {"i_swap", "s_swap"}
  BY DEF Known, OneUpdate, Undisturbed, NoRec
<1>2. pc[p] = "r_swap" => rec[p].target = state.target
  BY DEF Known, OneUpdate, Agreed, Working, NoRec
<1> QED  BY <1>1, <1>2, CallRequests DEF Requests

LEMMA KillJudgeable ==
  ASSUME Sober, Known, Sourced, Judgeable, NEW p \in Procs, Kill(p)
  PROVE  Judgeable'
<1>1. /\ running' = running /\ running # Off /\ running \in Slots /\ state' = state
      /\ pc[p] # "idle" /\ pc'[p] = "idle" /\ \A q \in Procs \ {p} : pc'[q] = pc[q]
  BY RunningKept DEF Kill, Done, Goto, Known, TypeOK, EngineTypeOK
<1>2. UNCHANGED tegraVars \/ \E done, seen : CallWrites(p, done, seen)
  BY DEF Kill
<1>3. state.phase = "swapped" /\ Stages(state.target)' =>
         Applied(state.target)' \/ Waiting(state.target)'
  <2>1. UNCHANGED tegraVars => chain' = chain /\ next' = next /\ osi' = osi /\ UNCHANGED blVars
    BY DEF tegraVars, fwVars, capVars
  <2> QED  BY <1>1, <1>2, <2>1, TrialRequests, KeepsJudgeable
<1>4. ASSUME NEW q \in Procs, pc'[q] = "c_verify", Stages(running)'
      PROVE  Applied(running)'
  <2>1. q # p /\ pc[q] = "c_verify"
    BY <1>1, <1>4
  <2>2. pc[p] \notin AlonePcs
    BY <2>1 DEF Known, OneUpdate, Lone
  <2>3. UNCHANGED blVars /\ (osi' => osi)
    BY <1>1, <1>2, <2>2, CallRequests DEF tegraVars, capVars, AlonePcs, InstallPcs
  <2>4. Stages(running) /\ Applied(running)
    BY <1>1, <1>4, <2>1, <2>3 DEF Judgeable, Stages, blVars
  <2> QED  BY <1>1, <2>3, <2>4 DEF Applied, blVars
<1> QED  BY <1>1, <1>3, <1>4 DEF Judgeable

LEMMA StopJudgeable ==
  ASSUME Sober, Known, Sourced, Judgeable,
         Reboot \/ PowerCut \/ Watchdog \/ \E p \in Procs : PowerCutInCall(p)
  PROVE  Judgeable'
<1>1. /\ running # Off /\ running' = Off /\ state' = state
      /\ \A p \in Procs : pc'[p] = "idle"
  BY DEF Reboot, PowerCut, Watchdog, PowerCutInCall, GoDown, SyncFile, LoseFile, Settled, Sourced
<1>2. UNCHANGED <<fwVars, osi, blVars>> \/ \E p \in Procs : \E done, seen : CallWrites(p, done, seen)
  BY DEF Reboot, PowerCut, Watchdog, PowerCutInCall, tegraVars, capVars
<1>3. UNCHANGED <<fwVars, osi, blVars>> =>
         chain' = chain /\ next' = next /\ osi' = osi /\ UNCHANGED blVars
  BY DEF fwVars
<1>4. state.phase = "swapped" /\ Stages(state.target)' =>
         Applied(state.target)' \/ Waiting(state.target)'
  BY <1>1, <1>2, <1>3, TrialRequests, KeepsJudgeable
<1> QED  BY <1>1, <1>4 DEF Judgeable

\* The capsule is applied and its slot comes up, or the slot it was staged from does.
LEMMA BootJudgeable ==
  ASSUME Sober, Known, Sourced, Judgeable, Boot
  PROVE  Judgeable'
<1>1. PICK applied \in BOOLEAN, s \in Slots :
            /\ ProcessCapsule(applied) /\ JudgeRequest
            /\ Wanted(applied) \in Slots /\ s \in {Wanted(applied), Other(Wanted(applied))}
            /\ ~Spent(Wanted(applied)) => s = Wanted(applied)
            /\ ~Spent(s) /\ chain' = s
            /\ \A t \in Slots \ {s} : ~Spent(t) => ~(t \in flagged' \/ tries'[t] = 0)
            /\ running = Off /\ running' = IF content[s] = "good" THEN s ELSE Off
            /\ rebootDue' = rebootDue
            /\ state' = state /\ disk' = disk /\ content' = content
            /\ \A p \in Procs : pc[p] = "idle" /\ pc'[p] = "idle"
  BY BootPicks
<1>2. ASSUME state.phase = "swapped", Stages(state.target)'
      PROVE  Applied(state.target)' \/ Waiting(state.target)'
  <2>1. PICK t \in Slots : t = state.target
    BY <1>2, PhaseOfRecord DEF Known, TypeOK, FileTypeOK, NoRec
  <2>2. Stages(t)
    BY <1>1, <1>2, <2>1 DEF Stages, ProcessCapsule
  <2>3. CASE Applied(t)
    <3>1. Applied(t)'
      BY <1>1, <2>3 DEF Applied, ProcessCapsule
    <3> QED  BY <1>1, <2>1, <3>1 DEF Applied
  <2>4. CASE Waiting(t) /\ applied
    <3>1. Other(chain) = t
      BY <2>4, OtherTwice DEF Waiting
    <3>2. Applied(t)'
      BY <1>1, <2>4, <3>1 DEF Applied, ProcessCapsule
    <3> QED  BY <1>1, <2>1, <3>2 DEF Applied
  <2>5. CASE Waiting(t) /\ ~applied
    <3>1. PICK o \in Slots : o = Other(t) /\ o # t
      BY OtherTwice, OtherType
    <3>2. Wanted(applied) = o
      BY <2>5, <3>1 DEF Waiting, Wanted
    <3>3. content[o] = "good" /\ ~Spent(o)
      BY <1>1, <1>2, <2>1, <3>1 DEF Sourced, Origin, NoRec, Slots, Off
    <3>4. running' = o /\ chain' = o /\ next' \in {next, NoReq}
      BY <1>1, <3>2, <3>3 DEF JudgeRequest
    <3>5. Waiting(t)'
      BY <2>5, <3>1, <3>4 DEF Waiting
    <3> QED  BY <1>1, <2>1, <3>5 DEF Waiting
  <2> QED  BY <1>2, <2>1, <2>2, <2>3, <2>4, <2>5 DEF Judgeable
<1> QED  BY <1>1, <1>2 DEF Judgeable

\* A bootloader update passes verification when it was applied, and only then,
\* whatever earlier attempts left in the ESRT and in bl-version-before, and whatever
\* else fails, is killed or loses power: an update that was passed over does not come
\* up on its slot at all (verify.go:78-148).
THEOREM VerdictIsRight ==
  ASSUME Sober
  PROVE  Spec => JudgedRight
<1>1. Init => Judgeable
  BY DEF Init, FileInit, EngineInit, Judgeable, NoRec
<1>2. Known /\ Sourced /\ Judgeable /\ [Next]_vars => Judgeable'
  <2>1. CASE UNCHANGED vars
    BY <2>1
    DEF vars, tegraVars, fwVars, capVars, blVars, Judgeable, Stages, Applied, Waiting
  <2> QED  BY <2>1, StepJudgeable, KillJudgeable, StopJudgeable, BootJudgeable DEF Next
<1>3. ASSUME Known, Judgeable, [Next]_vars,
             NEW p \in Procs, Leaves(p, "c_verify"), pc'[p] # "idle", Stages(running)
      PROVE  (pc'[p] = "c_health") = (running \in fresh)
  <2>1. Applied(running) /\ running # Off
    BY <1>3 DEF Leaves, Judgeable, Known, DownIsIdle
  <2>2. Step(p)
    <3>1. ~(\E q \in Procs : PowerCutInCall(q)) /\ ~Reboot /\ ~PowerCut /\ ~Watchdog /\ ~Boot
      BY <1>3, <2>1 DEF Leaves, PowerCutInCall, Reboot, PowerCut, Watchdog, GoDown, Boot
    <3>2. \A q \in Procs : ~Kill(q)
      BY <1>3 DEF Leaves, Kill, Done, Goto, Known, TypeOK, EngineTypeOK
    <3>3. \A q \in Procs \ {p} : ~Step(q)
      BY <1>3, StepIsEngines, StepsItself DEF Leaves, Known, TypeOK
    <3>4. ~UNCHANGED vars
      BY <1>3 DEF Leaves, vars
    <3> QED  BY <1>3, <3>1, <3>2, <3>3, <3>4 DEF Next
  <2>3. PlatformVerdict(p)
    BY <1>3, <2>2
    DEF Leaves, Step, EngineOnly, EngineStep, InstallStart, InstallWrite, InstallVerify, InstallSave,
        InstallMark, InstallPost, UnwindClear, CommitByHand, CommitByUnit, CommitLoad, CommitHealth,
        CommitFail, CommitClear, RollbackLoad, RollbackClear, SwitchLoad, MarkGoodStart,
        MarkGoodClear, VerifyLoad, VerifyFail, Starts, WriteSlot, Rewrite, BootCall, FaultAt,
        VerifierLoads, VerifierChecks, VerifyCheck
  <2>4. pc'[p] = "c_health"
    BY <1>3, <2>1, <2>3 DEF PlatformVerdict, CommitVerify, Verdict, Applied, Goto, Known, TypeOK,
       EngineTypeOK
  <2> QED  BY <2>1, <2>4 DEF Applied
<1>4. Known /\ Judgeable /\ [Next]_vars =>
        \A p \in Procs : Leaves(p, "c_verify") /\ pc'[p] # "idle" /\ effective /\ running \in marker
          => (pc'[p] = "c_health") = (running \in fresh)
  BY <1>3 DEF Stages
<1> QED  BY <1>1, <1>2, <1>4, SourcedAlways, PTL DEF Spec, JudgedRight
---------------------------------------------------------------------------
(* The slot that a board without a record boots. *)

\* What an install has requested, or an unwind or a rollback takes back.
InHand(p) ==
    \/ pc[p] \in {"i_mark", "i_post", "u_abort", "u_swap"}
    \/ pc[p] = "r_clear" /\ rec[p].target = running

\* A board that is up boots what it runs, unless a verb has the request in hand or its
\* caller owes a reboot; who has it in hand has a record.
Homed ==
    /\ running # Off /\ ~rebootDue /\ (\A p \in Procs : ~InHand(p)) => Points(running)
    /\ \A p \in Procs : pc[p] \in {"r_abort", "r_swap", "r_clear"} => state # NoRec

\* Only these steps give the caller a reboot to make, or take one off him.
LEMMA OwesFrom ==
  ASSUME EngineTypeOK, NEW p \in Procs, Step(p)
  PROVE  /\ rebootDue' = rebootDue \/ rebootDue' \/ pc[p] = "r_clear"
         /\ pc[p] = "r_clear" =>
               /\ UNCHANGED tegraVars
               /\ (ClearFile /\ rebootDue' = (running = rec[p].target)) \/ ClearFails
         /\ pc[p] = "i_post" => rebootDue' \/ pc'[p] = "u_abort"
         /\ pc[p] = "u_abort" => pc'[p] = "u_swap"
         /\ pc[p] = "u_swap" => BootCall(p)
<1>1. pc \in [Procs -> Pcs]
  BY DEF EngineTypeOK
<1>2. rebootDue' = rebootDue \/ rebootDue' \/ pc[p] = "r_clear"
  <2>1. CASE EngineStep(p)
    BY <2>1
    DEF EngineStep, InstallStart, InstallWrite, InstallVerify, InstallSave, InstallMark, InstallPost,
        UnwindClear, CommitByHand, CommitByUnit, CommitLoad, CommitHealth, CommitFail, CommitClear,
        RollbackLoad, RollbackClear, SwitchLoad, MarkGoodStart, MarkGoodClear, VerifyLoad, VerifyFail,
        board
  <2>2. ASSUME NEW ok \in BOOLEAN, EngineCall(p, ok)
        PROVE  rebootDue' = rebootDue \/ rebootDue'
    <3>1. CASE SwitchSwap(p, ok)
      <4>1. rebootDue' = (ok \/ rebootDue) /\ rebootDue \in BOOLEAN
        BY <3>1 DEF SwitchSwap, EngineTypeOK
      <4>2. CASE rebootDue = TRUE \/ ok = TRUE
        BY <4>1, <4>2
      <4>3. CASE rebootDue = FALSE /\ ok = FALSE
        BY <4>1, <4>3
      <4> QED  BY <2>2, <4>1, <4>2, <4>3
    <3>2. CASE ~SwitchSwap(p, ok)
      BY <2>2, <3>2
      DEF EngineCall, InstallPrepare, InstallSwap, UnwindAbort, UnwindSwap, CommitVerify, CommitGood,
          RollbackAbort, RollbackSwap, SwitchPrepare, MarkGoodCall, VerifyCheck, board
    <3> QED  BY <3>1, <3>2
  <2> QED  BY <2>1, <2>2, StepIsEngines
<1>3. CASE pc[p] \in {"r_clear", "i_post"}
  <2>1. EngineOnly(p) /\ (RollbackClear(p) \/ InstallPost(p))
    BY <1>3
    DEF Step, EngineOnly, EngineStep, InstallStart, InstallWrite, InstallVerify, InstallSave,
        InstallMark, UnwindClear, CommitByHand, CommitByUnit, CommitLoad, CommitHealth, CommitFail,
        CommitClear, RollbackLoad, SwitchLoad, MarkGoodStart, MarkGoodClear, VerifyLoad, VerifyFail,
        Starts, WriteSlot, Rewrite, BootCall, FaultAt, PlatformVerdict, CommitVerify, VerifierLoads,
        VerifierChecks, VerifyCheck
  <2> QED  BY <1>1, <1>2, <1>3, <2>1 DEF EngineOnly, RollbackClear, InstallPost, Goto
<1>4. CASE pc[p] \in {"u_abort", "u_swap"}
  <2>1. BootCall(p)
    BY <1>4
    DEF Step, EngineOnly, EngineStep, InstallStart, InstallWrite, InstallVerify, InstallSave,
        InstallMark, InstallPost, UnwindClear, CommitByHand, CommitByUnit, CommitLoad, CommitHealth,
        CommitFail, CommitClear, RollbackLoad, RollbackClear, SwitchLoad, MarkGoodStart,
        MarkGoodClear, VerifyLoad, VerifyFail, Starts, WriteSlot, Rewrite, PlatformVerdict,
        CommitVerify, VerifierLoads, VerifierChecks, VerifyCheck
  <2>2. pc[p] = "u_abort" => pc'[p] = "u_swap"
    BY <1>1, <2>1
    DEF BootCall, InstallPrepare, InstallSwap, UnwindAbort, UnwindSwap, CommitGood, RollbackAbort,
        RollbackSwap, SwitchPrepare, SwitchSwap, MarkGoodCall, Goto
  <2> QED  BY <1>2, <1>4, <2>1, <2>2
<1> QED  BY <1>2, <1>3, <1>4

\* What becomes of the calls that may request the other slot.
LEMMA SwapsTo ==
  ASSUME EngineTypeOK, NEW p \in Procs, Step(p), pc[p] \in {"i_swap", "s_swap", "r_swap"}
  PROVE  /\ BootCall(p)
         /\ pc[p] = "i_swap" => pc'[p] = "i_mark" \/ CallFails(p)
         /\ pc[p] = "s_swap" => rebootDue' \/ CallFails(p)
         /\ pc[p] = "r_swap" =>
               \/ CallFails(p)
               \/ /\ pc'[p] = "r_clear" /\ rec'[p] = rec[p]
                  /\ \E seen : Repoint(Other(rec[p].target), seen)
<1>1. pc \in [Procs -> Pcs]
  BY DEF EngineTypeOK
<1>2. BootCall(p)
  BY DEF Step, EngineOnly, EngineStep, InstallStart, InstallWrite, InstallVerify, InstallSave,
      InstallMark, InstallPost, UnwindClear, CommitByHand, CommitByUnit, CommitLoad, CommitHealth,
      CommitFail, CommitClear, RollbackLoad, RollbackClear, SwitchLoad, MarkGoodStart,
      MarkGoodClear, VerifyLoad, VerifyFail, Starts, WriteSlot, Rewrite, PlatformVerdict,
      CommitVerify, VerifierLoads, VerifierChecks, VerifyCheck
<1>3. PICK ok \in BOOLEAN :
         /\ EngineCall(p, ok)
         /\ IF ok THEN \E seen : CallWrites(p, Writes(p), seen) ELSE CallFails(p)
  BY <1>2 DEF BootCall, EngineCall
<1>4. InstallSwap(p, ok) \/ SwitchSwap(p, ok) \/ RollbackSwap(p, ok)
  BY <1>3
  DEF EngineCall, InstallPrepare, UnwindAbort, UnwindSwap, CommitVerify, CommitGood, RollbackAbort,
      SwitchPrepare, MarkGoodCall, VerifyCheck
<1>5. CASE ok
  BY <1>1, <1>2, <1>3, <1>4, <1>5 DEF InstallSwap, SwitchSwap, RollbackSwap, CallWrites, Goto
<1> QED  BY <1>2, <1>3, <1>5

\* Rollback has a record, from its start to the removal.
LEMMA RollsBackFrom ==
  ASSUME EngineTypeOK, NEW p \in Procs, Step(p), pc'[p] \in {"r_abort", "r_swap", "r_clear"}
  PROVE  state' = state /\ (state # NoRec \/ pc[p] \in {"r_abort", "r_swap", "r_clear"})
<1> USE DEF Goto, Done, Hold, KeepFile
<1>1. pc \in [Procs -> Pcs]
  BY DEF EngineTypeOK
<1>2. CASE EngineStep(p)
  BY <1>1, <1>2
  DEF EngineStep, InstallStart, InstallWrite, InstallVerify, InstallSave, InstallMark, InstallPost,
      SaveThen, UnwindClear, CommitByHand, CommitByUnit, CommitLoad, CommitHealth, CommitFail,
      CommitClear, RollbackLoad, RollbackClear, SwitchLoad, MarkGoodStart, MarkGoodClear,
      VerifyLoad, VerifyFail, Starts
<1>3. CASE \E ok \in BOOLEAN : EngineCall(p, ok)
  BY <1>1, <1>3
  DEF EngineCall, InstallPrepare, InstallSwap, UnwindAbort, UnwindSwap, CommitVerify, CommitGood,
      RollbackAbort, RollbackSwap, SwitchPrepare, SwitchSwap, MarkGoodCall, VerifyCheck
<1> QED  BY <1>2, <1>3, StepIsEngines
LEMMA StepHomed ==
  ASSUME OneAtATime, Sober, Faults \cap {"save", "clear", "swap", "unwind"} = {},
         Known, Pointed, Homed, NEW p \in Procs, Step(p)
  PROVE  Homed'
<1>1. /\ EngineTypeOK /\ running' = running /\ running # Off /\ running \in Slots
      /\ \A q \in Procs : q = p
  BY RunningKept DEF Known, TypeOK, EngineTypeOK, OneAtATime
<1>2. pc'[p] \in {"r_abort", "r_swap", "r_clear"} => state' # NoRec
  BY <1>1, RollsBackFrom DEF Homed
<1>3. PICK s \in Slots : s = running
  BY <1>1
<1>4. ASSUME ~rebootDue', ~InHand(p)'
      PROVE  Points(s)'
  <2>1. CASE pc[p] = "r_clear"
    <3>1. /\ UNCHANGED tegraVars /\ ~ClearFails
          /\ ClearFile /\ rebootDue' = (running = rec[p].target)
      BY <1>1, <2>1, OwesFrom DEF ClearFails
    <3>2. running # rec[p].target /\ rec[p].target \in Slots
      BY <1>1, <1>4, <3>1, PhaseOfRecord DEF EngineTypeOK
    <3>3. Other(rec[p].target) = s
      BY <1>3, <3>2 DEF Slots, Other
    <3>4. Points(s)
      BY <2>1, <3>3 DEF Pointed
    <3> QED  BY <3>1, <3>4 DEF Points, Wanted, tegraVars, fwVars, capVars
  <2>2. CASE pc[p] # "r_clear" /\ InHand(p)
    <3>1. pc[p] \in {"i_mark", "i_post", "u_abort", "u_swap"}
      BY <2>2 DEF InHand
    <3>2. pc[p] = "i_mark" => pc'[p] = "i_post"
      <4>1. pc[p] = "i_mark" => InstallMark(p)
        BY <1>1
        DEF Step, EngineOnly, EngineStep, InstallStart, InstallWrite, InstallVerify, InstallSave,
            InstallPost, UnwindClear, CommitByHand, CommitByUnit, CommitLoad, CommitHealth,
            CommitFail, CommitClear, RollbackLoad, RollbackClear, SwitchLoad, MarkGoodStart,
            MarkGoodClear, VerifyLoad, VerifyFail, Starts, WriteSlot, Rewrite, BootCall, FaultAt,
            PlatformVerdict, CommitVerify, VerifierLoads, VerifierChecks, VerifyCheck
      <4> QED  BY <1>1, <4>1 DEF InstallMark, SaveThen, Goto, EngineTypeOK
    <3>3. pc[p] = "u_swap" /\ BootCall(p)
      BY <1>1, <1>4, <3>1, <3>2, OwesFrom DEF InHand
    <3>4. PICK seen : Repoint(s, seen)
      BY <1>3, <3>3, UnwindRepoints
    <3> QED  BY <3>4, RepointPoints
  <2>3. CASE ~InHand(p)
    <3>1. rebootDue = FALSE \/ pc[p] = "r_clear"
      <4>1. rebootDue \in BOOLEAN
        BY <1>1 DEF EngineTypeOK
      <4> QED  BY <1>1, <1>4, <4>1, OwesFrom
    <3>2. pc[p] # "r_clear" => Points(s)
      BY <1>1, <1>3, <2>3, <3>1 DEF Homed
    <3>3. CASE pc[p] \notin {"i_swap", "u_swap", "s_swap", "r_swap", "r_clear"}
      BY <3>2, <3>3, StepKeepsPoints
    <3>4. CASE pc[p] \in {"i_swap", "s_swap", "r_swap"}
      <4>1. FaultAt[pc[p]] \notin Faults
        BY <3>4 DEF FaultAt
      <4>2. CASE CallFails(p)
        BY <3>2, <3>4, <4>1, <4>2 DEF CallFails, Points, Wanted, tegraVars, fwVars, capVars
      <4>3. CASE ~CallFails(p)
        <5>1. pc[p] = "r_swap" /\ pc'[p] = "r_clear" /\ rec'[p] = rec[p]
          BY <1>1, <1>4, <3>4, <4>3, SwapsTo DEF InHand
        <5>2. rec[p].target # running /\ rec[p].target \in Slots
          BY <1>1, <1>4, <5>1, PhaseOfRecord DEF InHand, EngineTypeOK
        <5>3. Other(rec[p].target) = s
          BY <1>3, <5>2 DEF Slots, Other
        <5>4. PICK seen : Repoint(s, seen)
          BY <1>1, <4>3, <5>1, <5>3, SwapsTo
        <5> QED  BY <5>4, RepointPoints
      <4> QED  BY <4>2, <4>3
    <3> QED  BY <2>1, <2>3, <3>3, <3>4 DEF InHand
  <2> QED  BY <2>1, <2>2, <2>3
<1> QED  BY <1>1, <1>2, <1>3, <1>4 DEF Homed, Points

\* The firmware is told to change slots only with a record of why, or a caller who was
\* told to reboot: for one command line, a platform that answers, renames that last,
\* and where neither the record nor the slot fails to be set (state-schema.md:32-35).
THEOREM SwitchIsRecorded ==
  ASSUME OneAtATime, Sober, Faults \cap {"save", "clear", "swap", "unwind"} = {}
  PROVE  Spec => []NoOrphanSwitch
<1>1. Init => Homed
  BY DEF Init, EngineInit, TegraInit, Homed, Points, Wanted
<1>2. Known /\ Sourced /\ Pointed /\ Homed /\ [Next]_vars => Homed'
  <2>1. CASE UNCHANGED vars
    BY <2>1 DEF vars, tegraVars, fwVars, capVars, Homed, InHand, Points, Wanted
  <2>2. CASE GoDown
    BY <2>2 DEF GoDown, Homed
  <2>3. ASSUME NEW p \in Procs, Kill(p), Known, Homed
        PROVE  Homed'
    BY <2>3 DEF Kill, Done, Goto, Homed, Known, TypeOK, EngineTypeOK
  <2>4. ASSUME Boot, Known, Sourced
        PROVE  Homed'
    BY <2>4, BootLands DEF Boot, ComeUp, board, Known, DownIsIdle, Homed, Points
  <2> QED
    BY <2>1, <2>2, <2>3, <2>4, StepHomed DEF Next, Reboot, PowerCut, PowerCutInCall, Watchdog
<1>3. Known /\ Sourced /\ Homed => NoOrphanSwitch
  <2>1. SUFFICES ASSUME Known, Sourced, Homed, running # Off, disk = NoRec, ~rebootDue
                 PROVE  NextBoots = {running} \/ Spent(running)
    BY DEF NoOrphanSwitch
  <2>2. state = NoRec /\ running \in Slots
    BY <2>1 DEF Sourced, Known, TypeOK, EngineTypeOK
  <2>3. ASSUME NEW p \in Procs, InHand(p)
        PROVE  FALSE
    BY <2>1, <2>2, <2>3 DEF InHand, Homed, Known, OneUpdate, Undisturbed, NoRec
  <2> QED  BY <2>1, <2>2, <2>3, PointsThere DEF Homed
<1>4. InstallsAlone
  BY DEF InstallsAlone
<1> QED  BY <1>1, <1>2, <1>3, <1>4, SourcedAlways, PointedAlways, PTL DEF Spec

---------------------------------------------------------------------------
(* Commit is final. *)

FinalPcs == {"c_verify", "c_health", "c_good", "c_clear"}

\* Who runs an update on trial, or commits it, boots it again, until a rollback says
\* otherwise.
Settling ==
    /\ /\ running # Off /\ state.phase = "swapped" /\ running = state.target
       /\ \A p \in Procs : pc[p] # "r_clear"
       => Points(running)
    /\ \A p \in Procs : pc[p] \in FinalPcs => Points(running)

LEMMA CommitsFrom ==
  ASSUME EngineTypeOK, NEW p \in Procs, Step(p), pc'[p] \in FinalPcs
  PROVE  pc'[p] = "c_verify" \/ pc[p] \in FinalPcs
<1> USE DEF Goto, Done, Hold, FinalPcs
<1>1. pc \in [Procs -> Pcs]
  BY DEF EngineTypeOK
<1>2. CASE EngineStep(p)
  BY <1>1, <1>2
  DEF EngineStep, InstallStart, InstallWrite, InstallVerify, InstallSave, InstallMark, InstallPost,
      SaveThen, UnwindClear, CommitByHand, CommitByUnit, CommitLoad, CommitHealth, CommitFail,
      CommitClear, RollbackLoad, RollbackClear, SwitchLoad, MarkGoodStart, MarkGoodClear,
      VerifyLoad, VerifyFail, Starts
<1>3. CASE \E ok \in BOOLEAN : EngineCall(p, ok)
  BY <1>1, <1>3
  DEF EngineCall, InstallPrepare, InstallSwap, UnwindAbort, UnwindSwap, CommitVerify, CommitGood,
      RollbackAbort, RollbackSwap, SwitchPrepare, SwitchSwap, MarkGoodCall, VerifyCheck
<1> QED  BY <1>2, <1>3, StepIsEngines

LEMMA StepSettling ==
  ASSUME OneAtATime, Sober, "clear" \notin Faults, Known, Settling, NEW p \in Procs, Step(p)
  PROVE  Settling'
<1>1. /\ EngineTypeOK /\ running' = running /\ running # Off /\ running \in Slots
      /\ \A q \in Procs : q = p
  BY RunningKept DEF Known, TypeOK, EngineTypeOK, OneAtATime
<1>2. PICK s \in Slots : s = running
  BY <1>1
<1>3. UNCHANGED tegraVars /\ Points(s) => Points(s)'
  BY DEF Points, Wanted, tegraVars, fwVars, capVars
<1>4. ASSUME pc'[p] \in FinalPcs
      PROVE  Points(s)'
  <2>1. CASE pc'[p] = "c_verify"
    <3>1. state.phase = "swapped" /\ state.target = running /\ UNCHANGED tegraVars
      BY <2>1, VerdictFrom DEF Known
    <3>2. pc[p] # "r_clear"
      BY <2>1 DEF Step, EngineOnly, EngineStep, InstallStart, InstallWrite, InstallVerify,
         InstallSave, InstallMark, InstallPost, UnwindClear, CommitByHand, CommitByUnit, CommitLoad,
         CommitHealth, CommitFail, CommitClear, RollbackLoad, RollbackClear, SwitchLoad,
         MarkGoodStart, MarkGoodClear, VerifyLoad, VerifyFail, Starts, WriteSlot, Rewrite, BootCall,
         FaultAt, PlatformVerdict, CommitVerify, VerifierLoads, VerifierChecks, VerifyCheck, Done,
         Goto, EngineTypeOK, Known, TypeOK
    <3> QED  BY <1>1, <1>2, <1>3, <3>1, <3>2 DEF Settling
  <2>2. CASE pc[p] \in FinalPcs
    BY <1>2, <2>2, StepKeepsPoints DEF Settling, FinalPcs
  <2> QED  BY <1>1, <1>4, <2>1, <2>2, CommitsFrom
<1>5. ASSUME state'.phase = "swapped", running = state'.target, pc'[p] # "r_clear"
      PROVE  Points(s)'
  <2>1. pc[p] # "i_mark" /\ pc[p] # "u_swap"
    <3>1. running # Other(running) /\ Aims(p) /\ Undisturbed(p)
      BY <1>1, OtherTwice DEF Known, Trusted, OneUpdate
    <3>2. pc[p] = "i_mark" => state'.target = Other(running)
      BY <1>5, <3>1, SwappedFrom DEF Known, Aims, InstallPcs
    <3>3. pc[p] = "u_swap" => state'.target = Other(running)
      BY <1>5, <3>1, SwappedFrom DEF Known, Aims, InstallPcs, Undisturbed
    <3> QED  BY <1>5, <3>1, <3>2, <3>3
  <2>2. state' = state /\ pc[p] \notin {"i_swap", "s_swap", "u_swap"}
    BY <1>5, <2>1, SwappedFrom DEF Known
  <2>3. pc[p] # "r_clear"
    <3>1. ~ClearFails
      BY DEF ClearFails
    <3>2. ~ClearFile
      BY <1>5 DEF ClearFile, NoRec
    <3> QED  BY <1>1, <3>1, <3>2, OwesFrom
  <2>4. Points(s)
    BY <1>1, <1>2, <1>5, <2>2, <2>3 DEF Settling
  <2>5. CASE pc[p] = "r_swap"
    <3>1. CallFails(p)
      BY <1>1, <1>5, <2>5, SwapsTo
    <3>2. UNCHANGED tegraVars
      BY <2>5, <3>1 DEF CallFails, Writes
    <3> QED  BY <1>3, <2>4, <3>2
  <2>6. CASE pc[p] # "r_swap"
    BY <2>2, <2>4, <2>6, StepKeepsPoints
  <2> QED  BY <2>5, <2>6
<1> QED  BY <1>1, <1>2, <1>4, <1>5 DEF Settling, Points

\* What commit has finalized is what boots next: for one command line that is not
\* killed, a platform that answers, renames and removals that last, and whatever else
\* fails or loses power (commit.go:101-105).
THEOREM CommittedBootsNext ==
  ASSUME OneAtATime, Sober, Faults \cap {"clear", "kill"} = {}
  PROVE  Spec => CommitSticks
<1>1. Init => Settling
  BY DEF Init, FileInit, EngineInit, Settling, FinalPcs, NoRec
<1>2. Known /\ Sourced /\ Settling /\ [Next]_vars => Settling'
  <2>1. CASE UNCHANGED vars
    BY <2>1 DEF vars, tegraVars, fwVars, capVars, Settling, Points, Wanted
  <2>2. CASE GoDown
    BY <2>2 DEF GoDown, Settling, FinalPcs
  <2>3. \A p \in Procs : ~Kill(p)
    BY DEF Kill
  <2>4. ASSUME Boot, Known, Sourced
        PROVE  Settling'
    BY <2>4, BootLands DEF Boot, ComeUp, board, Known, DownIsIdle, Settling, FinalPcs, Points
  <2> QED
    BY <2>1, <2>2, <2>3, <2>4, StepSettling DEF Next, Reboot, PowerCut, PowerCutInCall, Watchdog
<1>3. ASSUME Known, Settling, [Next]_vars, NEW p \in Procs, Leaves(p, "c_clear")
      PROVE  NextBoots' = {running} \/ Spent(running)
  <2>1. running \in Slots /\ Points(running)
    BY <1>3 DEF Leaves, Settling, FinalPcs, Known, DownIsIdle, TypeOK, EngineTypeOK
  <2> QED  BY <1>3, <2>1, PointsThere, EndKeepsFirmware DEF Leaves, Known
<1>4. Known /\ Settling /\ [Next]_vars =>
        \A p \in Procs : Leaves(p, "c_clear") /\ state' = NoRec
          => NextBoots' = {running} \/ Spent(running)
  BY <1>3
<1> QED  BY <1>1, <1>2, <1>4, SourcedAlways, PTL DEF Spec, CommitSticks
===============================================================================
