--------------------------- MODULE RecoverableProofs ---------------------------
(***************************************************************************)
(* The board never loses its last bootable system: for every boot limit,   *)
(* every set of verbs and units, every number of command lines and every   *)
(* failure that a verb notices, on a file system that loses no rename.     *)
(* Hence the board keeps the promise of ABDevice.                          *)
(***************************************************************************)
EXTENDS TrialUpdateProofs

\* What the theorem asks of the caller, the file system and the platform.  When
\* commit cannot remove its record, another verb that runs meanwhile may act on it.
Prudent ==
    /\ InstallsAlone
    /\ LazyRename = FALSE
    /\ "reboot_first" \in Promises
    /\ NoUnseenFailure
    /\ OneAtATime \/ "clear" \notin Faults

\* The state the induction carries.
Sound == TypeOK /\ DownIsIdle /\ TrialBacked /\ RecoverableInv

LEMMA PinnedFields ==
  \A s : /\ Pinned(s).slot = s /\ Pinned(s).armed = FALSE /\ Pinned(s).count = 0
         /\ FallbackOf(Pinned(s)) = s
  BY DEF Pinned, FallbackOf

LEMMA TrialFields ==
  \A s : /\ Trial(s).slot = s /\ Trial(s).armed = TRUE
         /\ FallbackOf(Trial(s)) = Other(s)
  BY DEF Trial, FallbackOf

\* A disarmed environment pins its slot.
LEMMA DisarmedPins ==
  ASSUME EnvTypeOK, ~env.armed, env.count = 0
  PROVE  env = Pinned(env.slot)
  BY DEF EnvTypeOK, Envs, Pinned

\* A process that is at rest counts on nothing.
LEMMA RestsEasy ==
  ASSUME NEW p \in Procs, pc'[p] = "idle"
  PROVE  CountsOn(p)' /\ Shares(p)'
  BY DEF CountsOn, Shares, BeforeSave, Naming, Holding, InstallPcs, CommitPcs, VerifyPcs

\* Whatever call is made, whole or cut off after its write, the slot the board
\* falls back to boots, and a trial is of the slot that the record names.
LEMMA WriteIsSafe ==
  ASSUME Prudent, Sound, NEW p \in Procs, running # Off, CallWrites(p)
  PROVE  /\ content[FallbackOf(env')] = "good"
         /\ env'.armed => state.target = env'.slot
         /\ ~env'.armed => env'.count = 0
<1>1. /\ bootMounted
      /\ running \in Slots /\ rec[p].target \in Slots /\ env.slot \in Slots
  BY PhaseOfRecord DEF Sound, TrialBacked, TypeOK, EngineTypeOK, EnvTypeOK, Envs
<1>2. CountsOn(p) /\ Shares(p) /\ BoardSafe
  BY DEF Sound, RecoverableInv
<1>3. CASE pc[p] \in {"i_prep", "s_prep"}
  <2>1. env' = Pinned(env.slot)
    BY <1>1, <1>3, MountedWrite DEF CallWrites, PrepareTarget
  <2>2. ~env.armed
    BY <1>2, <1>3, PinnedFields DEF CountsOn, Sound, TrialBacked
  <2> QED  BY <1>2, <2>1, <2>2, PinnedFields DEF BoardSafe, Recoverable, Fallback, FallbackOf
<1>4. CASE pc[p] = "i_swap"
  <2>1. env' = Trial(rec[p].target)
    BY <1>1, <1>4, MountedWrite DEF CallWrites, SwapSlot
  <2> QED
    BY <1>1, <1>2, <1>4, <2>1, TrialFields, OtherTwice DEF CountsOn, Naming, BoardSafe, InstallPcs
<1>5. CASE pc[p] = "r_swap"
  <2>1. env' = Pinned(Other(rec[p].target))
    BY <1>1, <1>5, MountedWrite DEF CallWrites, SwapSlot
  <2> QED  BY <1>2, <1>5, <2>1, PinnedFields DEF Shares, Holding
<1>6. CASE pc[p] = "s_swap"
  <2>1. env' = Pinned(Other(running))
    BY <1>1, <1>6, MountedWrite DEF CallWrites, SwapSlot
  <2> QED  BY <1>2, <1>6, <2>1, PinnedFields DEF CountsOn
<1>7. CASE pc[p] \in {"u_swap", "c_good", "m_good"}
  <2>1. env' = Pinned(running)
    BY <1>1, <1>7, MountedWrite DEF CallWrites, SwapSlot, MarkGood
  <2> QED  BY <1>2, <2>1, PinnedFields DEF BoardSafe
<1> QED  BY <1>3, <1>4, <1>5, <1>6, <1>7 DEF CallWrites

---------------------------------------------------------------------------
(* The verbs that may run at the same time *)

\* What a step of a verb that need not run alone may do to what the others see.
Effect(p) ==
    /\ pc[p] \notin AlonePcs /\ pc'[p] \notin AlonePcs
    /\ UNCHANGED <<running, content>>
    /\ disk' = state'
    /\ \/ state' \in {state, NoRec}
       \/ pc[p] \in Holding /\ state'.target = rec[p].target
    /\ pc'[p] \in Holding =>
          \/ pc[p] \in Holding /\ rec'[p] = rec[p]
          \/ state # NoRec /\ state' = state /\ rec'[p] = state
    /\ \/ env' = env
       \/ env' = Pinned(running)
       \/ pc[p] = "r_swap" /\ env' = Pinned(Other(rec[p].target))
    /\ pc'[p] = "r_clear" => pc[p] = "r_swap" /\ env' = Pinned(Other(rec[p].target))
    /\ pc'[p] = "c_clear" => env' = Pinned(running)

\* Why, after that step, the board still stays where it is once the update ends:
\* the slot is pinned, a reboot is owed, or nothing has changed.
Settles(p) ==
    \/ env' = Pinned(running)
    \/ rebootDue'
    \/ pc'[p] = "r_clear" /\ rec'[p].target = running
    \/ state' # NoRec /\ pc'[p] = "idle" /\ OneAtATime
    \/ /\ env' = env /\ rebootDue' = rebootDue
       /\ pc[p] # "r_clear" /\ pc'[p] \notin {"c_clear", "m_clear"}
       /\ state' = NoRec => state = NoRec \/ pc[p] \in {"c_clear", "m_clear"}

\* Such a step disturbs nobody: not itself, not the others, not the board.
LEMMA EffectShares ==
  ASSUME Sound, NEW p \in Procs, Effect(p),
         \A q \in Procs : q # p => pc'[q] = pc[q] /\ rec'[q] = rec[q],
         NEW q \in Procs
  PROVE  Shares(q)'
<1>1. Shares(p) /\ Shares(q) /\ BoardSafe
  BY DEF Sound, RecoverableInv
<1>2. \A r \in Procs : pc'[r] \in Holding =>
         \/ pc[r] \in Holding /\ rec'[r] = rec[r]
         \/ r = p /\ state # NoRec /\ state' = state /\ rec'[r] = state
  BY DEF Effect
<1>3. \A r \in Procs : Shares(r)
  BY DEF Sound, RecoverableInv
<1>4. ASSUME pc'[q] \in Holding
      PROVE  /\ rec'[q] # NoRec /\ content'[Other(rec'[q].target)] = "good"
             /\ state' # NoRec => state'.target = rec'[q].target
             /\ \A r \in Procs : pc'[r] \in Holding => rec'[r].target = rec'[q].target
  <2>1. CASE pc[q] \in Holding /\ rec'[q] = rec[q]
    <3>1. state' # NoRec => state'.target = rec[q].target
      BY <1>1, <2>1 DEF Effect, Shares
    <3>2. \A r \in Procs : pc'[r] \in Holding => rec'[r].target = rec[q].target
      BY <1>1, <1>2, <2>1 DEF Shares
    <3> QED  BY <1>1, <2>1, <3>1, <3>2 DEF Effect, Shares
  <2>2. CASE q = p /\ state # NoRec /\ state' = state /\ rec'[q] = state
    <3>1. \A r \in Procs : pc'[r] \in Holding => rec'[r].target = state.target
      BY <1>2, <1>3, <2>2 DEF Shares
    <3> QED  BY <1>1, <2>2, <3>1 DEF Effect, BoardSafe
  <2> QED  BY <1>2, <1>4, <2>1, <2>2
<1>5. pc'[q] = "r_clear" => env' \in {Pinned(running'), Pinned(Other(rec'[q].target))}
  <2>1. CASE q = p
    <3>1. pc'[p] = "r_clear" => pc'[p] \in Holding /\ pc[p] = "r_swap"
      BY DEF Effect, Holding
    <3>2. pc'[p] = "r_clear" => rec'[p].target = rec[p].target
      BY <1>1, <3>1 DEF Effect, Shares, Holding
    <3> QED  BY <2>1, <3>2 DEF Effect
  <2>2. CASE q # p /\ pc[q] = "r_clear"
    <3>1. pc[p] = "r_swap" => rec[p].target = rec[q].target
      BY <1>1, <2>2 DEF Shares, Holding
    <3> QED  BY <1>1, <2>2, <3>1 DEF Effect, Shares
  <2> QED  BY <2>1, <2>2
<1>6. pc'[q] = "c_clear" /\ Procs = {q} => env' = Pinned(running')
  BY DEF Effect
<1> QED  BY <1>4, <1>5, <1>6 DEF Shares

LEMMA EffectSafe ==
  ASSUME Sound, TrialBacked', NEW p \in Procs, Effect(p), Settles(p), running # Off,
         \A q \in Procs : q # p =>
            pc[q] \notin AlonePcs /\ pc'[q] = pc[q] /\ rec'[q] = rec[q]
  PROVE  RecoverableInv'
<1>1. Shares(p) /\ BoardSafe /\ TrialBacked
  BY DEF Sound, RecoverableInv
<1>2. ASSUME NEW q \in Procs
      PROVE  CountsOn(q)' /\ Shares(q)'
  <2>1. pc'[q] \notin AlonePcs
    BY DEF Effect
  <2> QED
    BY <2>1, EffectShares
    DEF CountsOn, BeforeSave, Naming, AlonePcs, InstallPcs
<1>3. state' # NoRec =>
        \/ state' = state
        \/ /\ content[Other(state'.target)] = "good"
           /\ state # NoRec => state'.target = state.target
  BY <1>1 DEF Effect, Shares
<1>4. state' # NoRec => content'[Other(state'.target)] = "good"
  BY <1>1, <1>3 DEF Effect, BoardSafe
<1>5. /\ Recoverable'
      /\ env'.armed => state'.target = env'.slot
      /\ ~env'.armed => env'.count = 0
  <2>1. CASE env' = env
    BY <1>1, <1>3, <2>1 DEF Effect, BoardSafe, Recoverable, Fallback, FallbackOf, TrialBacked
  <2>2. CASE env' = Pinned(running)
    BY <1>1, <2>2, PinnedFields DEF Effect, BoardSafe, Recoverable, Fallback
  <2>3. CASE pc[p] = "r_swap" /\ env' = Pinned(Other(rec[p].target))
    BY <1>1, <2>3, PinnedFields DEF Effect, Shares, Holding, Recoverable, Fallback
  <2> QED  BY <2>1, <2>2, <2>3 DEF Effect
<1>6. Ending' => env' = Pinned(running') \/ Owed'
  <2>1. running' = running
    BY DEF Effect
  <2>2. CASE \/ env' = Pinned(running) \/ rebootDue'
             \/ pc'[p] = "r_clear" /\ rec'[p].target = running
    BY <2>1, <2>2 DEF Owed
  <2>3. CASE state' # NoRec /\ pc'[p] = "idle" /\ OneAtATime
    BY <2>3 DEF Ending, OneAtATime
  <2>4. CASE /\ env' = env /\ rebootDue' = rebootDue
             /\ pc[p] # "r_clear" /\ pc'[p] \notin {"c_clear", "m_clear"}
             /\ state' = NoRec => state = NoRec \/ pc[p] \in {"c_clear", "m_clear"}
    <3>1. Ending' => Ending
      BY <2>4 DEF Ending
    <3>2. Owed => Owed'
      BY <2>1, <2>4 DEF Owed
    <3> QED  BY <1>1, <2>1, <2>4, <3>1, <3>2 DEF BoardSafe
  <2> QED  BY <2>2, <2>3, <2>4 DEF Settles
<1>7. BoardSafe'
  BY <1>1, <1>4, <1>5, <1>6 DEF Effect, BoardSafe
<1> QED  BY <1>2, <1>7 DEF RecoverableInv

\* The engine's own steps of those verbs.
LEMMA EndingStepSafe ==
  ASSUME Prudent, Sound, TrialBacked', NEW p \in Procs, EngineStep(p), UNCHANGED envVars,
         pc[p] \notin AlonePcs, ~InstallStart(p), ~SwitchLoad(p)
  PROVE  RecoverableInv'
<1> USE DEF envVars, board, Goto, Done, Hold, KeepFile, SaveFile, ClearFile, ClearFails,
            AlonePcs, InstallPcs, Holding, CommitPcs, VerifyPcs
<1>1. /\ pc \in [Procs -> Pcs] /\ rec \in [Procs -> Records] /\ state \in Records
      /\ running # Off /\ running \in Slots /\ disk = state
      /\ LazyRename = FALSE /\ (OneAtATime \/ "clear" \notin Faults)
  BY WorksOnlyUp DEF Sound, TypeOK, EngineTypeOK, FileTypeOK, Step, Prudent, RecoverableInv, BoardSafe
<1>2. \A ph \in Phases : /\ [rec[p] EXCEPT !.phase = ph] # NoRec
                         /\ [rec[p] EXCEPT !.phase = ph].target = rec[p].target
  BY <1>1, WithPhase DEF NoRec, Records
<1>3. SUFFICES Effect(p) /\ Settles(p)
  BY <1>1, OthersAway, EffectSafe DEF Sound, Prudent, Step
<1> USE DEF Effect, Settles
<1>a. CASE CommitByHand(p) \/ CommitByUnit(p)
  BY <1>1, <1>a DEF CommitByHand, CommitByUnit, CommitLoad, Starts, NoRec
<1>b. CASE CommitHealth(p)
  BY <1>1, <1>b DEF CommitHealth
<1>c. CASE CommitFail(p) \/ VerifyFail(p)
  BY <1>1, <1>2, <1>c DEF CommitFail, VerifyFail, Phases
<1>d. CASE CommitClear(p) \/ MarkGoodClear(p)
  BY <1>1, <1>d DEF CommitClear, MarkGoodClear
<1>e. CASE RollbackLoad(p)
  BY <1>1, <1>e DEF RollbackLoad, Starts
<1>f. CASE RollbackClear(p)
  <2>1. CASE ClearFile /\ rebootDue' = (running = rec[p].target)
    <3>1. env \in {Pinned(running), Pinned(Other(rec[p].target))} /\ rec[p].target \in Slots
      BY <1>1, <1>f, PhaseOfRecord DEF RollbackClear, Sound, RecoverableInv, Shares
    <3>2. running # rec[p].target => Other(rec[p].target) = running
      BY <1>1, <3>1 DEF Slots, Other
    <3> QED  BY <1>1, <1>f, <2>1, <3>1, <3>2 DEF RollbackClear
  <2>2. CASE ClearFails
    BY <1>1, <1>f, <2>2 DEF RollbackClear
  <2> QED  BY <1>f, <2>1, <2>2 DEF RollbackClear
<1>g. CASE MarkGoodStart(p)
  BY <1>1, <1>g DEF MarkGoodStart, Starts
<1>h. CASE VerifyLoad(p)
  BY <1>1, <1>h DEF VerifyLoad, Starts, NoRec
<1>i. ~(\/ InstallWrite(p) \/ InstallVerify(p) \/ InstallSave(p) \/ InstallMark(p)
        \/ InstallPost(p) \/ UnwindClear(p))
  BY DEF InstallWrite, InstallVerify, InstallSave, InstallMark, InstallPost, UnwindClear
<1> QED
  BY <1>a, <1>b, <1>c, <1>d, <1>e, <1>f, <1>g, <1>h, <1>i DEF EngineStep

\* Their calls to the connector.
LEMMA EndingCallSafe ==
  ASSUME Prudent, Sound, TrialBacked', NEW p \in Procs,
         EnvCall(p) \/ NoPlatformUpdate(p) \/ VerifyProbe(p), pc[p] \notin AlonePcs
  PROVE  RecoverableInv'
<1> USE DEF envVars, board, Goto, Done, AlonePcs, InstallPcs, Holding, CommitPcs, VerifyPcs
<1>1. /\ pc \in [Procs -> Pcs] /\ rec \in [Procs -> Records] /\ disk = state
      /\ running # Off /\ running \in Slots /\ bootMounted
      /\ "markgood" \notin Faults
  BY WorksOnlyUp
  DEF Sound, TypeOK, EngineTypeOK, Step, Prudent, NoUnseenFailure, RecoverableInv, BoardSafe,
      TrialBacked
<1>2. SUFFICES Effect(p) /\ Settles(p)
  BY <1>1, OthersAway, EffectSafe DEF Sound, Prudent, Step
<1> USE DEF Effect, Settles
<1>3. CASE EnvCall(p)
  <2>1. PICK ok \in BOOLEAN :
          /\ \/ CommitGood(p) \/ RollbackSwap(p, ok) \/ MarkGoodCall(p, ok)
          /\ IF ok THEN CallWrites(p) /\ disk' = state ELSE CallFails(p)
    BY <1>3
    DEF EnvCall, InstallPrepare, InstallSwap, UnwindSwap, SwitchPrepare, SwitchSwap
  <2>2. CASE ok /\ (CommitGood(p) \/ MarkGoodCall(p, ok))
    <3>1. env' = Pinned(running)
      BY <1>1, <2>1, <2>2, MountedWrite DEF CallWrites, MarkGood, CommitGood, MarkGoodCall
    <3> QED  BY <1>1, <2>1, <2>2, <3>1 DEF CommitGood, MarkGoodCall
  <2>3. CASE ok /\ RollbackSwap(p, ok)
    <3>1. env' = Pinned(Other(rec[p].target)) /\ rec[p].target \in Slots
      BY <1>1, <2>1, <2>3, MountedWrite, PhaseOfRecord DEF CallWrites, SwapSlot, RollbackSwap
    <3>2. running # rec[p].target => Other(rec[p].target) = running
      BY <1>1, <3>1 DEF Slots, Other
    <3> QED  BY <1>1, <2>1, <2>3, <3>1, <3>2 DEF RollbackSwap
  <2>4. CASE ~ok
    <3>1. pc[p] = "r_swap" /\ env' = env /\ disk' = disk
      BY <1>1, <2>1, <2>4 DEF CallFails, FaultAt, EnvWritable, CommitGood, MarkGoodCall, RollbackSwap
    <3> QED  BY <1>1, <2>1, <2>4, <3>1 DEF CommitGood, MarkGoodCall, RollbackSwap
  <2> QED  BY <2>1, <2>2, <2>3, <2>4
<1>4. CASE NoPlatformUpdate(p) \/ VerifyProbe(p)
  BY <1>1, <1>4
  DEF NoPlatformUpdate, VerifyProbe, UnwindAbort, RollbackAbort, CommitVerify, VerifyCheck
<1> QED  BY <1>3, <1>4

---------------------------------------------------------------------------
(* Install and switch, which run alone *)

\* Everybody else is at rest before and after a step of theirs.
LEMMA AloneSafe ==
  ASSUME NEW p \in Procs, BoardSafe', CountsOn(p)', pc'[p] \notin Holding,
         \A q \in Procs : q # p => pc'[q] = "idle"
  PROVE  RecoverableInv'
<1>1. Shares(p)'
  BY DEF Shares, Holding, CommitPcs
<1> QED  BY <1>1, RestsEasy DEF RecoverableInv

\* The board stays where it is while they work, but for a trial armed or a reboot owed.
LEMMA AloneSettles ==
  ASSUME NEW p \in Procs, pc'[p] \notin {"c_clear", "m_clear"},
         \A q \in Procs : q # p => pc'[q] = "idle",
         running' = running,
         \/ state' # NoRec \/ rebootDue' \/ env' = Pinned(running)
  PROVE  running' # Off /\ Ending' => env' = Pinned(running') \/ Owed'
  BY DEF Ending, Owed

\* With nobody ending an update, a settled board is pinned.
LEMMA SettledPinned ==
  ASSUME Sound, running # Off, state = NoRec, Idle
  PROVE  env = Pinned(running) \/ rebootDue
  BY DEF Sound, RecoverableInv, BoardSafe, Ending, Owed, Idle

LEMMA AloneStepSafe ==
  ASSUME Prudent, Sound, NEW p \in Procs, EngineStep(p), UNCHANGED envVars,
         pc[p] \in AlonePcs \/ InstallStart(p) \/ SwitchLoad(p)
  PROVE  RecoverableInv'
<1> USE DEF envVars, board, Goto, Done, Hold, KeepFile, SaveFile, ClearFile, ClearFails
<1>1. /\ pc \in [Procs -> Pcs] /\ rec \in [Procs -> Records]
      /\ content \in [Slots -> Images] /\ state \in Records
  BY DEF Sound, TypeOK, EngineTypeOK, FileTypeOK
<1>2. running # Off /\ running \in Slots
  BY WorksOnlyUp DEF Sound, TypeOK, EngineTypeOK, Step
<1>3. /\ Other(running) \in Slots /\ Other(running) # running
      /\ Other(Other(running)) = running
  BY <1>2, OtherType, OtherTwice
<1>4. /\ BoardSafe /\ CountsOn(p)
      /\ LazyRename = FALSE /\ "reboot_first" \in Promises
  BY DEF Sound, RecoverableInv, Prudent
<1>5. \A q \in Procs : q # p => pc[q] = "idle" /\ pc'[q] = "idle"
  <2>1. \A q \in Procs : q # p => pc'[q] = pc[q]
    BY OthersAway DEF Sound, Prudent, Step
  <2>2. \A q \in Procs : q # p => pc[q] = "idle"
    BY StartsAlone DEF Sound, TrialBacked, Prudent, InstallStart, SwitchLoad
  <2> QED  BY <2>1, <2>2
<1>6. env' = env /\ Fallback' = Fallback /\ running' = running
  BY StepsStayUp DEF Fallback, FallbackOf
<1>7. \A ph \in Phases : /\ [rec[p] EXCEPT !.phase = ph] # NoRec
                         /\ [rec[p] EXCEPT !.phase = ph].target = rec[p].target
  BY <1>1, WithPhase DEF NoRec, Records
<1>8. SUFFICES BoardSafe' /\ CountsOn(p)' /\ pc'[p] \notin Holding
  BY <1>5, AloneSafe
<1>9. ASSUME /\ pc'[p] \notin {"c_clear", "m_clear"}
             /\ state' # NoRec \/ rebootDue' \/ env = Pinned(running)
      PROVE  running' # Off /\ Ending' => env' = Pinned(running') \/ Owed'
  BY <1>5, <1>6, <1>9, AloneSettles
<1> USE DEF BoardSafe, Recoverable, CountsOn, BeforeSave, Naming, Holding, InstallPcs,
            CommitPcs, VerifyPcs
<1>a. CASE InstallStart(p)
  <2>1. env = Pinned(running)
    BY <1>2, <1>4, <1>5, <1>a, SettledPinned DEF InstallStart, Starts, Idle
  <2> QED
    BY <1>1, <1>2, <1>3, <1>4, <1>6, <1>9, <1>a, <2>1 DEF InstallStart, NoRec
<1>b. CASE InstallWrite(p) \/ InstallVerify(p)
  <2>1. Fallback = running /\ rec[p].target = Other(running) /\ env = Pinned(running)
    BY <1>b, <1>4, PinnedFields DEF InstallWrite, InstallVerify, Fallback
  <2>2. content'[running] = content[running]
    BY <1>b, <1>1, <1>2, <1>3, <2>1 DEF InstallWrite, InstallVerify
  <2> QED
    BY <1>b, <1>1, <1>2, <1>3, <1>4, <1>6, <1>9, <2>1, <2>2 DEF InstallWrite, InstallVerify
<1>c. CASE InstallSave(p)
  <2>1. /\ env = Pinned(running) /\ state = NoRec /\ content' = content
        /\ rec[p] # NoRec /\ rec[p].target = Other(running)
    BY <1>4, <1>c DEF InstallSave
  <2> QED
    BY <1>c, <1>1, <1>2, <1>3, <1>4, <1>6, <1>9, <2>1, PinnedFields DEF InstallSave, SaveThen
<1>d. CASE InstallMark(p)
  <2>1. /\ state # NoRec /\ state.target = rec[p].target
        /\ rec[p].target = Other(running) /\ content' = content
    BY <1>d, <1>4 DEF InstallMark
  <2>2. CASE SaveFile([rec[p] EXCEPT !.phase = "swapped"])
             /\ Hold(p, [rec[p] EXCEPT !.phase = "swapped"]) /\ Goto(p, "i_post")
    <3>1. /\ state' # NoRec /\ state'.target = rec[p].target /\ disk' = state'
          /\ rec'[p] = state' /\ pc'[p] = "i_post"
      BY <1>1, <1>4, <1>7, <2>2 DEF Phases
    <3> QED  BY <1>2, <1>3, <1>4, <1>6, <1>9, <2>1, <3>1
  <2>3. CASE KeepFile /\ Done(p)
    BY <1>1, <1>2, <1>4, <1>6, <1>9, <2>1, <2>3
  <2> QED  BY <1>d, <2>2, <2>3 DEF InstallMark, SaveThen
<1>e. CASE InstallPost(p)
  BY <1>1, <1>2, <1>4, <1>6, <1>9, <1>e DEF InstallPost
<1>f. CASE UnwindClear(p)
  BY <1>1, <1>2, <1>4, <1>6, <1>9, <1>f, PinnedFields DEF UnwindClear
<1>g. CASE SwitchLoad(p)
  <2>1. env = Pinned(running) \/ rebootDue
    BY <1>2, <1>5, <1>g, SettledPinned DEF SwitchLoad, Starts, Idle
  <2> QED
    BY <1>1, <1>2, <1>4, <1>6, <1>9, <1>g, <2>1 DEF SwitchLoad
<1> QED
  BY <1>a, <1>b, <1>c, <1>d, <1>e, <1>f, <1>g
  DEF EngineStep, CommitByHand, CommitByUnit, CommitLoad, CommitHealth, CommitFail, CommitClear,
      RollbackLoad, RollbackClear, MarkGoodStart, MarkGoodClear, VerifyLoad, VerifyFail, Starts,
      AlonePcs

LEMMA AloneCallSafe ==
  ASSUME Prudent, Sound, NEW p \in Procs,
         EnvCall(p) \/ NoPlatformUpdate(p) \/ VerifyProbe(p), pc[p] \in AlonePcs
  PROVE  RecoverableInv'
<1> USE DEF envVars, board, Goto, Done
<1>1. /\ pc \in [Procs -> Pcs] /\ rec \in [Procs -> Records] /\ bootMounted
      /\ "unwind" \notin Faults
      /\ BoardSafe /\ CountsOn(p)
  BY DEF Sound, TypeOK, EngineTypeOK, TrialBacked, Prudent, NoUnseenFailure, RecoverableInv
<1>2. running # Off /\ running \in Slots
  BY WorksOnlyUp DEF Sound, TypeOK, EngineTypeOK, Step
<1>3. \A q \in Procs : q # p => pc[q] = "idle" /\ pc'[q] = "idle"
  BY OthersAway DEF Sound, TrialBacked, Prudent, Step
<1>4. SUFFICES BoardSafe' /\ CountsOn(p)' /\ pc'[p] \notin Holding
  BY <1>3, AloneSafe
<1>5. ASSUME /\ pc'[p] \notin {"c_clear", "m_clear"} /\ running' = running
             /\ state' # NoRec \/ rebootDue' \/ env' = Pinned(running)
      PROVE  running' # Off /\ Ending' => env' = Pinned(running') \/ Owed'
  BY <1>3, <1>5, AloneSettles
<1>6. state = NoRec => env = Pinned(running) \/ rebootDue
  <2>1. ~\E q \in Procs : pc[q] = "r_clear"
    BY <1>3 DEF AlonePcs, InstallPcs
  <2> QED  BY <1>1, <1>2, <2>1 DEF BoardSafe, Ending, Owed
<1>7. \/ UnwindAbort(p) /\ UNCHANGED <<env, disk>>
      \/ \E ok \in BOOLEAN :
            /\ \/ InstallPrepare(p, ok) \/ InstallSwap(p, ok) \/ UnwindSwap(p)
               \/ SwitchPrepare(p, ok)  \/ SwitchSwap(p, ok)
            /\ IF ok THEN CallWrites(p) /\ disk' = state
                     ELSE CallFails(p) /\ pc[p] # "u_swap"
  <2>1. CASE EnvCall(p)
    <3>1. PICK ok \in BOOLEAN :
            /\ \/ InstallPrepare(p, ok) \/ InstallSwap(p, ok) \/ UnwindSwap(p)
               \/ SwitchPrepare(p, ok)  \/ SwitchSwap(p, ok)
            /\ IF ok THEN CallWrites(p) /\ disk' = state ELSE CallFails(p)
      BY <2>1 DEF EnvCall, CommitGood, RollbackSwap, MarkGoodCall, AlonePcs, InstallPcs
    <3>2. CallFails(p) => pc[p] # "u_swap"
      BY <1>1 DEF CallFails, FaultAt, EnvWritable
    <3> QED  BY <3>1, <3>2
  <2>2. CASE NoPlatformUpdate(p) \/ VerifyProbe(p)
    BY <2>2
    DEF NoPlatformUpdate, VerifyProbe, RollbackAbort, CommitVerify, VerifyCheck, AlonePcs, InstallPcs
  <2> QED  BY <2>1, <2>2
<1> USE DEF Holding, CommitPcs, VerifyPcs, BeforeSave, Naming, InstallPcs
\* A call without an effect.
<1>a. CASE UnwindAbort(p) /\ UNCHANGED <<env, disk>>
  <2>1. Recoverable'
    BY <1>1, <1>a DEF UnwindAbort, BoardSafe, Recoverable, Fallback, FallbackOf
  <2> QED
    BY <1>1, <1>2, <1>5, <1>a, <2>1 DEF UnwindAbort, BoardSafe, CountsOn
<1>b. ASSUME NEW ok \in BOOLEAN,
             \/ InstallPrepare(p, ok) \/ InstallSwap(p, ok) \/ UnwindSwap(p)
             \/ SwitchPrepare(p, ok)  \/ SwitchSwap(p, ok)
      PROVE  /\ UNCHANGED <<state, running, content>>
             /\ \/ pc[p] \in {"i_prep", "i_swap", "u_swap", "s_prep"} /\ rebootDue' = rebootDue
                \/ pc[p] = "s_swap" /\ pc'[p] = "idle" /\ rebootDue' = (ok \/ rebootDue)
             /\ pc[p] = "u_swap" => pc'[p] = "u_clear" /\ rec' = rec
             /\ ok => \/ pc[p] = "i_prep" /\ pc'[p] = "i_swap" /\ rec' = rec
                      \/ pc[p] = "i_swap" /\ pc'[p] = "i_mark" /\ rec' = rec
                      \/ pc[p] = "s_prep" /\ pc'[p] = "s_swap" /\ rec' = rec
                      \/ pc[p] = "u_swap"
                      \/ pc[p] = "s_swap"
             /\ ~ok => pc'[p] = "idle" \/ pc[p] = "u_swap"
  BY <1>1, <1>b
  DEF InstallPrepare, InstallSwap, UnwindSwap, SwitchPrepare, SwitchSwap
\* It succeeded.
<1>c. ASSUME CallWrites(p), disk' = state,
             \/ InstallPrepare(p, TRUE) \/ InstallSwap(p, TRUE) \/ UnwindSwap(p)
             \/ SwitchPrepare(p, TRUE)  \/ SwitchSwap(p, TRUE)
      PROVE  BoardSafe' /\ CountsOn(p)' /\ pc'[p] \notin Holding
  <2>1. /\ UNCHANGED <<state, running, content>> /\ disk' = state'
        /\ pc[p] = "s_swap" => rebootDue'
        /\ pc[p] = "s_prep" => rebootDue' = rebootDue
    BY <1>b, <1>c
  <2>2. \/ pc[p] = "i_prep" /\ pc'[p] = "i_swap" /\ rec' = rec
        \/ pc[p] = "i_swap" /\ pc'[p] = "i_mark" /\ rec' = rec
        \/ pc[p] = "s_prep" /\ pc'[p] = "s_swap" /\ rec' = rec
        \/ pc[p] = "u_swap" /\ pc'[p] = "u_clear" /\ rec' = rec
        \/ pc[p] = "s_swap" /\ pc'[p] = "idle"
    BY <1>b, <1>c
  <2>3. /\ Recoverable'
        /\ env'.armed => state'.target = env'.slot
        /\ ~env'.armed => env'.count = 0
    BY <1>2, <1>c, <2>1, WriteIsSafe DEF Recoverable, Fallback, FallbackOf
  <2>4. ASSUME pc[p] \in {"i_prep", "s_prep"}
        PROVE  env' = env
    <3>1. ~env.armed
      BY <1>1, <2>4, PinnedFields DEF CountsOn, Sound, TrialBacked
    <3>2. env' = Pinned(env.slot)
      BY <1>1, <1>c, <2>4, MountedWrite DEF CallWrites, PrepareTarget
    <3> QED  BY <1>1, <3>1, <3>2, DisarmedPins DEF BoardSafe, Sound, TypeOK
  <2>5. pc[p] = "u_swap" => env' = Pinned(running)
    BY <1>1, MountedWrite, <1>c DEF CallWrites, SwapSlot
  <2>6. CountsOn(p)' /\ pc'[p] \notin Holding
    BY <1>1, <2>1, <2>2, <2>4, <2>5 DEF CountsOn
  <2>7. state' # NoRec \/ rebootDue' \/ env' = Pinned(running)
    BY <1>1, <1>6, <2>1, <2>2, <2>4 DEF CountsOn
  <2> QED  BY <1>1, <1>5, <2>1, <2>2, <2>3, <2>6, <2>7 DEF BoardSafe
\* It failed, seen by its caller, who returns.
<1>d. ASSUME CallFails(p), pc[p] # "u_swap",
             \/ InstallPrepare(p, FALSE) \/ InstallSwap(p, FALSE) \/ UnwindSwap(p)
             \/ SwitchPrepare(p, FALSE)  \/ SwitchSwap(p, FALSE)
      PROVE  BoardSafe' /\ CountsOn(p)' /\ pc'[p] \notin Holding
  <2>1. /\ UNCHANGED <<env, disk, state, running, content>> /\ pc'[p] = "idle"
        /\ rebootDue => rebootDue'
    BY <1>b, <1>d DEF CallFails
  <2>2. state' # NoRec \/ rebootDue' \/ env' = Pinned(running)
    BY <1>6, <2>1
  <2>3. Recoverable'
    BY <1>1, <2>1 DEF BoardSafe, Recoverable, Fallback, FallbackOf
  <2> QED  BY <1>1, <1>5, <2>1, <2>2, <2>3, RestsEasy DEF BoardSafe
<1> QED  BY <1>7, <1>a, <1>c, <1>d

---------------------------------------------------------------------------
(* Kills and power *)

LEMMA KillSafe ==
  ASSUME Prudent, Sound, NEW p \in Procs, Kill(p), TrialBacked'
  PROVE  RecoverableInv'
<1>1. /\ pc \in [Procs -> Pcs] /\ rec \in [Procs -> Records]
      /\ running # Off /\ BoardSafe /\ bootMounted
  BY WorksOnlyUp DEF Sound, TypeOK, EngineTypeOK, RecoverableInv, TrialBacked
<1>2. /\ pc'[p] = "idle" /\ pc[p] # "idle"
      /\ \A q \in Procs : q # p => pc'[q] = pc[q] /\ rec'[q] = rec[q]
      /\ UNCHANGED <<state, disk, content, running>> /\ rebootDue'
  BY <1>1 DEF Kill, Done, Goto
\* The others may be at work.
<1>3. CASE pc[p] \notin AlonePcs
  <2>1. \A q \in Procs : q # p => pc[q] \notin AlonePcs
    BY <1>2 DEF Sound, TrialBacked
  <2>2. \/ env' = env \/ env' = Pinned(running)
        \/ pc[p] = "r_swap" /\ env' = Pinned(Other(rec[p].target))
    BY <1>1, <1>3, MountedWrite
    DEF Kill, CallWrites, SwapSlot, MarkGood, envVars, AlonePcs, InstallPcs
  <2>3. Effect(p) /\ Settles(p)
    BY <1>1, <1>2, <1>3, <2>2
    DEF Effect, Settles, BoardSafe, AlonePcs, InstallPcs, Holding, CommitPcs, VerifyPcs
  <2> QED  BY <1>1, <1>2, <2>1, <2>3, EffectSafe
\* It ran alone.
<1>4. CASE pc[p] \in AlonePcs
  <2>1. \A q \in Procs : pc'[q] = "idle"
    BY <1>2, <1>4 DEF Sound, TrialBacked
  <2>2. /\ content[FallbackOf(env')] = "good"
        /\ env'.armed => state.target = env'.slot
        /\ ~env'.armed => env'.count = 0
    BY <1>1, WriteIsSafe DEF Kill, envVars, BoardSafe, Recoverable, Fallback
  <2>3. Recoverable' /\ Owed'
    BY <1>2, <2>2 DEF Recoverable, Fallback, FallbackOf, Owed
  <2>4. BoardSafe'
    BY <1>1, <1>2, <2>2, <2>3 DEF BoardSafe
  <2> QED  BY <2>1, <2>4, RestsEasy DEF RecoverableInv
<1> QED  BY <1>3, <1>4

\* The board goes down and comes up.
LEMMA PowerSafe ==
  ASSUME Prudent, Sound,
         \/ Boot \/ Reboot \/ PowerCut \/ Flush
         \/ \E p \in Procs : PowerCutInCall(p)
  PROVE  RecoverableInv'
<1>1. BoardSafe /\ EnvTypeOK /\ disk = state
  BY DEF Sound, RecoverableInv, BoardSafe, TypeOK
<1>2. (\A p \in Procs : pc'[p] = "idle") => \A p \in Procs : CountsOn(p)' /\ Shares(p)'
  BY RestsEasy
<1>3. CASE Boot
  <2>1. \A p \in Procs : pc[p] = "idle" /\ pc'[p] = "idle"
    BY <1>3 DEF Boot, ComeUp, board, Sound, DownIsIdle, Idle
  <2>2. UNCHANGED <<state, disk, content>>
    BY <1>3 DEF Boot, ComeUp, board, KeepFile
  <2>3. env' = [env EXCEPT !.count = Attempts] /\ env.slot \in Slots
    BY <1>1, <1>3 DEF Boot, CountAttempt, EnvTypeOK, Envs
  <2>4. env'.slot = env.slot /\ env'.armed = env.armed /\ env'.count = Attempts
    BY <1>1, <2>3 DEF EnvTypeOK, Envs
  <2>5. ~env.armed => Attempts = env.count /\ BootChoice = env.slot
    BY DEF Attempts, BootChoice
  <2>6. Recoverable'
    BY <1>1, <2>2, <2>4 DEF BoardSafe, Recoverable, Fallback, FallbackOf
  <2>7. ~env'.armed => env'.count = 0
    BY <1>1, <2>4, <2>5 DEF BoardSafe
  <2>8. running' # Off => running' = BootChoice /\ content[BootChoice] = "good"
    BY <1>3 DEF Boot, ComeUp, board
  <2>9. state = NoRec /\ running' # Off => env' = Pinned(running')
    <3>1. state = NoRec => ~env.armed
      BY DEF Sound, TrialBacked
    <3>2. ~env.armed => env' = env
      BY <1>1, <2>3, <2>5 DEF EnvTypeOK, Envs
    <3> QED  BY <1>1, <2>5, <2>8, <3>1, <3>2, DisarmedPins DEF BoardSafe
  <2>10. BoardSafe'
    BY <1>1, <2>1, <2>2, <2>4, <2>6, <2>7, <2>8, <2>9 DEF BoardSafe, Ending
  <2> QED  BY <1>2, <2>1, <2>10 DEF RecoverableInv
<1>4. CASE Reboot \/ PowerCut
  <2>1. /\ running' = Off /\ state' = state /\ disk' = disk
        /\ UNCHANGED <<env, content>>
        /\ \A p \in Procs : pc'[p] = "idle"
    BY <1>1, <1>4 DEF Reboot, PowerCut, GoDown, SyncFile, LoseFile, envVars
  <2>2. BoardSafe'
    BY <1>1, <2>1 DEF BoardSafe, Recoverable, Fallback, FallbackOf
  <2> QED  BY <1>2, <2>1, <2>2 DEF RecoverableInv
<1>5. CASE Flush
  BY <1>1, <1>5 DEF Flush
<1>6. ASSUME NEW p \in Procs, PowerCutInCall(p) PROVE RecoverableInv'
  <2>1. /\ running' = Off /\ state' = state /\ disk' = disk /\ content' = content
        /\ \A q \in Procs : pc'[q] = "idle"
    BY <1>1, <1>6 DEF PowerCutInCall, GoDown, LoseFile
  <2>2. running # Off
    BY <1>6, WorksOnlyUp DEF Sound
  <2>3. /\ content[FallbackOf(env')] = "good"
        /\ env'.armed => state.target = env'.slot
        /\ ~env'.armed => env'.count = 0
    BY <1>6, <2>2, WriteIsSafe DEF PowerCutInCall
  <2>4. Recoverable'
    BY <2>1, <2>3 DEF Recoverable, Fallback, FallbackOf
  <2>5. BoardSafe'
    BY <1>1, <2>1, <2>3, <2>4 DEF BoardSafe
  <2> QED  BY <1>2, <2>1, <2>5 DEF RecoverableInv
<1> QED  BY <1>3, <1>4, <1>5, <1>6

LEMMA SafeKept ==
  ASSUME Prudent, Sound, TrialBacked', [Next]_vars
  PROVE  RecoverableInv'
<1>1. CASE UNCHANGED vars
  BY <1>1
  DEF vars, Sound, RecoverableInv, BoardSafe, CountsOn, Shares, Recoverable, Fallback, FallbackOf,
      Ending, Owed
<1>2. ASSUME NEW p \in Procs, Step(p)
      PROVE  RecoverableInv'
  BY <1>2, EndingStepSafe, EndingCallSafe, AloneStepSafe, AloneCallSafe DEF Step
<1>3. CASE \/ \E p \in Procs : PowerCutInCall(p)
           \/ Boot \/ Reboot \/ PowerCut \/ Flush
  BY <1>3, PowerSafe
<1> QED  BY <1>1, <1>2, <1>3, KillSafe DEF Next

LEMMA InitSound == Init => Sound
<1> SUFFICES ASSUME Init PROVE Sound
  OBVIOUS
<1>1. TypeOK /\ DownIsIdle /\ TrialBacked
  BY InitTypes DEF Init, FileInit, EnvInit, EngineInit, TrialBacked, ClearPcs, AlonePcs, InstallPcs
<1>2. env = Pinned("A") /\ "A" \in Slots
  BY DEF Init, EnvInit, Pinned, Slots
<1>3. BoardSafe
  BY <1>2, PinnedFields DEF Init, FileInit, EngineInit, BoardSafe, Recoverable, Fallback
<1>4. \A p \in Procs : CountsOn(p) /\ Shares(p)
  BY DEF Init, EngineInit, CountsOn, Shares, BeforeSave, Naming, Holding, InstallPcs, CommitPcs,
         VerifyPcs
<1> QED  BY <1>1, <1>3, <1>4 DEF Sound, RecoverableInv

LEMMA SoundAlways ==
  ASSUME Prudent
  PROVE  Spec => []Sound
<1>1. InstallsAlone /\ NoUnseenFailure
  BY DEF Prudent
<1>2. Sound /\ [Next]_vars => Sound'
  BY <1>1, TypeKept, DownIsIdleKept, BackedKept, SafeKept DEF Sound
<1> QED  BY <1>2, InitSound, PTL DEF Spec

\* The slot the board falls back to always boots: through every interrupted install,
\* commit, rollback and switch, every lost power and every noticed failure.
THEOREM NeverStranded ==
  ASSUME Prudent
  PROVE  Spec => []Recoverable
<1>1. Sound => Recoverable
  BY DEF Sound, RecoverableInv, BoardSafe
<1> QED  BY <1>1, SoundAlways, PTL

\* With no update pending, nobody at work and no reboot owed, the next boot takes
\* the running slot, and not as a trial.
THEOREM SettledBoardStays ==
  ASSUME Prudent
  PROVE  Spec => []SettledStays
<1>1. Sound => SettledStays
  BY DEF Sound, RecoverableInv, BoardSafe, SettledStays, Ending, Owed, Idle
<1> QED  BY <1>1, SoundAlways, PTL

---------------------------------------------------------------------------
(* What commit and the unwind leave behind *)

\* While the unwind, or the only process, is about to remove the record nothing
\* writes the environment.
LEMMA ClearKeepsEnv ==
  ASSUME Prudent, Sound, [Next]_vars, running' # Off, NEW p \in Procs,
         pc[p] = "u_clear" \/ (pc[p] = "c_clear" /\ OneAtATime)
  PROVE  env' = env
<1>1. running # Off /\ ~CallWrites(p) /\ pc[p] \notin DOMAIN FaultAt
  BY DEF Sound, DownIsIdle, Idle, CallWrites, FaultAt
<1>2. ASSUME NEW q \in Procs, Step(q) \/ Kill(q)
      PROVE  q = p
  BY <1>2, OthersAway DEF Sound, Prudent, OneAtATime, AlonePcs, InstallPcs, Kill, TrialBacked
<1>3. ASSUME NEW q \in Procs, Step(q) \/ Kill(q)
      PROVE  env' = env
  BY <1>1, <1>2, <1>3 DEF Step, EnvCall, NoPlatformUpdate, VerifyProbe, Kill, envVars
<1>4. CASE Boot \/ Reboot \/ PowerCut \/ Flush
  BY <1>1, <1>4 DEF Boot, Reboot, PowerCut, GoDown, Flush, envVars
<1>5. ~\E q \in Procs : PowerCutInCall(q)
  BY DEF PowerCutInCall, GoDown
<1> QED  BY <1>3, <1>4, <1>5 DEF Next, vars

\* Once commit has removed the record the running slot is pinned, and the update is
\* not undone by a later boot: with one command line at a time.
THEOREM CommitIsFinal ==
  ASSUME Prudent, OneAtATime
  PROVE  Spec => CommitSticks
<1>1. ASSUME Sound, NEW p \in Procs, pc[p] = "c_clear"
      PROVE  env = Pinned(running)
  BY <1>1 DEF OneAtATime, Sound, RecoverableInv, Shares
<1>2. Sound /\ [Next]_vars =>
        \A p \in Procs : Leaves(p, "c_clear") /\ state' = NoRec => env' = Pinned(running)
  BY <1>1, ClearKeepsEnv DEF Leaves
<1> QED  BY <1>2, SoundAlways, PTL DEF CommitSticks, Spec

\* A failed post-install hook leaves the running slot pinned once the record is gone.
THEOREM UnwindIsClean ==
  ASSUME Prudent
  PROVE  Spec => UnwindClean
<1>1. ASSUME Sound, NEW p \in Procs, pc[p] = "u_clear"
      PROVE  env = Pinned(running)
  BY <1>1 DEF Sound, RecoverableInv, CountsOn
<1>2. Sound /\ [Next]_vars =>
        \A p \in Procs : Leaves(p, "u_clear") /\ state' = NoRec => env' = Pinned(running)
  BY <1>1, ClearKeepsEnv DEF Leaves
<1> QED  BY <1>2, SoundAlways, PTL DEF UnwindClean, Spec

---------------------------------------------------------------------------
(* Rollback, refusals and failed updates *)

\* The strengthening itself: what each verb counts on between two of its calls.
THEOREM VerbsRely ==
  ASSUME Prudent
  PROVE  Spec => []RecoverableInv
<1>1. Sound => RecoverableInv
  BY DEF Sound
<1> QED  BY <1>1, SoundAlways, PTL

\* A rollback that goes on to clear the record has swapped.
LEMMA RollbackPins ==
  ASSUME Prudent, Sound, [Next]_vars, NEW p \in Procs, pc[p] = "r_swap", pc'[p] = "r_clear"
  PROVE  env' = Pinned(Other(rec[p].target))
<1>1. pc \in [Procs -> Pcs] /\ bootMounted
  BY DEF Sound, TypeOK, EngineTypeOK, TrialBacked
<1>2. Step(p)
  <2>1. ASSUME NEW q \in Procs, Step(q)
        PROVE  q = p
    BY <2>1, OthersAway DEF Sound, Prudent
  <2>2. CASE Boot \/ Reboot \/ PowerCut \/ Flush \/ UNCHANGED vars
    BY <2>2 DEF Boot, ComeUp, Reboot, PowerCut, Flush, GoDown, vars
  <2>3. ~\E q \in Procs : Kill(q) \/ PowerCutInCall(q)
    BY <1>1 DEF Kill, Done, Goto, PowerCutInCall, GoDown
  <2> QED  BY <2>1, <2>2, <2>3 DEF Next
<1>3. EnvCall(p)
  <2>1. ~EngineStep(p)
    BY <1>1
    DEF EngineStep, InstallStart, InstallWrite, InstallVerify, InstallSave, InstallMark, InstallPost,
        UnwindClear, CommitByHand, CommitByUnit, CommitLoad, CommitHealth, CommitFail, CommitClear,
        RollbackLoad, RollbackClear, SwitchLoad, MarkGoodStart, MarkGoodClear, VerifyLoad, VerifyFail,
        Starts
  <2>2. ~NoPlatformUpdate(p) /\ ~VerifyProbe(p)
    BY <1>1 DEF NoPlatformUpdate, VerifyProbe, UnwindAbort, RollbackAbort, CommitVerify, VerifyCheck
  <2> QED  BY <1>2, <2>1, <2>2 DEF Step
<1>4. CallWrites(p)
  BY <1>1, <1>3
  DEF EnvCall, InstallPrepare, InstallSwap, UnwindSwap, CommitGood, RollbackSwap, SwitchPrepare,
      SwitchSwap, MarkGoodCall, Goto, Done
<1> QED  BY <1>1, <1>4, MountedWrite DEF CallWrites, SwapSlot

\* A rollback that returns has pointed the board at a slot that boots.
THEOREM RollbackIsGood ==
  ASSUME Prudent
  PROVE  Spec => RollbackReturnsGood
<1>1. ASSUME Sound, [Next]_vars, NEW p \in Procs, pc[p] = "r_swap", pc'[p] = "r_clear"
      PROVE  content[env'.slot] = "good"
  <2>1. content[Other(rec[p].target)] = "good"
    BY <1>1 DEF Sound, RecoverableInv, Shares, Holding
  <2> QED  BY <1>1, <2>1, RollbackPins, PinnedFields
<1>2. Sound /\ [Next]_vars => \A p \in Procs :
        Leaves(p, "r_swap") /\ pc'[p] = "r_clear" => content[env'.slot] = "good"
  BY <1>1 DEF Leaves
<1> QED  BY <1>2, SoundAlways, PTL DEF RollbackReturnsGood, Spec

\* An install that is refused while it writes has not put its slot in the way of
\* the next boot.
THEOREM RefusedIsNotBooted ==
  ASSUME Prudent
  PROVE  Spec => RefusedNotBooted
<1>1. ASSUME Sound, NEW p \in Procs, pc[p] = "i_stream"
      PROVE  NextBoot # rec[p].target
  <2>1. running # Off /\ running \in Slots
    BY <1>1 DEF Sound, DownIsIdle, Idle, TypeOK, EngineTypeOK
  <2>2. env = Pinned(running) /\ rec[p].target = Other(running)
    BY <1>1 DEF Sound, RecoverableInv, CountsOn, BeforeSave, InstallPcs
  <2> QED  BY <2>1, <2>2, PinnedFields, OtherTwice DEF NextBoot, BootChoice
<1>2. Sound /\ [Next]_vars => \A p \in Procs :
        Leaves(p, "i_stream") /\ pc'[p] = "idle" => NextBoot # rec[p].target
  BY <1>1 DEF Leaves
<1> QED  BY <1>2, SoundAlways, PTL DEF RefusedNotBooted, Spec

LEMMA UnfailedKept ==
  ASSUME OneAtATime, TypeOK, Unfailed, [Next]_vars
  PROVE  Unfailed'
<1>1. FileTypeOK /\ EngineTypeOK
  BY DEF TypeOK
<1>2. ASSUME NEW p \in Procs, EngineStep(p)
      PROVE  Unfailed'
  BY <1>1, <1>2, StepUnfailed
<1>3. ASSUME NEW p \in Procs, EnvCall(p) \/ NoPlatformUpdate(p) \/ VerifyProbe(p)
      PROVE  Unfailed'
  BY <1>1, <1>3, CallIsEngines, CallUnfailed
<1>4. ASSUME NEW p \in Procs, Kill(p)
      PROVE  Unfailed'
  BY <1>1, <1>4, StopUnfailed DEF Kill
<1>5. CASE Reboot \/ PowerCut \/ \E p \in Procs : PowerCutInCall(p)
  BY <1>1, <1>5, StopUnfailed DEF Reboot, PowerCut, PowerCutInCall
<1>6. CASE Boot \/ Flush \/ UNCHANGED vars
  BY <1>6 DEF Boot, ComeUp, Flush, SyncFile, KeepFile, vars, board, Unfailed
<1> QED  BY <1>2, <1>3, <1>4, <1>5, <1>6 DEF Next, Step

\* A failed deployment stays failed until rollback or mark-good removes its record:
\* whatever fails, is killed, loses power or loses a rename, for one command line.
THEOREM FailedIsFinal ==
  ASSUME OneAtATime
  PROVE  Spec => FailedStays
<1>1. ASSUME TypeOK, Unfailed, [Next]_vars, state.phase = "failed", state' # state, running' # Off
      PROVE  state' = NoRec /\ \E p \in Procs : pc[p] \in {"r_clear", "m_clear"}
  <2>1. FileTypeOK /\ EngineTypeOK
    BY <1>1 DEF TypeOK
  <2>2. ASSUME NEW p \in Procs, EnvCall(p) \/ NoPlatformUpdate(p) \/ VerifyProbe(p) \/ Kill(p)
        PROVE  FALSE
    BY <1>1, <2>1, <2>2, CallIsEngines, EngineCallType DEF Kill
  <2>3. ~(\E p \in Procs : PowerCutInCall(p)) /\ ~Reboot /\ ~PowerCut
    BY <1>1 DEF PowerCutInCall, Reboot, PowerCut, GoDown
  <2>4. ~Boot /\ ~Flush /\ ~UNCHANGED vars
    BY <1>1 DEF Boot, KeepFile, Flush, SyncFile, vars
  <2>5. PICK p \in Procs : EngineStep(p)
    BY <1>1, <2>2, <2>3, <2>4 DEF Next, Step
  <2> QED  BY <1>1, <2>5, FailedEnds
<1>2. Init => Unfailed
  BY DEF Init, EngineInit, Unfailed, InstallPcs, CommitPcs, VerifyPcs
<1>3. TypeOK /\ Unfailed /\ [Next]_vars => Unfailed'
  BY UnfailedKept
<1>4. TypeOK /\ Unfailed /\ [Next]_vars =>
        (state.phase = "failed" /\ state' # state /\ running' # Off
           => state' = NoRec /\ \E p \in Procs : pc[p] \in {"r_clear", "m_clear"})
  BY <1>1
<1> QED  BY <1>2, <1>3, <1>4, TypeCorrect, PTL DEF FailedStays, Spec

---------------------------------------------------------------------------
(* The A/B promise *)

\* What the abstract device is in a state of the board's.
LEMMA MappedState ==
  ASSUME Sound
  PROVE  /\ Fallback \in Slots /\ content[Fallback] = "good"
         /\ Device!Away = Other(Fallback)
         /\ IF env.armed THEN env.slot = Other(Fallback) ELSE env.slot = Fallback
         /\ env.armed => Fallback = Other(state.target)
<1>1. env.slot \in Slots
  BY DEF Sound, TypeOK, EnvTypeOK, Envs
<1>2. Fallback \in Slots /\ Other(Fallback) \in Slots /\ Other(Fallback) # Fallback
  BY <1>1, OtherType, OtherTwice DEF Fallback, FallbackOf
<1>3. \A s \in Slots : s # Fallback => s = Other(Fallback)
  BY <1>2 DEF Slots, Other
<1>4. Device!Away = Other(Fallback)
  BY <1>2, <1>3 DEF Device!Away
<1> QED
  BY <1>1, <1>2, <1>4, OtherTwice
  DEF Fallback, FallbackOf, Sound, RecoverableInv, BoardSafe, Recoverable

\* Every write of the environment, whole or the last thing before the power goes, is a
\* decision that the abstract device may take.
LEMMA WriteMaps ==
  ASSUME Prudent, Sound, NEW p \in Procs, CallWrites(p), content' = content,
         running # Off, running' \in {running, Off}
  PROVE  [Device!ABNext]_(Device!abVars)
<1> DEFINE Decides(h, t) == Fallback' = h /\ env'.armed = t
<1>1. /\ bootMounted /\ running \in Slots /\ env.slot \in Slots
      /\ CountsOn(p) /\ Shares(p) /\ BoardSafe
  BY DEF Sound, TrialBacked, TypeOK, EngineTypeOK, EnvTypeOK, Envs, RecoverableInv
<1>2. running \in {s \in Slots : content[s] = "good"}
  BY <1>1 DEF BoardSafe
<1>3. ASSUME NEW s, env' = Pinned(s)
      PROVE  Decides(s, FALSE)
  BY <1>3, PinnedFields DEF Fallback
<1>4. ASSUME NEW s \in Slots, content[s] = "good", Decides(s, FALSE), ~env.armed
      PROVE  Device!Redirect
  BY <1>4 DEF Device!Redirect, Device!Decide
<1>5. ASSUME NEW s \in Slots, s \in {Fallback, running}, Decides(s, FALSE), env.armed
      PROVE  Device!Withdraw \/ Device!Accept
  <2>1. s = Fallback => Device!Withdraw
    BY <1>5 DEF Device!Withdraw, Device!Decide
  <2>2. s # Fallback => Device!Accept
    <3>1. s # Fallback => s = Other(Fallback)
      BY <1>5, MappedState DEF Slots, Other
    <3> QED  BY <1>5, <3>1, MappedState DEF Device!Accept, Device!Decide
  <2> QED  BY <2>1, <2>2
<1>6. CASE pc[p] \in {"i_prep", "s_prep"}
  <2>1. env' = Pinned(env.slot) /\ ~env.armed
    BY <1>1, <1>6, MountedWrite, PinnedFields DEF CallWrites, PrepareTarget, CountsOn, Sound, TrialBacked
  <2> QED  BY <1>1, <1>3, <1>4, <2>1, MappedState DEF Device!ABNext
<1>7. CASE pc[p] = "i_swap"
  <2>1. env' = Trial(rec[p].target) /\ env = Pinned(running) /\ rec[p].target = Other(running)
    BY <1>1, <1>7, MountedWrite DEF CallWrites, SwapSlot, CountsOn, InstallPcs
  <2>2. ~env.armed /\ Fallback = running /\ Decides(running, TRUE)
    BY <1>1, <2>1, PinnedFields, TrialFields, OtherTwice DEF Fallback
  <2>3. Device!Arm
    BY <2>2 DEF Device!Arm, Device!Decide
  <2> QED  BY <2>3 DEF Device!ABNext
<1>8. CASE pc[p] = "r_swap"
  <2>1. env' = Pinned(Other(rec[p].target)) /\ rec[p].target \in Slots
    BY <1>1, <1>8, MountedWrite, PhaseOfRecord DEF CallWrites, SwapSlot, Sound, TypeOK, EngineTypeOK
  <2>2. Other(rec[p].target) \in Slots /\ content[Other(rec[p].target)] = "good"
    BY <1>1, <1>8, <2>1, OtherType DEF Shares, Holding
  <2>3. env.armed => Fallback = Other(rec[p].target)
    BY <1>1, <1>8, MappedState DEF Shares, Holding, Sound, TrialBacked
  <2> QED  BY <1>3, <1>4, <1>5, <2>1, <2>2, <2>3 DEF Device!ABNext
<1>9. CASE pc[p] = "s_swap"
  <2>1. env' = Pinned(Other(running)) /\ ~env.armed /\ content[Other(running)] = "good"
    BY <1>1, <1>9, MountedWrite DEF CallWrites, SwapSlot, CountsOn, Sound, TrialBacked, BeforeSave
  <2> QED  BY <1>1, <1>3, <1>4, <2>1, OtherType DEF Device!ABNext
<1>10. CASE pc[p] \in {"u_swap", "c_good", "m_good"}
  <2>1. env' = Pinned(running)
    BY <1>1, <1>10, MountedWrite DEF CallWrites, SwapSlot, MarkGood
  <2> QED  BY <1>1, <1>2, <1>3, <1>4, <1>5, <2>1 DEF Device!ABNext
<1> QED  BY <1>6, <1>7, <1>8, <1>9, <1>10 DEF CallWrites

\* Steps that leave the environment alone: only an install's writing shows.
LEMMA StepMaps ==
  ASSUME Prudent, Sound, NEW p \in Procs, EngineStep(p), UNCHANGED envVars
  PROVE  [Device!ABNext]_(Device!abVars)
<1>1. running # Off /\ running \in Slots /\ content \in [Slots -> Images] /\ CountsOn(p)
  BY WorksOnlyUp DEF Sound, TypeOK, EngineTypeOK, RecoverableInv, Step
<1>2. running' = running /\ Fallback' = Fallback /\ env' = env
  BY StepsStayUp DEF envVars, Fallback, FallbackOf
<1>3. CASE InstallWrite(p) \/ InstallVerify(p)
  <2>1. env = Pinned(running) /\ rec[p].target = Other(running)
    BY <1>1, <1>3 DEF InstallWrite, InstallVerify, CountsOn, BeforeSave, InstallPcs
  <2>2. ~env.armed /\ Fallback = running /\ Device!Away = Other(running)
    BY <2>1, PinnedFields, MappedState DEF Fallback
  <2>3. \A s \in Slots : s # Other(running) => content'[s] = content[s]
    BY <1>1, <1>3, <2>1 DEF InstallWrite, InstallVerify
  <2>4. Other(running) \in Slots
    BY <1>1, OtherType
  <2>5. LET good == {s \in Slots : content[s] = "good"}
        IN  {s \in Slots : content'[s] = "good"} \in {good \ {Other(running)}, good \cup {Other(running)}}
    <3>1. CASE content'[Other(running)] = "good"
      BY <2>3, <2>4, <3>1
    <3>2. CASE content'[Other(running)] # "good"
      BY <2>3, <2>4, <3>2
    <3> QED  BY <3>1, <3>2
  <2>6. Device!Write
    BY <1>2, <2>2, <2>5 DEF Device!Write
  <2> QED  BY <2>6 DEF Device!ABNext
<1>4. CASE ~(InstallWrite(p) \/ InstallVerify(p))
  <2>1. content' = content
    BY <1>4, StepsStayUp
  <2> QED  BY <1>2, <2>1 DEF Device!abVars
<1> QED  BY <1>3, <1>4

LEMMA BootMaps ==
  ASSUME Prudent, Sound, Boot
  PROVE  [Device!ABNext]_(Device!abVars)
<1>1. /\ env'.armed = env.armed /\ env'.slot = env.slot
      /\ running = Off /\ content' = content
  BY DEF Boot, CountAttempt, ComeUp, board, Sound, TypeOK, EnvTypeOK, Envs
<1>2. Fallback' = Fallback
  BY <1>1 DEF Fallback, FallbackOf
<1>3. CASE running' = running
  BY <1>1, <1>2, <1>3 DEF Device!abVars
<1>4. CASE running' # running
  <2>1. running' = BootChoice /\ content[BootChoice] = "good"
    BY <1>4 DEF Boot, ComeUp, board
  <2>2. BootChoice \in {Fallback} \cup IF env.armed THEN {Other(Fallback)} ELSE {}
    BY MappedState DEF BootChoice, Fallback, FallbackOf
  <2>3. BootChoice \in Slots
    BY BootChoiceType DEF Sound, TypeOK
  <2>4. Device!ComesUp
    BY <1>1, <1>2, <2>1, <2>2, <2>3, MappedState DEF Device!ComesUp
  <2> QED  BY <2>4 DEF Device!ABNext
<1> QED  BY <1>3, <1>4

LEMMA NextMaps ==
  ASSUME Prudent, Sound, [Next]_vars
  PROVE  [Device!ABNext]_(Device!abVars)
<1>1. ASSUME NEW p \in Procs, EnvCall(p) \/ NoPlatformUpdate(p) \/ VerifyProbe(p) \/ Kill(p)
      PROVE  [Device!ABNext]_(Device!abVars)
  <2>1. running # Off /\ running' = running /\ content' = content
    BY <1>1, WorksOnlyUp, StepsStayUp, CallIsEngines DEF Sound, Step, Kill
  <2>2. CallWrites(p) \/ env' = env
    BY <1>1 DEF EnvCall, CallFails, NoPlatformUpdate, VerifyProbe, Kill, envVars
  <2> QED  BY <2>1, <2>2, WriteMaps DEF Device!abVars, Fallback, FallbackOf
<1>2. ASSUME NEW p \in Procs, PowerCutInCall(p)
      PROVE  [Device!ABNext]_(Device!abVars)
  BY <1>2, WorksOnlyUp, WriteMaps DEF PowerCutInCall, GoDown, Sound
<1>3. CASE Reboot \/ PowerCut
  <2>1. Device!GoesDown
    BY <1>3 DEF Device!GoesDown, Reboot, PowerCut, GoDown, envVars, Fallback, FallbackOf
  <2> QED  BY <2>1 DEF Device!ABNext
<1>4. CASE Flush \/ UNCHANGED vars
  BY <1>4 DEF Flush, vars, envVars, board, Device!abVars, Fallback, FallbackOf
<1> QED  BY <1>1, <1>2, <1>3, <1>4, StepMaps, BootMaps DEF Next, Step

\* The board keeps the A/B promise: each of its steps is one that the abstract device
\* may take, or none.  That the device comes up again is its fairness: a hypothesis
\* here, which TLC derives from the boot loader's.
THEOREM PromiseKept ==
  ASSUME Prudent
  PROVE  Spec /\ Device!ABFair => KeepsABPromise
<1>1. Init => Device!ABInit
  <2>1. ASSUME Init
        PROVE  running = "A" /\ env = Pinned("A") /\ content = [s \in Slots |-> "good"]
    BY <2>1 DEF Init, EnvInit, EngineInit, Pinned
  <2> QED  BY <2>1, PinnedFields DEF Device!ABInit, Fallback, Slots
<1>2. Sound /\ [Next]_vars => [Device!ABNext]_(Device!abVars)
  BY NextMaps
<1> QED  BY <1>1, <1>2, SoundAlways, PTL DEF Spec, KeepsABPromise, Device!ABSpec
---------------------------------------------------------------------------
(* What the promise is worth, from the abstract steps alone. *)

\* The running slot matters too: a trial that runs can be accepted as home.
DeviceSound ==
    LET sound == {s \in Slots : content[s] = "good"}
    IN  Fallback \in sound /\ (running = Off \/ running \in sound)

LEMMA DeviceSoundKept ==
  ASSUME DeviceSound, [Device!ABNext]_(Device!abVars)
  PROVE  DeviceSound'
<1> DEFINE sound == {s \in Slots : content[s] = "good"}
<1>1. Device!Away \in Slots /\ Device!Away # Fallback
  BY DEF DeviceSound, Device!Away, Slots
<1>2. CASE Device!Write
  BY <1>1, <1>2 DEF Device!Write, DeviceSound
<1>3. CASE Device!Arm \/ Device!Withdraw
  BY <1>3 DEF Device!Arm, Device!Withdraw, Device!Decide, DeviceSound
<1>4. CASE Device!Accept
  <2>1. running \in sound
    BY <1>1, <1>4 DEF Device!Accept, DeviceSound, Slots, Off
  <2> QED  BY <1>4, <2>1 DEF Device!Accept, Device!Decide, DeviceSound
<1>5. CASE Device!Redirect
  BY <1>5 DEF Device!Redirect, Device!Decide, DeviceSound
<1>6. CASE Device!GoesDown
  BY <1>6 DEF Device!GoesDown, DeviceSound
<1>7. CASE Device!ComesUp
  BY <1>7 DEF Device!ComesUp, DeviceSound
<1>8. CASE UNCHANGED Device!abVars
  BY <1>8 DEF Device!abVars, DeviceSound
<1> QED  BY <1>2, <1>3, <1>4, <1>5, <1>6, <1>7, <1>8 DEF Device!ABNext

\* Whatever keeps the A/B promise never loses its board: the slot it falls back to
\* boots, whatever is on trial.
THEOREM HomeIsSound == KeepsABPromise => []Device!HomeSound
<1>1. Device!ABInit => DeviceSound
  BY DEF Device!ABInit, DeviceSound
<1>2. DeviceSound /\ [Device!ABNext]_(Device!abVars) => DeviceSound'
  BY DeviceSoundKept
<1>3. DeviceSound => Device!HomeSound
  BY DEF DeviceSound, Device!HomeSound
<1> QED  BY <1>1, <1>2, <1>3, PTL DEF KeepsABPromise, Device!ABSpec
===============================================================================
