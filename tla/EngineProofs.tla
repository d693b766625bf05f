----------------------------- MODULE EngineProofs -----------------------------
(***************************************************************************)
(* What the engine's steps keep, whichever connector they are composed     *)
(* with: its variables and the record's stay well typed, verbs that run    *)
(* side by side work on one update, and a failed one is in nobody's hands. *)
(***************************************************************************)
EXTENDS Engine, TLAPS

\* Slots and records: what the type proof needs of the record operators.
LEMMA OtherType == \A s \in Slots : Other(s) \in Slots
  BY DEF Slots, Other

LEMMA OtherTwice == \A s \in Slots : Other(Other(s)) = s /\ Other(s) # s
  BY DEF Slots, Other

LEMMA NoRecType == NoRec \in Records
  BY DEF Records

\* A record given a phase is a record, and not the missing one.
LEMMA WithPhase ==
  ASSUME NEW r \in Records, NEW ph \in Phases
  PROVE  [r EXCEPT !.phase = ph] \in Records /\ [r EXCEPT !.phase = ph] # NoRec
  BY DEF Records, Phases, NoRec, Slots

LEMMA PhaseOfRecord ==
  ASSUME NEW r \in Records
  PROVE  /\ r.target \in Slots
         /\ r = NoRec \/ r.phase \in Phases
         /\ r.phase # "none" => r # NoRec
  BY DEF Records, Phases, NoRec, Slots

\* The shapes that the engine's steps are made of.
LEMMA GotoType ==
  ASSUME EngineTypeOK, NEW p \in Procs, NEW l \in Pcs, Goto(p, l)
  PROVE  pc' \in [Procs -> Pcs]
  BY DEF EngineTypeOK, Goto

LEMMA HoldType ==
  ASSUME EngineTypeOK, NEW p \in Procs, NEW r \in Records, Hold(p, r)
  PROVE  rec' \in [Procs -> Records]
  BY DEF EngineTypeOK, Hold

LEMMA DoneType ==
  ASSUME EngineTypeOK, NEW p \in Procs, Done(p)
  PROVE  pc' \in [Procs -> Pcs] /\ rec' \in [Procs -> Records]
  BY NoRecType, GotoType DEF EngineTypeOK, Done, Pcs, Goto

LEMMA FileOpTypes ==
  ASSUME FileTypeOK
  PROVE  /\ \A r \in Records : SaveFile(r) => FileTypeOK'
         /\ ClearFile => FileTypeOK'
         /\ KeepFile => FileTypeOK'
         /\ SyncFile => FileTypeOK'
         /\ LoseFile => FileTypeOK'
  BY NoRecType DEF FileTypeOK, SaveFile, ClearFile, KeepFile, SyncFile, LoseFile

LEMMA SaveThenType ==
  ASSUME FileTypeOK, EngineTypeOK, NEW p \in Procs, NEW r \in Records, NEW l \in Pcs,
         SaveThen(p, r, l)
  PROVE  FileTypeOK' /\ pc' \in [Procs -> Pcs] /\ rec' \in [Procs -> Records]
  BY FileOpTypes, GotoType, HoldType, DoneType DEF SaveThen

\* The steps that touch no connector variable.
LEMMA EngineStepType ==
  ASSUME FileTypeOK, EngineTypeOK, NEW p \in Procs, EngineStep(p)
  PROVE  FileTypeOK' /\ EngineTypeOK'
<1> USE DEF EngineTypeOK, board
<1>1. rec[p] \in Records /\ state \in Records
  BY DEF FileTypeOK
<1>2. rec[p].target \in Slots /\ state.target \in Slots
  BY <1>1, PhaseOfRecord
<1>3. \A ph \in Phases : [rec[p] EXCEPT !.phase = ph] \in Records
  BY <1>1, WithPhase
<1>4. Pcs = {"idle"} \cup InstallPcs \cup CommitPcs \cup VerifyPcs \cup OtherPcs
  BY DEF Pcs
<1>a. CASE InstallStart(p)
  <2>1. running \in Slots
    BY <1>a DEF InstallStart, Starts
  <2>2. [phase |-> "written", target |-> Other(running)] \in Records
    BY <2>1, OtherType DEF Records, Phases
  <2>3. rec' \in [Procs -> Records]
    BY <1>a, <2>2, HoldType DEF InstallStart
  <2>4. pc' \in [Procs -> Pcs]
    BY <1>a, GotoType DEF InstallStart, Pcs, InstallPcs
  <2> QED  BY <1>a, <2>3, <2>4, FileOpTypes DEF InstallStart
<1>b. CASE InstallWrite(p)
  <2>1. pc' \in [Procs -> Pcs]
    BY <1>b, GotoType DEF InstallWrite, Pcs, InstallPcs
  <2> QED  BY <1>b, <2>1, FileOpTypes DEF InstallWrite, Images
<1>c. CASE InstallVerify(p)
  <2>1. pc' \in [Procs -> Pcs] /\ rec' \in [Procs -> Records]
    BY <1>c, GotoType, DoneType DEF InstallVerify, Pcs, InstallPcs
  <2> QED  BY <1>c, <2>1, FileOpTypes DEF InstallVerify
<1>d. CASE InstallSave(p)
  BY <1>d, <1>1, SaveThenType DEF InstallSave, Pcs, InstallPcs
<1>e. CASE InstallMark(p)
  BY <1>e, <1>3, SaveThenType DEF InstallMark, Pcs, InstallPcs, Phases
<1>f. CASE InstallPost(p)
  <2>1. pc' \in [Procs -> Pcs] /\ rec' \in [Procs -> Records]
    BY <1>f, GotoType, DoneType DEF InstallPost, Pcs, InstallPcs
  <2> QED  BY <1>f, <2>1, FileOpTypes DEF InstallPost
<1>g. CASE UnwindClear(p)
  BY <1>g, DoneType, FileOpTypes DEF UnwindClear, ClearFails
<1>h. CASE CommitLoad(p) /\ units' \in SUBSET {"verify", "commit"}
  <2>1. pc' \in [Procs -> Pcs]
    BY <1>h, GotoType DEF CommitLoad, Pcs, CommitPcs
  <2>2. rec' \in [Procs -> Records]
    BY <1>h, <1>1, HoldType DEF CommitLoad
  <2> QED  BY <1>h, <2>1, <2>2, FileOpTypes DEF CommitLoad
<1>i. CASE CommitByHand(p)
  BY <1>i, <1>h DEF CommitByHand
<1>j. CASE CommitByUnit(p)
  <2>1. units' \in SUBSET {"verify", "commit"}
    BY <1>j DEF CommitByUnit
  <2> QED  BY <1>j, <1>h, <2>1, FileOpTypes DEF CommitByUnit
<1>k. CASE CommitHealth(p)
  <2>1. pc' \in [Procs -> Pcs]
    BY <1>k, GotoType DEF CommitHealth, Pcs, CommitPcs
  <2> QED  BY <1>k, <2>1, FileOpTypes DEF CommitHealth
<1>l. CASE CommitFail(p)
  BY <1>l, <1>3, DoneType, FileOpTypes DEF CommitFail, Phases
<1>m. CASE CommitClear(p)
  BY <1>m, DoneType, FileOpTypes DEF CommitClear, ClearFails
<1>n. CASE RollbackLoad(p)
  <2>1. pc' \in [Procs -> Pcs]
    BY <1>n, GotoType DEF RollbackLoad, Pcs, OtherPcs
  <2>2. rec' \in [Procs -> Records]
    BY <1>n, <1>1, HoldType DEF RollbackLoad
  <2> QED  BY <1>n, <2>1, <2>2, FileOpTypes DEF RollbackLoad
<1>o. CASE RollbackClear(p)
  <2>1. rebootDue' \in BOOLEAN
    BY <1>o DEF RollbackClear
  <2> QED  BY <1>o, <2>1, DoneType, FileOpTypes DEF RollbackClear, ClearFails
<1>q. CASE SwitchLoad(p)
  <2>1. pc' \in [Procs -> Pcs]
    BY <1>q, GotoType DEF SwitchLoad, Pcs, OtherPcs
  <2> QED  BY <1>q, <2>1, FileOpTypes DEF SwitchLoad
<1>r. CASE MarkGoodStart(p)
  <2>1. pc' \in [Procs -> Pcs]
    BY <1>r, GotoType DEF MarkGoodStart, Pcs, OtherPcs
  <2> QED  BY <1>r, <2>1, FileOpTypes DEF MarkGoodStart
<1>s. CASE MarkGoodClear(p)
  BY <1>s, DoneType, FileOpTypes DEF MarkGoodClear, ClearFails
<1>t. CASE VerifyLoad(p)
  <2>1. pc' \in [Procs -> Pcs] /\ rec' \in [Procs -> Records]
    BY <1>t, <1>1, GotoType, HoldType DEF VerifyLoad, Pcs, VerifyPcs
  <2> QED  BY <1>t, <2>1, FileOpTypes DEF VerifyLoad
<1>u. CASE VerifyFail(p)
  BY <1>u, <1>3, DoneType, FileOpTypes DEF VerifyFail, Phases
<1> QED
  BY <1>a, <1>b, <1>c, <1>d, <1>e, <1>f, <1>g, <1>i, <1>j, <1>k, <1>l, <1>m, <1>n,
     <1>o, <1>q, <1>r, <1>s, <1>t, <1>u DEF EngineStep

LEMMA GoDownType ==
  ASSUME EngineTypeOK, GoDown
  PROVE  EngineTypeOK'
  BY NoRecType DEF EngineTypeOK, GoDown, Pcs

\* The steps that call the connector, on the engine's side.
EngineCall(p, ok) ==
    \/ InstallPrepare(p, ok)  \/ InstallSwap(p, ok)
    \/ UnwindAbort(p)         \/ UnwindSwap(p)
    \/ CommitVerify(p, ok)    \/ CommitGood(p)
    \/ RollbackAbort(p, ok)   \/ RollbackSwap(p, ok)
    \/ SwitchPrepare(p, ok)   \/ SwitchSwap(p, ok)
    \/ MarkGoodCall(p, ok)    \/ VerifyCheck(p, ok)

LEMMA EngineCallType ==
  ASSUME EngineTypeOK, NEW p \in Procs, NEW ok \in BOOLEAN, EngineCall(p, ok)
  PROVE  EngineTypeOK' /\ state' = state
<1> USE DEF EngineTypeOK, board
<1>a. CASE InstallPrepare(p, ok)
  BY <1>a, GotoType, DoneType DEF InstallPrepare, Pcs, InstallPcs
<1>b. CASE InstallSwap(p, ok)
  BY <1>b, GotoType, DoneType DEF InstallSwap, Pcs, InstallPcs
<1>c. CASE UnwindAbort(p) \/ UnwindSwap(p) \/ CommitGood(p)
  BY <1>c, GotoType DEF UnwindAbort, UnwindSwap, CommitGood, Pcs, InstallPcs, CommitPcs
<1>d. CASE RollbackSwap(p, ok) \/ RollbackAbort(p, ok)
  BY <1>d, GotoType, DoneType DEF RollbackSwap, RollbackAbort, Pcs, OtherPcs
<1>e. CASE SwitchPrepare(p, ok) \/ MarkGoodCall(p, ok)
  BY <1>e, GotoType DEF SwitchPrepare, MarkGoodCall, Pcs, OtherPcs
<1>f. CASE SwitchSwap(p, ok)
  <2>1. rebootDue' \in BOOLEAN
    BY <1>f DEF SwitchSwap
  <2> QED  BY <1>f, <2>1, DoneType DEF SwitchSwap
<1>g. CASE CommitVerify(p, ok)
  BY <1>g, GotoType DEF CommitVerify, Pcs, CommitPcs
<1>h. CASE VerifyCheck(p, ok)
  BY <1>h, GotoType, DoneType DEF VerifyCheck, Pcs, VerifyPcs
<1> QED
  BY <1>a, <1>b, <1>c, <1>d, <1>e, <1>f, <1>g, <1>h DEF EngineCall

\* A process moves itself only.
LEMMA StepsItself ==
  ASSUME EngineTypeOK, NEW p \in Procs, EngineStep(p) \/ \E ok \in BOOLEAN : EngineCall(p, ok),
         NEW q \in Procs, q # p
  PROVE  pc'[q] = pc[q] /\ rec'[q] = rec[q]
<1> USE DEF Goto, Done, Hold
<1>1. pc \in [Procs -> Pcs] /\ rec \in [Procs -> Records]
  BY DEF EngineTypeOK
<1>2. CASE EngineStep(p)
  BY <1>1, <1>2
  DEF EngineStep, InstallStart, InstallWrite, InstallVerify, InstallSave, InstallMark, InstallPost,
      SaveThen, UnwindClear, CommitByHand, CommitByUnit, CommitLoad, CommitHealth, CommitFail,
      CommitClear, RollbackLoad, RollbackClear, SwitchLoad, MarkGoodStart, MarkGoodClear,
      VerifyLoad, VerifyFail
<1>3. CASE \E ok \in BOOLEAN : EngineCall(p, ok)
  BY <1>1, <1>3
  DEF EngineCall, InstallPrepare, InstallSwap, UnwindAbort, UnwindSwap, CommitVerify, CommitGood,
      RollbackAbort, RollbackSwap, SwitchPrepare, SwitchSwap, MarkGoodCall, VerifyCheck
<1> QED  BY <1>2, <1>3

\* No verb changes which slot runs, and only install writes one.
LEMMA StepsStayUp ==
  ASSUME NEW p \in Procs
  PROVE  /\ EngineStep(p) => running' = running
         /\ \A ok : EngineCall(p, ok) => running' = running /\ content' = content
         /\ EngineStep(p) => content' = content \/ InstallWrite(p) \/ InstallVerify(p)
<1>1. /\ EngineStep(p) => running' = running
      /\ EngineStep(p) => content' = content \/ InstallWrite(p) \/ InstallVerify(p)
  BY DEF EngineStep, InstallStart, InstallWrite, InstallVerify, InstallSave, InstallMark,
         InstallPost, UnwindClear, CommitByHand, CommitByUnit, CommitLoad, CommitHealth,
         CommitFail, CommitClear, RollbackLoad, RollbackClear, SwitchLoad, MarkGoodStart,
         MarkGoodClear, VerifyLoad, VerifyFail, board
<1>2. ASSUME NEW ok, EngineCall(p, ok)
      PROVE  running' = running /\ content' = content
  BY <1>2
  DEF EngineCall, InstallPrepare, InstallSwap, UnwindAbort, UnwindSwap, CommitVerify, CommitGood,
      RollbackAbort, RollbackSwap, SwitchPrepare, SwitchSwap, MarkGoodCall, VerifyCheck, board
<1> QED  BY <1>1, <1>2

\* An install goes for the slot that does not run, and no verb writes to the one
\* that does.
Aims(p) == pc[p] \in InstallPcs => rec[p].target = Other(running)

LEMMA StepAims ==
  ASSUME EngineTypeOK, NEW p \in Procs, Aims(p), running' = running, running \in Slots,
         EngineStep(p) \/ \E ok \in BOOLEAN : EngineCall(p, ok)
  PROVE  Aims(p)' /\ content'[running] = content[running]
<1> USE DEF Aims, Goto, Done, Hold, InstallPcs
<1>1. /\ pc \in [Procs -> Pcs] /\ rec \in [Procs -> Records] /\ content \in [Slots -> Images]
      /\ Other(running) # running
  BY OtherTwice DEF EngineTypeOK
<1>2. CASE InstallStart(p) \/ InstallPost(p) \/ UnwindClear(p)
  <2>1. content' = content
    BY <1>2 DEF InstallStart, InstallPost, UnwindClear, board
  <2>2. CASE InstallStart(p)
    BY <1>1, <2>1, <2>2 DEF InstallStart
  <2>3. CASE InstallPost(p) \/ UnwindClear(p)
    BY <1>1, <2>1, <2>3 DEF InstallPost, UnwindClear
  <2> QED  BY <1>2, <2>2, <2>3
<1>6. CASE InstallWrite(p) \/ InstallVerify(p)
  <2>1. rec[p].target = Other(running)
    BY <1>6 DEF InstallWrite, InstallVerify
  <2>2. \A c : [content EXCEPT ![Other(running)] = c][running] = content[running]
    BY <1>1
  <2> QED  BY <1>1, <1>6, <2>1, <2>2 DEF InstallWrite, InstallVerify
<1>3. CASE InstallSave(p) \/ InstallMark(p)
  <2>1. pc[p] \in {"i_save", "i_mark"} /\ content' = content
    BY <1>3 DEF InstallSave, InstallMark, board
  <2>2. [rec[p] EXCEPT !.phase = "swapped"].target = rec[p].target
    BY <1>1 DEF Records, NoRec
  <2> QED  BY <1>1, <1>3, <2>1, <2>2 DEF InstallSave, InstallMark, SaveThen
<1>4. CASE \/ CommitByHand(p) \/ CommitByUnit(p) \/ CommitHealth(p) \/ CommitFail(p) \/ CommitClear(p)
           \/ RollbackLoad(p) \/ RollbackClear(p) \/ SwitchLoad(p) \/ MarkGoodStart(p)
           \/ MarkGoodClear(p) \/ VerifyLoad(p) \/ VerifyFail(p)
  BY <1>1, <1>4
  DEF CommitByHand, CommitByUnit, CommitLoad, CommitHealth, CommitFail, CommitClear, Starts,
      RollbackLoad, RollbackClear, SwitchLoad, MarkGoodStart, MarkGoodClear, VerifyLoad, VerifyFail,
      board
<1>5. CASE \E ok \in BOOLEAN : EngineCall(p, ok)
  BY <1>1, <1>5
  DEF EngineCall, InstallPrepare, InstallSwap, UnwindAbort, UnwindSwap, CommitVerify, CommitGood,
      RollbackAbort, RollbackSwap, SwitchPrepare, SwitchSwap, MarkGoodCall, VerifyCheck, board
<1> QED  BY <1>2, <1>3, <1>4, <1>5, <1>6 DEF EngineStep

---------------------------------------------------------------------------
(* With one command line, whoever is not ending the update works on a      *)
(* record that has not failed.                                             *)

OneAtATime == \A p, q \in Procs : p = q

Unfailed ==
    \A p \in Procs :
        /\ pc[p] \in InstallPcs => rec[p].phase # "failed"
        /\ pc[p] \in InstallPcs \cup CommitPcs \cup VerifyPcs => state.phase # "failed"

LEMMA StepUnfailed ==
  ASSUME OneAtATime, FileTypeOK, EngineTypeOK, Unfailed, NEW p \in Procs, EngineStep(p)
  PROVE  Unfailed'
<1> USE DEF Unfailed, InstallPcs, CommitPcs, VerifyPcs, Goto, Done, Hold, KeepFile, SaveFile
<1>1. /\ pc \in [Procs -> Pcs] /\ rec \in [Procs -> Records] /\ state \in Records
      /\ \A q \in Procs : q = p
  BY DEF EngineTypeOK, FileTypeOK, OneAtATime
<1>2. SUFFICES /\ pc'[p] \in InstallPcs => rec'[p].phase # "failed"
               /\ pc'[p] \in InstallPcs \cup CommitPcs \cup VerifyPcs => state'.phase # "failed"
  BY <1>1
<1>3. CASE \/ InstallStart(p) \/ InstallWrite(p) \/ InstallVerify(p) \/ InstallPost(p)
           \/ UnwindClear(p)
  BY <1>1, <1>3
  DEF InstallStart, InstallWrite, InstallVerify, InstallPost, UnwindClear, NoRec, Starts
<1>4. CASE InstallSave(p)
  <2>1. pc[p] = "i_save" /\ rec[p].phase # "failed"
    BY <1>4 DEF InstallSave
  <2>2. \/ state' = rec[p] /\ rec'[p] = rec[p]
        \/ pc'[p] = "idle"
    BY <1>1, <1>4 DEF InstallSave, SaveThen
  <2> QED  BY <2>1, <2>2
<1>5. CASE InstallMark(p)
  <2>1. [rec[p] EXCEPT !.phase = "swapped"].phase # "failed"
    BY <1>1 DEF Records, NoRec, Phases
  <2>2. \/ state' = [rec[p] EXCEPT !.phase = "swapped"] /\ rec'[p] = state'
        \/ pc'[p] = "idle"
    BY <1>1, <1>5 DEF InstallMark, SaveThen
  <2> QED  BY <2>1, <2>2
<1>6. CASE CommitByHand(p) \/ CommitByUnit(p) \/ CommitHealth(p) \/ CommitFail(p) \/ CommitClear(p)
  BY <1>1, <1>6
  DEF CommitByHand, CommitByUnit, CommitLoad, CommitHealth, CommitFail, CommitClear, Starts
<1>7. CASE \/ RollbackLoad(p) \/ RollbackClear(p) \/ SwitchLoad(p) \/ MarkGoodStart(p)
           \/ MarkGoodClear(p) \/ VerifyLoad(p) \/ VerifyFail(p)
  BY <1>1, <1>7
  DEF RollbackLoad, RollbackClear, SwitchLoad, MarkGoodStart, MarkGoodClear, VerifyLoad, VerifyFail,
      Starts
<1> QED  BY <1>3, <1>4, <1>5, <1>6, <1>7 DEF EngineStep

LEMMA CallUnfailed ==
  ASSUME OneAtATime, FileTypeOK, EngineTypeOK, Unfailed,
         NEW p \in Procs, NEW ok \in BOOLEAN, EngineCall(p, ok)
  PROVE  Unfailed'
<1> USE DEF Unfailed, InstallPcs, CommitPcs, VerifyPcs, Goto, Done
<1>1. /\ pc \in [Procs -> Pcs] /\ rec \in [Procs -> Records] /\ state' = state
      /\ \A q \in Procs : q = p
  BY EngineCallType DEF EngineTypeOK, OneAtATime
<1>2. /\ pc'[p] \in InstallPcs => pc[p] \in InstallPcs /\ rec'[p] = rec[p]
      /\ pc'[p] \in CommitPcs \cup VerifyPcs => pc[p] \in CommitPcs \cup VerifyPcs
  BY <1>1
  DEF EngineCall, InstallPrepare, InstallSwap, UnwindAbort, UnwindSwap, CommitVerify, CommitGood,
      RollbackAbort, RollbackSwap, SwitchPrepare, SwitchSwap, MarkGoodCall, VerifyCheck
<1> QED  BY <1>1, <1>2

\* A kill and a board that goes down leave nobody at work, or nobody new.
LEMMA StopUnfailed ==
  ASSUME EngineTypeOK, Unfailed
  PROVE  /\ \A p \in Procs : Done(p) /\ state' = state => Unfailed'
         /\ GoDown => Unfailed'
  BY DEF EngineTypeOK, Unfailed, Done, Goto, GoDown, InstallPcs, CommitPcs, VerifyPcs

\* Only the clearing step of rollback or mark-good changes a record that failed.
LEMMA FailedEnds ==
  ASSUME Unfailed, NEW p \in Procs, EngineStep(p), state.phase = "failed", state' # state
  PROVE  state' = NoRec /\ pc[p] \in {"r_clear", "m_clear"}
<1>1. pc[p] \notin InstallPcs \cup CommitPcs \cup VerifyPcs
  BY DEF Unfailed
<1> QED
  BY <1>1
  DEF EngineStep, InstallStart, InstallWrite, InstallVerify, InstallSave, InstallMark, InstallPost,
      UnwindClear, CommitByHand, CommitByUnit, CommitLoad, CommitHealth, CommitFail, CommitClear,
      RollbackLoad, RollbackClear, SwitchLoad, MarkGoodStart, MarkGoodClear, VerifyLoad, VerifyFail,
      InstallPcs, CommitPcs, VerifyPcs, KeepFile, ClearFile, ClearFails

---------------------------------------------------------------------------
(* Several command lines: install and switch run alone, so that whoever is *)
(* at work is at work on the one update there is.                          *)

\* What a caller who runs several verbs undertakes, or one who runs one at a time.
InstallsAlone == "install_alone" \in Promises \/ OneAtATime

\* A process that starts a verb finds every installing process at rest.
LEMMA StartsAlone ==
  ASSUME InstallsAlone, NEW p \in Procs, NEW alone \in BOOLEAN, Starts(p, alone)
  PROVE  /\ \A q \in Procs : q # p => pc[q] \notin AlonePcs
         /\ alone => \A q \in Procs : q # p => pc[q] = "idle"
  BY DEF InstallsAlone, OneAtATime, Starts, AlonePcs, InstallPcs

Lone == \A p, q \in Procs : pc[p] \in AlonePcs => q = p \/ pc[q] = "idle"

\* The calls of a process that holds a record.
Working == InstallPcs \cup CommitPcs \cup VerifyPcs \cup {"r_abort", "r_swap", "r_clear"}

\* All of them hold the record of one update, and so does the file.
Agreed ==
    \A p \in Procs : pc[p] \in Working =>
        /\ state # NoRec => state.target = rec[p].target
        /\ \A q \in Procs : pc[q] \in Working => rec[q].target = rec[p].target

\* Nothing comes between install or switch and the record that one writes and the
\* other finds absent.
Undisturbed(p) ==
    /\ pc[p] \in {"i_write", "i_stream", "i_save"} => state = NoRec /\ rec[p].phase = "written"
    /\ pc[p] \in {"i_prep", "i_swap", "i_mark"} => state = rec[p] /\ rec[p].phase = "written"
    /\ pc[p] \in {"i_post", "u_abort", "u_swap", "u_clear"} =>
          state = rec[p] /\ rec[p].phase = "swapped"
    /\ pc[p] \in {"s_prep", "s_swap"} => state = NoRec

OneUpdate == Lone /\ Agreed /\ \A p \in Procs : Undisturbed(p)

\* Who takes a step finds installing processes at rest, and every process if it is
\* one itself.
LEMMA StepLone ==
  ASSUME InstallsAlone, EngineTypeOK, Lone, NEW p \in Procs,
         EngineStep(p) \/ \E ok \in BOOLEAN : EngineCall(p, ok)
  PROVE  /\ \A q \in Procs \ {p} : pc[q] \notin AlonePcs
         /\ pc'[p] \in AlonePcs => \A q \in Procs \ {p} : pc[q] = "idle"
<1> USE DEF Goto, Done, Hold, AlonePcs, InstallPcs
<1>1. pc \in [Procs -> Pcs]
  BY DEF EngineTypeOK
<1>2. CASE pc[p] # "idle"
  <2>1. \A q \in Procs \ {p} : pc[q] \notin AlonePcs
    BY <1>2 DEF Lone
  <2>2. pc'[p] \in AlonePcs => pc[p] \in AlonePcs
    <3>1. CASE EngineStep(p)
      BY <1>1, <1>2, <3>1
      DEF EngineStep, InstallStart, InstallWrite, InstallVerify, InstallSave, InstallMark, InstallPost,
          SaveThen, UnwindClear, CommitByHand, CommitByUnit, CommitLoad, CommitHealth, CommitFail,
          CommitClear, RollbackLoad, RollbackClear, SwitchLoad, MarkGoodStart, MarkGoodClear,
          VerifyLoad, VerifyFail, Starts
    <3>2. CASE \E ok \in BOOLEAN : EngineCall(p, ok)
      BY <1>1, <3>2
      DEF EngineCall, InstallPrepare, InstallSwap, UnwindAbort, UnwindSwap, CommitVerify, CommitGood,
          RollbackAbort, RollbackSwap, SwitchPrepare, SwitchSwap, MarkGoodCall, VerifyCheck
    <3> QED  BY <3>1, <3>2
  <2> QED  BY <2>1, <2>2 DEF Lone
<1>3. CASE pc[p] = "idle"
  <2>1. EngineStep(p)
    BY <1>3
    DEF EngineCall, InstallPrepare, InstallSwap, UnwindAbort, UnwindSwap, CommitVerify, CommitGood,
        RollbackAbort, RollbackSwap, SwitchPrepare, SwitchSwap, MarkGoodCall, VerifyCheck
  <2>2. PICK alone \in BOOLEAN : Starts(p, alone) /\ (pc'[p] \in AlonePcs => alone)
    <3>1. CASE InstallStart(p) \/ SwitchLoad(p)
      BY <3>1 DEF InstallStart, SwitchLoad
    <3>2. ~InstallStart(p) /\ ~SwitchLoad(p) => Starts(p, FALSE) /\ pc'[p] \notin AlonePcs
      BY <1>1, <1>3, <2>1
      DEF EngineStep, InstallWrite, InstallVerify, InstallSave, InstallMark, InstallPost,
          UnwindClear, CommitByHand, CommitByUnit, CommitLoad, CommitHealth, CommitFail,
          CommitClear, RollbackLoad, RollbackClear, MarkGoodStart, MarkGoodClear,
          VerifyLoad, VerifyFail
    <3> QED  BY <3>1, <3>2
  <2> QED  BY <2>2, StartsAlone
<1> QED  BY <1>2, <1>3

\* What a step does to the record in the file and to the one in memory.
LEMMA StepRecords ==
  ASSUME FileTypeOK, EngineTypeOK, NEW p \in Procs, Undisturbed(p),
         EngineStep(p) \/ \E ok \in BOOLEAN : EngineCall(p, ok)
  PROVE  /\ Undisturbed(p)'
         /\ \/ state' \in {state, NoRec}
            \/ pc[p] \in Working /\ state'.target = rec[p].target
         /\ pc'[p] \in Working =>
               \/ pc[p] \in Working /\ rec'[p].target = rec[p].target
               \/ pc'[p] = "i_write" /\ state = NoRec /\ state' = NoRec
               \/ rec'[p] = state /\ state' = state /\ state # NoRec
<1> USE DEF Goto, Done, Hold, KeepFile, SaveFile, ClearFile, ClearFails, Undisturbed, Working,
            InstallPcs, CommitPcs, VerifyPcs
<1>1. pc \in [Procs -> Pcs] /\ rec \in [Procs -> Records] /\ state \in Records
  BY DEF EngineTypeOK, FileTypeOK
<1>2. NoRec.phase = "none" /\ \A r \in Records : r # NoRec => r.phase # "none"
  BY DEF NoRec, Records, Phases
<1>3. ASSUME NEW r \in Records, NEW ph \in Phases
      PROVE  /\ [r EXCEPT !.phase = ph].target = r.target
             /\ [r EXCEPT !.phase = ph].phase = ph /\ ph # "none"
  BY <1>3 DEF Records, NoRec, Phases
<1>4. {"swapped", "failed"} \subseteq Phases
  BY DEF Phases
<1>5. CASE InstallStart(p) \/ InstallWrite(p) \/ InstallVerify(p) \/ InstallPost(p) \/ UnwindClear(p)
  BY <1>1, <1>5 DEF InstallStart, InstallWrite, InstallVerify, InstallPost, UnwindClear, Starts
<1>6. CASE InstallSave(p) \/ InstallMark(p)
  <2>1. CASE InstallSave(p)
    BY <1>1, <1>2, <2>1 DEF InstallSave, SaveThen
  <2>2. CASE InstallMark(p)
    <3>1. pc[p] = "i_mark" /\ rec[p].target \in Slots
      BY <1>1, <2>2, PhaseOfRecord DEF InstallMark
    <3>2. \/ /\ state' = [rec[p] EXCEPT !.phase = "swapped"] /\ rec'[p] = state'
             /\ pc'[p] = "i_post"
          \/ state' = state /\ pc'[p] = "idle"
      BY <1>1, <2>2 DEF InstallMark, SaveThen
    <3>3. /\ [rec[p] EXCEPT !.phase = "swapped"].target = rec[p].target
          /\ [rec[p] EXCEPT !.phase = "swapped"].phase = "swapped"
      BY <1>1, <1>3, <1>4
    <3> QED  BY <3>1, <3>2, <3>3
  <2> QED  BY <1>6, <2>1, <2>2
<1>7. CASE CommitByHand(p) \/ CommitByUnit(p) \/ CommitHealth(p) \/ CommitClear(p)
  BY <1>1, <1>2, <1>7
  DEF CommitByHand, CommitByUnit, CommitLoad, CommitHealth, CommitClear, Starts
<1>8. CASE CommitFail(p) \/ VerifyFail(p)
  <2>1. /\ [rec[p] EXCEPT !.phase = "failed"].target = rec[p].target
        /\ [rec[p] EXCEPT !.phase = "failed"].phase = "failed"
    BY <1>1, <1>3, <1>4
  <2>2. /\ pc[p] \in {"c_fail", "v_fail"} /\ pc'[p] = "idle"
        /\ state' \in {state, [rec[p] EXCEPT !.phase = "failed"]}
    BY <1>1, <1>8 DEF CommitFail, VerifyFail
  <2> QED  BY <2>1, <2>2
<1>9. CASE \/ RollbackLoad(p) \/ RollbackClear(p) \/ SwitchLoad(p) \/ MarkGoodStart(p)
           \/ MarkGoodClear(p) \/ VerifyLoad(p)
  BY <1>1, <1>2, <1>9
  DEF RollbackLoad, RollbackClear, SwitchLoad, MarkGoodStart, MarkGoodClear, VerifyLoad, Starts
<1>10. CASE \E ok \in BOOLEAN : EngineCall(p, ok)
  BY <1>1, <1>10
  DEF EngineCall, InstallPrepare, InstallSwap, UnwindAbort, UnwindSwap, CommitVerify, CommitGood,
      RollbackAbort, RollbackSwap, SwitchPrepare, SwitchSwap, MarkGoodCall, VerifyCheck
<1> QED  BY <1>5, <1>6, <1>7, <1>8, <1>9, <1>10 DEF EngineStep

LEMMA StepOneUpdate ==
  ASSUME InstallsAlone, FileTypeOK, EngineTypeOK, OneUpdate, NEW p \in Procs,
         EngineStep(p) \/ \E ok \in BOOLEAN : EngineCall(p, ok)
  PROVE  OneUpdate'
<1>1. /\ \A q \in Procs \ {p} : pc[q] \notin AlonePcs
      /\ pc'[p] \in AlonePcs => \A q \in Procs \ {p} : pc[q] = "idle"
  BY StepLone DEF OneUpdate
<1>2. \A q \in Procs \ {p} : pc'[q] = pc[q] /\ rec'[q] = rec[q]
  BY StepsItself
<1>3. Lone'
  BY <1>1, <1>2 DEF Lone
<1>4. \A q \in Procs : Undisturbed(q)'
  BY <1>1, <1>2, StepRecords DEF OneUpdate, Undisturbed, AlonePcs, InstallPcs
<1>5. Agreed'
  <2>1. \/ state' \in {state, NoRec}
        \/ pc[p] \in Working /\ state'.target = rec[p].target
    BY StepRecords DEF OneUpdate
  <2>2. ASSUME NEW q \in Procs \ {p}, pc[q] \in Working
        PROVE  state' # NoRec => state'.target = rec[q].target
    BY <2>1, <2>2 DEF OneUpdate, Agreed
  <2>3. CASE pc'[p] \notin Working
    BY <1>2, <2>2, <2>3 DEF OneUpdate, Agreed
  <2>4. CASE pc'[p] = "i_write" /\ state' = NoRec
    BY <1>1, <1>2, <2>4 DEF Agreed, AlonePcs, InstallPcs, Working, CommitPcs, VerifyPcs
  <2>5. CASE pc[p] \in Working /\ rec'[p].target = rec[p].target
    BY <1>2, <2>1, <2>2, <2>5 DEF OneUpdate, Agreed
  <2>6. CASE rec'[p] = state /\ state' = state /\ state # NoRec
    BY <1>2, <2>2, <2>6 DEF OneUpdate, Agreed
  <2> QED  BY <2>3, <2>4, <2>5, <2>6, StepRecords DEF OneUpdate
<1> QED  BY <1>3, <1>4, <1>5 DEF OneUpdate

\* A kill and a board that goes down leave nobody at work, or nobody new.
LEMMA StopOneUpdate ==
  ASSUME EngineTypeOK, OneUpdate
  PROVE  /\ \A p \in Procs : Done(p) /\ state' = state => OneUpdate'
         /\ GoDown => OneUpdate'
<1> USE DEF EngineTypeOK, OneUpdate, Lone, Agreed, Undisturbed, Working, AlonePcs, InstallPcs,
            CommitPcs, VerifyPcs
<1>1. ASSUME NEW p \in Procs, Done(p), state' = state
      PROVE  OneUpdate'
  BY <1>1 DEF Done, Goto
<1>2. GoDown => OneUpdate'
  BY DEF GoDown
<1> QED  BY <1>1, <1>2
===============================================================================
