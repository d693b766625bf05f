-------------------------- MODULE DeliveryPartsProofs --------------------------
(***************************************************************************)
(* What Delivery is composed of, part by part.  The record: why a save may *)
(* be taken for one atomic step when savers take turns, for any number of  *)
(* processes and inodes (RecordFile implements StateFile; without turns it *)
(* does not, f_shared_tmp.cfg).  The version gate: that it is an order.    *)
(* The format: that pack's read-back takes what pack writes.  The sparse   *)
(* reader: that it writes the image its file stands for, whatever the file *)
(* and whatever its caller asks for.                                       *)
(*                                                                         *)
(* What is joined from many sequences is proved by least counterexamples:  *)
(* a set of numbers that are not as claimed has a least one.               *)
(***************************************************************************)
EXTENDS SlotWriter, Sparse, RecordFile, SequenceTheorems, WellFoundedInduction, TLAPS

---------------------------------------------------------------------------
(* The record's file. *)

\* What readers and power cuts may get to see is a saved document, synced, and no
\* saver's temporary file.
Published ==
    /\ \A i \in {name, keptName} \ {NoInode} : data[i] \in Docs /\ kept[i] = data[i]
    /\ tmp # NoInode => tmp \notin {name, keptName}

\* The temporary file is the one saver's, and holds what his last step left in it.
Private ==
    /\ \A p \in Procs : Saving(p) =>
          /\ saver[p].ino = tmp /\ tmp # NoInode /\ saver[p].doc \in Docs
          /\ saver[p].at = "opened" => data[tmp] = Blank
          /\ saver[p].at \in {"written", "synced"} => data[tmp] = saver[p].doc
          /\ saver[p].at = "synced" => kept[tmp] = data[tmp]
    /\ \A p, q \in Procs : Saving(p) /\ Saving(q) => p = q

RecordInv == RecordTypeOK /\ Published /\ Private

\* What a step may do to the record: StateFile's step, or nothing.
Maps == File!FileNext \/ UNCHANGED <<ReadBack(name, data), ReadBack(keptName, kept)>>

LEMMA InitInv == RecordInit => RecordInv
  BY DEF RecordInit, RecordInv, RecordTypeOK, Published, Private, Contents, Stages, NotSaving,
         Saving, Absent, File!Records, File!NoRec

LEMMA InitMaps == RecordInit => File!FileInit
  BY DEF RecordInit, File!FileInit, File!NoRec, ReadBack, Absent

\* A temporary file is opened anew or emptied; nobody else has it.
LEMMA OpenKeeps ==
  ASSUME TakeTurns, RecordInv, NEW p \in Procs, NEW doc \in Docs, SaveOpen(p, doc)
  PROVE  RecordInv' /\ Maps
<1> USE DEF RecordInv
<1>1. PICK i \in IF tmp = NoInode THEN Free ELSE {tmp} :
         /\ tmp' = i
         /\ data' = [data EXCEPT ![i] = Blank]
         /\ kept' = IF tmp = NoInode THEN [kept EXCEPT ![i] = Blank] ELSE kept
         /\ saver' = [saver EXCEPT ![p] = [at |-> "opened", doc |-> doc, ino |-> i]]
  BY DEF SaveOpen
<1>2. UNCHANGED <<name, keptName>> /\ \A q \in Procs : ~Saving(q)
  BY DEF SaveOpen
<1>3. i \in Inodes /\ i \notin {name, keptName} /\ i # NoInode
  BY <1>1, InodeAssumption DEF Free, Published, RecordTypeOK
<1>4. RecordTypeOK'
  BY <1>1, <1>2, <1>3 DEF RecordTypeOK, Contents, Stages, Docs
<1>5. Published'
  BY <1>1, <1>2, <1>3 DEF RecordTypeOK, Published
<1>6. Private'
  <2>1. \A q \in Procs \ {p} : ~Saving(q)'
    BY <1>1, <1>2 DEF RecordTypeOK, Saving
  <2>2. saver'[p] = [at |-> "opened", doc |-> doc, ino |-> i] /\ data'[i] = Blank
    BY <1>1, <1>3 DEF RecordTypeOK
  <2> QED  BY <1>1, <1>3, <2>1, <2>2 DEF Private, Saving
<1>7. Maps
  BY <1>1, <1>2, <1>3 DEF RecordTypeOK, Maps, ReadBack
<1> QED  BY <1>4, <1>5, <1>6, <1>7

\* The steps between the open and the rename touch the temporary file alone.
LEMMA WriteKeeps ==
  ASSUME RecordInv, NEW p \in Procs, SaveWrite(p)
  PROVE  RecordInv' /\ Maps
<1> USE DEF RecordInv
<1>1. Saving(p) /\ saver[p].ino = tmp /\ tmp \in Inodes /\ tmp \notin {name, keptName}
  BY DEF SaveWrite, Saving, Private, Published, RecordTypeOK
<1>2. data' = [data EXCEPT ![tmp] = saver[p].doc] /\ saver[p].doc \in Docs
  BY <1>1 DEF SaveWrite, Private
<1>3. saver' = [saver EXCEPT ![p].at = "written"] /\ UNCHANGED <<kept, name, keptName, tmp>>
  BY DEF SaveWrite
<1>4. RecordTypeOK'
  BY <1>1, <1>2, <1>3 DEF RecordTypeOK, Contents, Stages
<1>5. Published'
  BY <1>1, <1>2, <1>3 DEF RecordTypeOK, Published
<1>6. Private'
  BY <1>1, <1>2, <1>3 DEF RecordTypeOK, Private, Saving
<1>7. Maps
  BY <1>1, <1>2, <1>3 DEF RecordTypeOK, Maps, ReadBack
<1> QED  BY <1>4, <1>5, <1>6, <1>7

LEMMA SyncKeeps ==
  ASSUME RecordInv, NEW p \in Procs, SaveSync(p)
  PROVE  RecordInv' /\ Maps
<1> USE DEF RecordInv
<1>1. Saving(p) /\ saver[p].ino = tmp /\ tmp \in Inodes /\ tmp \notin {name, keptName}
  BY DEF SaveSync, Saving, Private, Published, RecordTypeOK
<1>2. kept' = [kept EXCEPT ![tmp] = data[tmp]]
  BY <1>1 DEF SaveSync
<1>3. saver' = [saver EXCEPT ![p].at = "synced"] /\ UNCHANGED <<data, name, keptName, tmp>>
  BY DEF SaveSync
<1>4. RecordTypeOK'
  BY <1>1, <1>2, <1>3 DEF RecordTypeOK, Contents, Stages
<1>5. Published'
  BY <1>1, <1>2, <1>3 DEF RecordTypeOK, Published
<1>6. Private'
  BY <1>1, <1>2, <1>3 DEF SaveSync, RecordTypeOK, Private, Saving
<1>7. Maps
  BY <1>1, <1>2, <1>3 DEF RecordTypeOK, Maps, ReadBack
<1> QED  BY <1>4, <1>5, <1>6, <1>7

\* The rename publishes the saver's own document: StateFile's save.
LEMMA RenameKeeps ==
  ASSUME RecordInv, NEW p \in Procs, SaveRename(p)
  PROVE  RecordInv' /\ Maps
<1> USE DEF RecordInv
<1>1. Saving(p) /\ saver[p].at = "synced" /\ tmp \in Inodes
  BY DEF SaveRename, Saving, Private, RecordTypeOK
<1>2. data[tmp] \in Docs /\ kept[tmp] = data[tmp]
  BY <1>1 DEF Private
<1>3. /\ name' = tmp /\ tmp' = NoInode
      /\ saver' = [saver EXCEPT ![p] = NotSaving] /\ UNCHANGED <<data, kept, keptName>>
  BY DEF SaveRename
<1>4. \A q \in Procs : ~Saving(q)'
  BY <1>1, <1>3 DEF RecordTypeOK, Private, Saving, NotSaving
<1>5. RecordTypeOK'
  BY <1>1, <1>3 DEF RecordTypeOK, NotSaving, Stages, Absent, File!Records, File!NoRec
<1>6. Published' /\ Private'
  BY <1>1, <1>2, <1>3, <1>4 DEF Published, Private
<1>7. File!SaveFile(data[tmp]) /\ data[tmp] \in File!Records \ {File!NoRec}
  BY <1>1, <1>2, <1>3, InodeAssumption DEF File!SaveFile, ReadBack, Docs, File!NoRec, Absent
<1> QED  BY <1>5, <1>6, <1>7 DEF Maps, File!FileNext

LEMMA StopsKeeps ==
  ASSUME RecordInv, NEW p \in Procs, SaveStops(p)
  PROVE  RecordInv' /\ Maps
<1> USE DEF RecordInv
<1>1. saver' = [saver EXCEPT ![p] = NotSaving] /\ UNCHANGED <<data, kept, name, keptName, tmp>>
  BY DEF SaveStops
<1>2. RecordTypeOK'
  BY <1>1 DEF RecordTypeOK, NotSaving, Stages, Absent, File!Records, File!NoRec
<1>3. Published'
  BY <1>1 DEF Published
<1>4. Private'
  BY <1>1 DEF RecordTypeOK, Private, Saving, NotSaving
<1> QED  BY <1>1, <1>2, <1>3, <1>4 DEF Maps, ReadBack

\* A clear and a writeback move names; a sync makes the medium what readers see.
LEMMA NamesKeep ==
  ASSUME RecordInv, Clear \/ Writeback \/ (SyncAll /\ UNCHANGED saver)
  PROVE  RecordInv' /\ Maps
<1> USE DEF RecordInv
<1>1. CASE Clear
  <2>1. RecordTypeOK' /\ Published' /\ Private'
    BY <1>1 DEF Clear, RecordTypeOK, Published, Private, Saving
  <2>2. File!ClearFile
    BY <1>1 DEF Clear, File!ClearFile, ReadBack, Absent, File!NoRec
  <2> QED  BY <2>1, <2>2 DEF Maps, File!FileNext
<1>2. CASE Writeback
  <2>1. RecordTypeOK' /\ Published' /\ Private'
    BY <1>2 DEF Writeback, RecordTypeOK, Published, Private, Saving
  <2>2. File!SyncFile
    BY <1>2 DEF Writeback, File!SyncFile, ReadBack, Published
  <2> QED  BY <2>1, <2>2 DEF Maps, File!FileNext
<1>3. CASE SyncAll /\ UNCHANGED saver
  <2>1. RecordTypeOK' /\ Published' /\ Private'
    BY <1>3 DEF SyncAll, RecordTypeOK, Published, Private, Saving
  <2>2. File!SyncFile
    BY <1>3 DEF SyncAll, File!SyncFile, ReadBack
  <2> QED  BY <2>1, <2>2 DEF Maps, File!FileNext
<1> QED  BY <1>1, <1>2, <1>3

\* A power cut takes readers back to the name on the medium, whose file was synced.
LEMMA LoseKeeps ==
  ASSUME RecordInv, LoseUnsynced
  PROVE  RecordInv' /\ Maps
<1> USE DEF RecordInv
<1>1. PICK c \in IF keptName = NoInode THEN {Blank} ELSE Survivors(keptName) :
         data' = [i \in Inodes |-> IF i = keptName THEN c ELSE Blank]
  BY DEF LoseUnsynced
<1>2. /\ name' = keptName /\ tmp' = NoInode /\ kept' = data'
      /\ saver' = [p \in Procs |-> NotSaving] /\ UNCHANGED keptName
  BY DEF LoseUnsynced
<1>3. keptName # NoInode => keptName \in Inodes /\ c = kept[keptName] /\ c \in Docs
  BY <1>1 DEF Published, Survivors, RecordTypeOK
<1>4. RecordTypeOK'
  BY <1>1, <1>2, <1>3, InodeAssumption
     DEF RecordTypeOK, Contents, NotSaving, Stages, Absent, File!Records, File!NoRec
<1>5. Published' /\ Private'
  BY <1>1, <1>2, <1>3 DEF Published, Private, Saving, NotSaving
<1>6. File!LoseFile
  BY <1>1, <1>2, <1>3 DEF File!LoseFile, ReadBack
<1> QED  BY <1>4, <1>5, <1>6 DEF Maps, File!FileNext

LEMMA StepKeeps ==
  ASSUME TakeTurns, RecordInv, [RecordNext]_fileVars
  PROVE  RecordInv' /\ Maps
<1>1. CASE UNCHANGED fileVars
  BY <1>1 DEF fileVars, RecordInv, RecordTypeOK, Published, Private, Saving, Maps, ReadBack
<1>2. CASE RecordNext
  BY <1>2, OpenKeeps, WriteKeeps, SyncKeeps, RenameKeeps, StopsKeeps, NamesKeep, LoseKeeps
     DEF RecordNext
<1> QED  BY <1>1, <1>2

\* "SaveState persists atomically" (engine.go:350) when savers take turns: whatever
\* step they are stopped at and whenever the power goes, a reader finds no record or
\* a whole one that was saved, and the core model's atomic save is implemented.
THEOREM AtomicInTurns ==
  ASSUME TakeTurns
  PROVE  RecordSpec => RecordAtomic
<1>1. RecordInv /\ [RecordNext]_fileVars => RecordInv'
  BY StepKeeps
<1>2. RecordInv /\ [RecordNext]_fileVars
        => [File!FileNext]_<<ReadBack(name, data), ReadBack(keptName, kept)>>
  BY StepKeeps DEF Maps
<1> QED  BY <1>1, <1>2, InitInv, InitMaps, PTL DEF RecordSpec, RecordAtomic, File!FileSpec

---------------------------------------------------------------------------
(* Versions. *)

LEMMA Numbers ==
  ASSUME NEW v \in Seq(Nat), IsVersion(v)
  PROVE  v[1] \in Nat /\ v[2] \in Nat /\ v[3] \in Nat
<1>1. \A i \in 1..Len(v) : v[i] \in Nat
  BY ElementOfSeq
<1> QED  BY <1>1 DEF IsVersion

LEMMA NestedComparisons ==
  ASSUME NEW v, NEW w,
         v[1] \in Nat, v[2] \in Nat, v[3] \in Nat,
         w[1] \in Nat, w[2] \in Nat, w[3] \in Nat
  PROVE  NoOlder(v, w) <=> /\ v[1] >= w[1]
                           /\ v[1] = w[1] => v[2] >= w[2]
                           /\ v[1] = w[1] /\ v[2] = w[2] => v[3] >= w[3]
  BY DEF NoOlder

\* Three numbers compare as three nested comparisons.
LEMMA FirstDifference ==
  ASSUME NEW v \in Seq(Nat), NEW w \in Seq(Nat), IsVersion(v), IsVersion(w)
  PROVE  VersionAtLeast(v, w) <=> NoOlder(v, w)
<1>1. /\ v[1] \in Nat /\ v[2] \in Nat /\ v[3] \in Nat
      /\ w[1] \in Nat /\ w[2] \in Nat /\ w[3] \in Nat
  BY Numbers
<1>2. VersionAtLeast(v, w) <=>
        \A i \in 1..3 : (\A j \in 1..(i - 1) : v[j] = w[j]) => v[i] >= w[i]
  BY DEF VersionAtLeast
<1>3. /\ 1..3 = {1, 2, 3} /\ 1..(1 - 1) = {} /\ 1..(2 - 1) = {1} /\ 1..(3 - 1) = {1, 2}
  OBVIOUS
<1>4. VersionAtLeast(v, w) <=>
        /\ v[1] >= w[1]
        /\ v[1] = w[1] => v[2] >= w[2]
        /\ v[1] = w[1] /\ v[2] = w[2] => v[3] >= w[3]
  BY <1>2, <1>3
<1> QED  BY <1>1, <1>4, NestedComparisons

\* Arithmetic alone.
LEMMA OrderOfNumbers ==
  ASSUME NEW u, NEW v, NEW w,
         u[1] \in Nat, u[2] \in Nat, u[3] \in Nat,
         v[1] \in Nat, v[2] \in Nat, v[3] \in Nat,
         w[1] \in Nat, w[2] \in Nat, w[3] \in Nat
  PROVE  /\ NoOlder(u, v) /\ NoOlder(v, w) => NoOlder(u, w)
         /\ NoOlder(u, v) \/ NoOlder(v, u)
         /\ NoOlder(u, v) /\ NoOlder(v, u) => u[1] = v[1] /\ u[2] = v[2] /\ u[3] = v[3]
  BY DEF NoOlder

\* A device whose tool is replaced by one of at least its version installs every
\* artifact that it installed before (engine.go:408-419).
THEOREM NewerToolInstalls ==
  ASSUME NEW old \in Seq(Nat), NEW new \in Seq(Nat), NEW min \in Seq(Nat), IsVersion(old),
         VersionAtLeast(old, min), VersionAtLeast(new, old)
  PROVE  VersionAtLeast(new, min)
<1>1. IsVersion(new)
  BY DEF VersionAtLeast
<1>2. CASE IsVersion(min)
  <2>1. /\ old[1] \in Nat /\ old[2] \in Nat /\ old[3] \in Nat
        /\ new[1] \in Nat /\ new[2] \in Nat /\ new[3] \in Nat
        /\ min[1] \in Nat /\ min[2] \in Nat /\ min[3] \in Nat
    BY <1>1, <1>2, Numbers
  <2>2. NoOlder(old, min)
    BY <1>2, FirstDifference
  <2>3. NoOlder(new, old)
    BY <1>1, FirstDifference
  <2>4. NoOlder(new, min)
    BY <2>1, <2>2, <2>3, OrderOfNumbers
  <2> QED  BY <1>1, <1>2, <2>4, FirstDifference
<1>3. CASE ~IsVersion(min)
  BY <1>3 DEF VersionAtLeast
<1> QED  BY <1>2, <1>3

\* Of two tools one is at least the other, and both are only when their numbers agree.
THEOREM ToolsCompare ==
  ASSUME NEW v \in Seq(Nat), NEW w \in Seq(Nat), IsVersion(v), IsVersion(w)
  PROVE  /\ VersionAtLeast(v, w) \/ VersionAtLeast(w, v)
         /\ VersionAtLeast(v, w) /\ VersionAtLeast(w, v) =>
              v[1] = w[1] /\ v[2] = w[2] /\ v[3] = w[3]
<1>1. /\ v[1] \in Nat /\ v[2] \in Nat /\ v[3] \in Nat
      /\ w[1] \in Nat /\ w[2] \in Nat /\ w[3] \in Nat
  BY Numbers
<1>2. VersionAtLeast(v, w) <=> NoOlder(v, w)
  BY FirstDifference
<1>3. VersionAtLeast(w, v) <=> NoOlder(w, v)
  BY FirstDifference
<1> QED  BY <1>1, <1>2, <1>3, OrderOfNumbers

---------------------------------------------------------------------------
(* The format: what pack writes, its own read-back takes. *)

\* A compressed stream between its head and its checksum.
LEMMA StreamAround ==
  ASSUME NEW S, NEW s \in Seq(S), NEW d, d = <<"head">> \o s \o <<"check">>
  PROVE  /\ Len(d) = Len(s) + 2 /\ Len(s) \in Nat
         /\ d[1] = "head" /\ d[Len(s) + 2] = "check"
         /\ \A i \in 1..Len(s) : d[i + 1] = s[i]
         /\ SubSeq(d, 2, Len(s) + 1) = s
         /\ DOMAIN d = 1..Len(s) + 2
<1> DEFINE T == S \cup {"head", "check"}
           h == <<"head">>
           t == <<"check">>
           n == Len(s)
<1>1. s \in Seq(T) /\ n \in Nat /\ \A i \in 1..n : s[i] \in T
  <2>1. Len(s) \in Nat /\ s \in [1..Len(s) -> S]
    OBVIOUS
  <2> QED  BY <2>1
<1>2. /\ h \in Seq(T) /\ Len(h) = 1 /\ h[1] = "head"
      /\ t \in Seq(T) /\ Len(t) = 1 /\ t[1] = "check"
  OBVIOUS
<1> HIDE DEF h, t, T
<1> DEFINE a == h \o s
<1>3. /\ a \in Seq(T) /\ Len(a) = n + 1
      /\ \A i \in 1..n + 1 : a[i] = IF i <= 1 THEN h[i] ELSE s[i - 1]
  <2>1. /\ a \in Seq(T) /\ Len(a) = Len(h) + Len(s)
        /\ \A i \in 1..Len(h) + Len(s) : a[i] = IF i <= Len(h) THEN h[i] ELSE s[i - Len(h)]
    BY <1>1, <1>2, ConcatProperties
  <2>2. Len(h) + Len(s) = n + 1
    BY <1>1, <1>2
  <2> HIDE DEF a, n
  <2> QED  BY <1>2, <2>1, <2>2
<1> HIDE DEF a, n
<1>4. /\ a \o t \in Seq(T) /\ Len(a \o t) = n + 2
      /\ \A i \in 1..n + 2 : (a \o t)[i] = IF i <= n + 1 THEN a[i] ELSE t[i - (n + 1)]
  <2>1. /\ a \o t \in Seq(T) /\ Len(a \o t) = Len(a) + Len(t)
        /\ \A i \in 1..Len(a) + Len(t) : (a \o t)[i] = IF i <= Len(a) THEN a[i] ELSE t[i - Len(a)]
    BY <1>2, <1>3, ConcatProperties
  <2>2. Len(a) + Len(t) = n + 2
    BY <1>1, <1>2, <1>3
  <2> QED  BY <1>3, <2>1, <2>2
<1>5. d = a \o t
  BY DEF a, h, t
<1>6. /\ d \in Seq(T) /\ Len(d) = n + 2 /\ DOMAIN d = 1..n + 2
      /\ d[1] = "head" /\ d[n + 2] = "check"
  <2>1. 1 \in 1..n + 2 /\ n + 2 \in 1..n + 2 /\ 1 <= n + 1 /\ ~ (n + 2 <= n + 1)
        /\ (n + 2) - (n + 1) = 1 /\ 1 \in 1..n + 1
    BY <1>1
  <2>2. d \in Seq(T) /\ Len(d) = n + 2
    BY <1>4, <1>5
  <2>3. DOMAIN d = 1..n + 2
    BY <2>2, LenProperties
  <2>4. d[1] = "head" /\ d[n + 2] = "check"
    BY <1>2, <1>3, <1>4, <1>5, <2>1
  <2> QED  BY <2>2, <2>3, <2>4
<1>7. ASSUME NEW i \in 1..n PROVE d[i + 1] = s[i]
  <2>1. /\ i + 1 \in 1..n + 2 /\ i + 1 <= n + 1 /\ i + 1 \in 1..n + 1 /\ ~ (i + 1 <= 1)
        /\ (i + 1) - 1 = i
    BY <1>1
  <2> QED  BY <1>3, <1>4, <1>5, <2>1
<1>8. SubSeq(d, 2, n + 1) = s
  <2> DEFINE c == SubSeq(d, 2, n + 1)
  <2>1. \A i \in 2..n + 1 : d[i] \in T
    <3>1. \A i \in 2..n + 1 : i \in 1..Len(d)
      BY <1>1, <1>6
    <3> QED  BY <1>6, <3>1, ElementOfSeq
  <2>2. c \in Seq(T) /\ Len(c) = n /\ \A i \in 1..n : c[i] = d[i + 1]
    <3>1. n + 1 \in Int /\ 2 <= (n + 1) + 1 /\ (n + 1) - 2 + 1 = n
      BY <1>1
    <3>2. /\ c \in Seq(T) /\ Len(c) = IF 2 <= n + 1 THEN (n + 1) - 2 + 1 ELSE 0
          /\ \A i \in 1..(n + 1) - 2 + 1 : c[i] = d[2 + i - 1]
      BY <1>1, <1>6, <2>1, SubSeqProperties
    <3>3. Len(c) = n
      BY <1>1, <3>2
    <3>4. ASSUME NEW i \in 1..n PROVE c[i] = d[i + 1]
      <4>1. i \in 1..(n + 1) - 2 + 1 /\ 2 + i - 1 = i + 1
        BY <1>1
      <4> HIDE DEF c
      <4> QED  BY <3>2, <4>1
    <3> QED  BY <3>2, <3>3, <3>4
  <2> HIDE DEF c
  <2>3. Len(s) = n
    BY DEF n
  <2>4. \A i \in 1..Len(c) : c[i] = s[i]
    BY <1>7, <2>2
  <2> QED  BY <1>1, <2>2, <2>3, <2>4, SeqEqual DEF c
<1> QED  BY <1>1, <1>6, <1>7, <1>8 DEF n

\* What pack makes of any image, whatever its compression, its own read-back takes, and
\* takes with a signature in front as well; but for an image whose file name leaves the
\* payload no name, or the signature's (writer.go:86-164; pack.go:81-115).
THEOREM PackedReadsBack ==
  ASSUME NEW S, NEW image \in Seq(S), Garble \notin S, image # Unset,
         NEW o, o.compression \in Compressions, o.devices # {},
         NEW payload, payload = PayloadName(o.file, o.compression)
  PROVE  /\ VerifyPacked(Pack(image, o)) <=> payload \notin {<<>>, SignatureName}
         /\ VerifyPacked(Signed(Pack(image, o))) <=> payload \notin {<<>>, SignatureName}
<1> DEFINE good == payload \notin {<<>>, SignatureName}
           a == Pack(image, o)
           b == Signed(a)
           m == a.manifest
           d == Stored(image, o.compression)
<1>1. /\ a.first /\ a.members = <<payload>> /\ a.stored = d
      /\ m.format = 1 /\ m.named /\ m.devices = o.devices /\ m.payload = payload
      /\ m.size = Len(image) /\ m.sha = image /\ m.csha = d /\ m.compression = o.compression
  BY DEF Pack
<1>2. b.first /\ b.members = <<SignatureName>> \o <<payload>> /\ b.stored = d /\ b.manifest = m
  BY <1>1 DEF Signed
<1>3. Plain(d, o.compression) = image /\ Decodes(d, o.compression)
  <2>1. CASE o.compression = "none"
    BY <2>1 DEF Plain, Decodes, Stored
  <2>2. CASE o.compression # "none"
    <3> DEFINE n == Len(image)
    <3>1. d = <<"head">> \o image \o <<"check">>
      BY <2>2 DEF Stored
    <3> HIDE DEF d
    <3>2. /\ Len(d) = n + 2 /\ n \in Nat /\ d[1] = "head" /\ d[n + 2] = "check"
          /\ \A i \in 1..n : d[i + 1] = image[i]
          /\ SubSeq(d, 2, n + 1) = image /\ DOMAIN d = 1..n + 2
      BY <3>1, StreamAround
    <3> HIDE DEF n
    <3>3. Plain(d, o.compression) = image
      BY <2>2, <3>2 DEF Plain
    <3>4. Len(d) >= 2 /\ d[1] = "head" /\ Last(d) = "check"
      BY <3>2 DEF Last
    <3>5. ASSUME NEW i \in 1..n + 2 PROVE d[i] # Garble
      <4>1. i = 1 \/ i = n + 2 \/ (i - 1 \in 1..n /\ (i - 1) + 1 = i)
        BY <3>2
      <4>2. \A j \in 1..n : image[j] \in S
        BY ElementOfSeq DEF n
      <4> QED  BY <3>2, <4>1, <4>2 DEF Garble
    <3>6. Garble \notin Range(d)
      BY <3>2, <3>5 DEF Range
    <3> QED  BY <3>3, <3>4, <3>6 DEF Decodes
  <2> QED  BY <2>1, <2>2
<1> HIDE DEF a, b, m, d, good
<1>4. Validate(m) <=> payload # <<>>
  BY <1>1 DEF Validate
<1>5. FindsPayload(m, <<payload>>) <=> payload # SignatureName
  <2>1. DOMAIN <<payload>> = {1} /\ <<payload>>[1] = payload
    OBVIOUS
  <2>2. \A j \in 1..(1 - 1) : FALSE
    OBVIOUS
  <2> QED  BY <1>1, <2>1, <2>2 DEF FindsPayload
<1>6. FindsPayload(m, <<SignatureName>> \o <<payload>>) <=> payload # SignatureName
  <2> DEFINE t == <<SignatureName>> \o <<payload>>
  <2>1. DOMAIN t = 1..2 /\ t[1] = SignatureName /\ t[2] = payload
    OBVIOUS
  <2> HIDE DEF t
  <2>2. \A j \in 1..(2 - 1) : j = 1
    OBVIOUS
  <2>3. 2 \in 1..2
    OBVIOUS
  <2> QED  BY <1>1, <2>1, <2>2, <2>3 DEF FindsPayload, t
<1>7. VerifyPayloadDigests(m, image, d) /\ Len(image) = m.size
  BY <1>1 DEF VerifyPayloadDigests
<1>8. VerifyPacked(a) <=> good
  BY <1>1, <1>3, <1>4, <1>5, <1>7 DEF VerifyPacked, m, good
<1>9. VerifyPacked(b) <=> good
  <2>1. b.manifest = m /\ Plain(b.stored, m.compression) = image /\ Decodes(b.stored, m.compression)
    BY <1>1, <1>2, <1>3
  <2>2. FindsPayload(m, b.members) <=> payload # SignatureName
    BY <1>2, <1>6
  <2>3. b.first /\ VerifyPayloadDigests(m, image, b.stored)
    BY <1>1, <1>2, <1>7
  <2> HIDE DEF b, good
  <2> QED  BY <1>4, <1>7, <2>1, <2>2, <2>3 DEF VerifyPacked, good
<1> QED  BY <1>8, <1>9 DEF a, b, good

---------------------------------------------------------------------------
(* Induction, for one set at a time. *)

LEMMA Least ==
  ASSUME NEW T \in SUBSET Nat, T # {}
  PROVE  \E x \in T : \A y \in T : y >= x
<1> DEFINE R == {ss \in Nat \X Nat : ss[1] < ss[2]}
<1>1. IsWellFoundedOn(R, Nat)
  BY NatLessThanWellFounded DEF OpToRel
<1>2. \A y, x \in Nat : y < x => <<y, x>> \in R
  OBVIOUS
<1>3. PICK x \in T : \A y \in T : ~ (<<y, x>> \in R)
  <2> HIDE DEF R
  <2> QED  BY <1>1, WFMin
<1>4. \A y \in T : ~ (y < x)
  <2> HIDE DEF R
  <2> QED  BY <1>2, <1>3
<1> QED  BY <1>4

LEMMA Induction ==
  ASSUME NEW n \in Nat, NEW T, 0 \in T, \A k \in 0..n - 1 : k \in T => k + 1 \in T
  PROVE  0..n \subseteq T
<1> DEFINE Bad == 0..n \ T
<1>1. SUFFICES ASSUME Bad # {} PROVE FALSE
  OBVIOUS
<1>2. PICK k \in Bad : \A y \in Bad : y >= k
  <2>1. Bad \in SUBSET Nat
    OBVIOUS
  <2> HIDE DEF Bad
  <2> QED  BY <2>1, <1>1, Least
<1>3. k \in 0..n /\ k # 0 /\ k \notin T
  BY <1>2
<1>4. k - 1 \in 0..n - 1 /\ k - 1 \in T /\ (k - 1) + 1 = k
  BY <1>2, <1>3
<1> QED  BY <1>3, <1>4

---------------------------------------------------------------------------
(* Joining sequences, from the right. *)

\* Concatenation by its laws alone.
Cat(s, t) == s \o t

LEMMA CatType ==
  ASSUME NEW S, NEW s \in Seq(S), NEW t \in Seq(S)
  PROVE  Cat(s, t) \in Seq(S) /\ Len(Cat(s, t)) = Len(s) + Len(t)
  BY ConcatProperties DEF Cat

LEMMA CatAssociates ==
  ASSUME NEW S, NEW s \in Seq(S), NEW t \in Seq(S), NEW u \in Seq(S)
  PROVE  Cat(Cat(s, t), u) = Cat(s, Cat(t, u))
  BY ConcatAssociative, SMTT(60) DEF Cat

LEMMA CatNothing ==
  ASSUME NEW S, NEW s \in Seq(S)
  PROVE  Cat(s, <<>>) = s /\ Cat(<<>>, s) = s
  BY ConcatEmptySeq DEF Cat

\* Joins(seqs)[i] joins the sequences from the i-th on.
Joins(seqs) ==
    LET from[i \in 1..Len(seqs) + 1] ==
            IF i > Len(seqs) THEN <<>> ELSE seqs[i] \o from[i + 1]
    IN  from

LEMMA JoinsUnroll ==
  ASSUME NEW s, NEW n \in Nat, Len(s) = n
  PROVE  Joins(s) = [i \in 1..n + 1 |-> IF i > n THEN <<>> ELSE s[i] \o Joins(s)[i + 1]]
<1> DEFINE Good(g, m) == g = [i \in m..n + 1 |-> IF i > n THEN <<>> ELSE s[i] \o g[i + 1]]
           T == {k \in 0..n : \E g : Good(g, n + 1 - k)}
<1>1. 0 \in T
  <2> DEFINE g0 == [i \in n + 1..n + 1 |-> <<>>]
  <2>1. g0 = [i \in n + 1..n + 1 |-> IF i > n THEN <<>> ELSE s[i] \o g0[i + 1]]
    <3>1. \A i \in n + 1..n + 1 : i > n
      OBVIOUS
    <3> QED  BY <3>1
  <2>2. \E g : Good(g, n + 1)
    BY <2>1
  <2>3. n + 1 - 0 = n + 1 /\ 0 \in 0..n
    OBVIOUS
  <2> HIDE DEF Good
  <2> QED  BY <2>2, <2>3
<1>2. ASSUME NEW k \in 0..n - 1, k \in T
      PROVE  k + 1 \in T
  <2> DEFINE m == n + 1 - k
  <2>1. PICK g : Good(g, m)
    <3> HIDE DEF Good
    <3> QED  BY <1>2
  <2>2. /\ m \in 2..n + 1 /\ n + 1 - (k + 1) = m - 1 /\ m - 1 \in m - 1..n + 1
        /\ (m - 1) + 1 = m /\ m \in m..n + 1 /\ ~ (m - 1 > n) /\ k + 1 \in 0..n
    OBVIOUS
  <2> HIDE DEF m
  <2> DEFINE h == [i \in m - 1..n + 1 |-> IF i = m - 1 THEN s[i] \o g[m] ELSE g[i]]
  <2>3. \A i \in m..n + 1 : g[i] = IF i > n THEN <<>> ELSE s[i] \o g[i + 1]
    BY <2>1
  <2>4. \A i \in m..n + 1 : h[i] = g[i]
    BY <2>2
  <2>5. h[m - 1] = s[m - 1] \o g[m]
    BY <2>2, Zenon
  <2>6. \A i \in m - 1..n + 1 : h[i] = IF i > n THEN <<>> ELSE s[i] \o h[i + 1]
    <3> SUFFICES ASSUME NEW i \in m - 1..n + 1
                 PROVE  h[i] = IF i > n THEN <<>> ELSE s[i] \o h[i + 1]
      OBVIOUS
    <3> DEFINE Fits == h[i] = IF i > n THEN <<>> ELSE s[i] \o h[i + 1]
    <3> HIDE DEF h
    <3>1. CASE i = m - 1
      BY <3>1, <2>2, <2>4, <2>5
    <3>2. CASE i # m - 1 /\ i > n
      BY <3>2, <2>2, <2>3, <2>4
    <3>3. CASE i # m - 1 /\ i <= n
      <4>1. i \in m..n + 1 /\ i + 1 \in m..n + 1 /\ ~ (i > n)
        BY <3>3, <2>2
      <4> QED  BY <4>1, <2>3, <2>4
    <3>4. i > n \/ i <= n
      BY <2>2
    <3> HIDE DEF Fits
    <3> QED  BY <3>1, <3>2, <3>3, <3>4 DEF Fits
  <2>7. \E gg : Good(gg, m - 1)
    <3>1. h = [i \in m - 1..n + 1 |-> h[i]]
      OBVIOUS
    <3> HIDE DEF h
    <3>2. h = [i \in m - 1..n + 1 |-> IF i > n THEN <<>> ELSE s[i] \o h[i + 1]]
      BY <2>6, <3>1
    <3> QED  BY <3>2
  <2> HIDE DEF Good
  <2>8. \E gg : Good(gg, n + 1 - (k + 1))
    <3>1. n + 1 - (k + 1) = m - 1
      BY <2>2
    <3> QED  BY <2>7, <3>1, Zenon
  <2>9. k + 1 \in 0..n
    BY <2>2
  <2> QED  BY <2>8, <2>9, Zenon
<1>3. \E g : Good(g, 1)
  <2>1. 0..n \subseteq T
    <3> HIDE DEF T
    <3> QED  BY <1>1, <1>2, Induction
  <2> HIDE DEF Good
  <2>2. n + 1 - n = 1 /\ n \in 0..n
    OBVIOUS
  <2> QED  BY <2>1, <2>2
<1>4. \E g : g = [i \in 1..n + 1 |-> IF i > n THEN <<>> ELSE s[i] \o g[i + 1]]
  BY <1>3
<1>5. Joins(s) = CHOOSE g : g = [i \in 1..n + 1 |-> IF i > n THEN <<>> ELSE s[i] \o g[i + 1]]
  BY Zenon DEF Joins
<1> QED  BY <1>4, <1>5, Zenon

LEMMA JoinsType ==
  ASSUME NEW S, NEW s \in Seq(Seq(S))
  PROVE  /\ \A i \in 1..Len(s) + 1 : Joins(s)[i] \in Seq(S)
         /\ Joins(s)[Len(s) + 1] = <<>>
         /\ \A i \in 1..Len(s) : Joins(s)[i] = Cat(s[i], Joins(s)[i + 1])
<1> DEFINE n == Len(s)
           T == {k \in 0..n : Joins(s)[n + 1 - k] \in Seq(S)}
<1>1. n \in Nat /\ \A i \in 1..n : s[i] \in Seq(S)
  BY LenProperties, ElementOfSeq
<1> HIDE DEF n
<1>2. Joins(s) = [i \in 1..n + 1 |-> IF i > n THEN <<>> ELSE s[i] \o Joins(s)[i + 1]]
  BY <1>1, JoinsUnroll DEF n
<1>3. Joins(s)[n + 1] = <<>>
  BY <1>1, <1>2
<1>4. ASSUME NEW i \in 1..n
      PROVE  Joins(s)[i] = Cat(s[i], Joins(s)[i + 1])
  <2>1. i \in 1..n + 1 /\ ~ (i > n)
    BY <1>1
  <2> QED  BY <1>2, <2>1, Zenon DEF Cat
<1>5. 0 \in T
  <2>1. 0 \in 0..n /\ n + 1 - 0 = n + 1
    BY <1>1
  <2>2. <<>> \in Seq(S)
    BY EmptySeq
  <2> QED  BY <1>3, <2>1, <2>2
<1>6. ASSUME NEW k \in 0..n - 1, k \in T
      PROVE  k + 1 \in T
  <2>1. /\ n + 1 - (k + 1) \in 1..n /\ (n + 1 - (k + 1)) + 1 = n + 1 - k /\ k + 1 \in 0..n
    BY <1>1
  <2>2. Joins(s)[n + 1 - (k + 1)] = Cat(s[n + 1 - (k + 1)], Joins(s)[n + 1 - k])
    BY <2>1, <1>4
  <2>3. s[n + 1 - (k + 1)] \in Seq(S) /\ Joins(s)[n + 1 - k] \in Seq(S)
    BY <1>6, <1>1, <2>1
  <2>4. Joins(s)[n + 1 - (k + 1)] \in Seq(S)
    BY <2>2, <2>3, CatType, Zenon
  <2> QED  BY <2>1, <2>4
<1>7. 0..n \subseteq T
  <2> HIDE DEF T
  <2> QED  BY <1>1, <1>5, <1>6, Induction
<1>8. ASSUME NEW i \in 1..n + 1
      PROVE  Joins(s)[i] \in Seq(S)
  <2>1. n + 1 - i \in 0..n /\ n + 1 - (n + 1 - i) = i
    BY <1>1
  <2> QED  BY <1>7, <2>1
<1> QED  BY <1>3, <1>4, <1>8 DEF n

\* FlattenSeq joins from the left; there is such a function for it to choose.
LEMMA FlattenUnroll ==
  ASSUME NEW s, NEW n \in Nat \ {0}, Len(s) = n
  PROVE  \E f : /\ f = [i \in 1..n |-> IF i = 1 THEN s[i] ELSE f[i - 1] \o s[i]]
                /\ FlattenSeq(s) = f[n]
<1> DEFINE Good(g, m) == g = [i \in 1..m |-> IF i = 1 THEN s[i] ELSE g[i - 1] \o s[i]]
           T == {k \in 0..n - 1 : \E g : Good(g, k + 1)}
<1>1. 0 \in T
  <2> DEFINE g0 == [i \in 1..1 |-> s[i]]
  <2>1. Good(g0, 1)
    OBVIOUS
  <2>2. 0 \in 0..n - 1 /\ 0 + 1 = 1
    OBVIOUS
  <2> HIDE DEF Good
  <2> QED  BY <2>1, <2>2
<1>2. ASSUME NEW k \in 0..(n - 1) - 1, k \in T
      PROVE  k + 1 \in T
  <2> DEFINE m == k + 1
  <2>1. PICK g : Good(g, m)
    <3> HIDE DEF Good
    <3> QED  BY <1>2
  <2>2. m \in 1..n - 1 /\ m + 1 \in 1..m + 1
    OBVIOUS
  <2> HIDE DEF m
  <2> DEFINE h == [i \in 1..m + 1 |-> IF i = m + 1 THEN g[m] \o s[i] ELSE g[i]]
  <2>3. \A i \in 1..m : g[i] = IF i = 1 THEN s[i] ELSE g[i - 1] \o s[i]
    BY <2>1
  <2>4. \A i \in 1..m : h[i] = g[i]
    BY <2>2
  <2>5. h[m + 1] = g[m] \o s[m + 1]
    BY <2>2, Zenon
  <2>6. \A i \in 1..m + 1 : h[i] = IF i = 1 THEN s[i] ELSE h[i - 1] \o s[i]
    <3> SUFFICES ASSUME NEW i \in 1..m + 1
                 PROVE  h[i] = IF i = 1 THEN s[i] ELSE h[i - 1] \o s[i]
      OBVIOUS
    <3> HIDE DEF h
    <3>1. CASE i = m + 1
      <4>1. i # 1 /\ i - 1 = m /\ m \in 1..m
        BY <3>1, <2>2
      <4> QED  BY <4>1, <3>1, <2>4, <2>5
    <3>2. CASE i # m + 1 /\ i = 1
      BY <3>2, <2>2, <2>3, <2>4
    <3>3. CASE i # m + 1 /\ i # 1
      <4>1. i \in 1..m /\ i - 1 \in 1..m
        BY <3>3, <2>2
      <4> QED  BY <4>1, <3>3, <2>3, <2>4
    <3> QED  BY <3>1, <3>2, <3>3
  <2>7. \E gg : Good(gg, m + 1)
    <3>1. h = [i \in 1..m + 1 |-> h[i]]
      OBVIOUS
    <3> HIDE DEF h
    <3>2. Good(h, m + 1)
      BY <2>6, <3>1
    <3> QED  BY <3>2
  <2> HIDE DEF Good
  <2>8. k + 1 \in 0..n - 1
    OBVIOUS
  <2> QED  BY <2>7, <2>8 DEF m
<1>3. \E g : Good(g, n)
  <2>1. 0..n - 1 \subseteq T
    <3> HIDE DEF T
    <3> QED  BY <1>1, <1>2, Induction
  <2> HIDE DEF Good
  <2>2. (n - 1) + 1 = n /\ n - 1 \in 0..n - 1
    OBVIOUS
  <2> QED  BY <2>1, <2>2
<1> DEFINE F == CHOOSE f : f = [i \in 1..n |-> IF i = 1 THEN s[i] ELSE f[i - 1] \o s[i]]
<1>4. F = [i \in 1..n |-> IF i = 1 THEN s[i] ELSE F[i - 1] \o s[i]]
  BY <1>3, Zenon
<1>5. FlattenSeq(s) = F[n]
  BY Zenon DEF FlattenSeq
<1> QED  BY <1>4, <1>5, Zenon

\* Joined from either side they are the same.
LEMMA FlattenIsJoins ==
  ASSUME NEW S, NEW s \in Seq(Seq(S))
  PROVE  FlattenSeq(s) = Joins(s)[1]
<1> DEFINE n == Len(s)
<1>1. n \in Nat /\ \A i \in 1..n : s[i] \in Seq(S)
  BY LenProperties, ElementOfSeq
<1>2. CASE n = 0
  <2>1. s = <<>> /\ FlattenSeq(s) = s
    BY <1>2, EmptySeq DEF FlattenSeq
  <2>2. Joins(s)[n + 1] = <<>>
    BY JoinsType
  <2>3. n + 1 = 1
    BY <1>2
  <2> QED  BY <2>1, <2>2, <2>3
<1>3. CASE n # 0
  <2>1. PICK f : /\ f = [i \in 1..n |-> IF i = 1 THEN s[i] ELSE f[i - 1] \o s[i]]
                 /\ FlattenSeq(s) = f[n]
    BY <1>1, <1>3, FlattenUnroll
  <2>2. /\ \A i \in 1..n + 1 : Joins(s)[i] \in Seq(S)
        /\ Joins(s)[n + 1] = <<>>
        /\ \A i \in 1..n : Joins(s)[i] = Cat(s[i], Joins(s)[i + 1])
    BY JoinsType
  <2> HIDE DEF n
  <2>3. f[1] = s[1] /\ \A i \in 1..n - 1 : f[i + 1] = Cat(f[i], s[i + 1])
    <3>1. f[1] = s[1]
      BY <1>1, <1>3, <2>1
    <3>2. ASSUME NEW i \in 1..n - 1
          PROVE  f[i + 1] = Cat(f[i], s[i + 1])
      <4>1. i + 1 \in 1..n /\ i + 1 # 1 /\ (i + 1) - 1 = i
        BY <1>1
      <4> QED  BY <2>1, <4>1 DEF Cat
    <3> QED  BY <3>1, <3>2
  <2> DEFINE T == {k \in 0..n - 1 : f[k + 1] \in Seq(S) /\ Cat(f[k + 1], Joins(s)[k + 2]) = Joins(s)[1]}
  <2>4. 0 \in T
    <3>1. 0 \in 0..n - 1 /\ 1 \in 1..n /\ 0 + 1 = 1 /\ 0 + 2 = 2 /\ 1 + 1 = 2
      BY <1>1, <1>3
    <3> QED  BY <1>1, <2>2, <2>3, <3>1
  <2>5. ASSUME NEW k \in 0..(n - 1) - 1, k \in T
        PROVE  k + 1 \in T
    <3>1. /\ k + 1 \in 1..n - 1 /\ k + 1 \in 0..n - 1 /\ k + 2 \in 1..n /\ k + 3 \in 1..n + 1
          /\ (k + 1) + 1 = k + 2 /\ (k + 1) + 2 = k + 3 /\ (k + 2) + 1 = k + 3
      BY <1>1
    <3>2. f[k + 2] = Cat(f[k + 1], s[k + 2]) /\ Joins(s)[k + 2] = Cat(s[k + 2], Joins(s)[k + 3])
      BY <2>2, <2>3, <3>1
    <3>3. f[k + 1] \in Seq(S) /\ s[k + 2] \in Seq(S) /\ Joins(s)[k + 3] \in Seq(S)
      BY <1>1, <2>2, <2>5, <3>1
    <3>4. Cat(Cat(f[k + 1], s[k + 2]), Joins(s)[k + 3]) = Cat(f[k + 1], Cat(s[k + 2], Joins(s)[k + 3]))
      BY <3>3, CatAssociates
    <3>5. f[k + 2] \in Seq(S)
      BY <3>2, <3>3, CatType
    <3> QED  BY <2>5, <3>1, <3>2, <3>4, <3>5
  <2>6. 0..n - 1 \subseteq T
    <3>1. n - 1 \in Nat
      BY <1>1, <1>3
    <3> HIDE DEF T
    <3> QED  BY <2>4, <2>5, <3>1, Induction
  <2>7. n - 1 \in 0..n - 1 /\ (n - 1) + 1 = n /\ (n - 1) + 2 = n + 1
    BY <1>1, <1>3
  <2>8. f[n] \in Seq(S) /\ Cat(f[n], <<>>) = Joins(s)[1]
    BY <2>2, <2>6, <2>7
  <2> QED  BY <2>1, <2>8, CatNothing
<1> QED  BY <1>2, <1>3

---------------------------------------------------------------------------
(* Reading on. *)

\* The last r of a sequence.
Final(e, r) == SubSeq(e, Len(e) - r + 1, Len(e))

\* What n more of them are.
Piece(e, r, n) == SubSeq(e, Len(e) - r + 1, Len(e) - r + n)

LEMMA FinalSplits ==
  ASSUME NEW S, NEW e \in Seq(S), NEW r \in 0..Len(e), NEW n \in 0..r
  PROVE  /\ Final(e, r) \in Seq(S) /\ Len(Final(e, r)) = r
         /\ Piece(e, r, n) \in Seq(S) /\ Len(Piece(e, r, n)) = n
         /\ \A i \in 1..n : Piece(e, r, n)[i] = e[Len(e) - r + i]
         /\ Final(e, r) = Cat(Piece(e, r, n), Final(e, r - n))
<1> DEFINE l == Len(e)
<1>1. l \in Nat /\ \A i \in 1..l : e[i] \in S
  BY LenProperties, ElementOfSeq
<1>2. /\ r \in 0..l /\ l - r + 1 \in 1..l + 1 /\ l - r + n \in (l - r + 1) - 1..l /\ l \in l - r + n..l
      /\ (l - r + n) + 1 = l - (r - n) + 1
  BY <1>1
<1>3. Final(e, r) \in Seq(S) /\ Len(Final(e, r)) = r
  <2>1. \A i \in l - r + 1..l : e[i] \in S
    BY <1>1, <1>2
  <2>2. /\ SubSeq(e, l - r + 1, l) \in Seq(S)
        /\ Len(SubSeq(e, l - r + 1, l)) = IF l - r + 1 <= l THEN l - (l - r + 1) + 1 ELSE 0
    BY <1>1, <1>2, <2>1, SubSeqProperties
  <2>3. (IF l - r + 1 <= l THEN l - (l - r + 1) + 1 ELSE 0) = r
    BY <1>1, <1>2
  <2> QED  BY <2>2, <2>3 DEF Final
<1>4. /\ Piece(e, r, n) \in Seq(S) /\ Len(Piece(e, r, n)) = n
      /\ \A i \in 1..n : Piece(e, r, n)[i] = e[l - r + i]
  <2>1. \A i \in l - r + 1..l - r + n : e[i] \in S
    BY <1>1, <1>2
  <2>2. /\ SubSeq(e, l - r + 1, l - r + n) \in Seq(S)
        /\ Len(SubSeq(e, l - r + 1, l - r + n)) =
             IF l - r + 1 <= l - r + n THEN l - r + n - (l - r + 1) + 1 ELSE 0
        /\ \A i \in 1..l - r + n - (l - r + 1) + 1 :
             SubSeq(e, l - r + 1, l - r + n)[i] = e[(l - r + 1) + i - 1]
    BY <1>1, <1>2, <2>1, SubSeqProperties
  <2>3. /\ (IF l - r + 1 <= l - r + n THEN l - r + n - (l - r + 1) + 1 ELSE 0) = n
        /\ l - r + n - (l - r + 1) + 1 = n
        /\ \A i \in 1..n : (l - r + 1) + i - 1 = l - r + i
    BY <1>1, <1>2
  <2> QED  BY <2>2, <2>3, Zenon DEF Piece
<1>5. SubSeq(e, l - r + 1, l - r + n) \o SubSeq(e, (l - r + n) + 1, l) = SubSeq(e, l - r + 1, l)
  BY <1>1, <1>2, ConcatAdjacentSubSeq
<1> QED  BY <1>2, <1>3, <1>4, <1>5, Zenon DEF Final, Piece, Cat

LEMMA FinalEnds ==
  ASSUME NEW S, NEW e \in Seq(S)
  PROVE  Final(e, 0) = <<>> /\ Final(e, Len(e)) = e
<1>1. Len(e) \in Nat
  BY LenProperties
<1>2. Final(e, 0) = <<>>
  BY <1>1, SubSeqEmpty DEF Final
<1>3. Final(e, Len(e)) = SubSeq(e, 1, Len(e))
  BY <1>1 DEF Final
<1> QED  BY <1>2, <1>3, SubSeqFull

\* What is read, and what is left to read.
LEMMA TakeAndLeave ==
  ASSUME NEW S, NEW s \in Seq(S), NEW t \in Seq(S)
  PROVE  /\ SubSeq(Cat(s, t), 1, Len(s)) = s
         /\ SubSeq(Cat(s, t), Len(s) + 1, Len(Cat(s, t))) = t
         /\ s # <<>> => Cat(s, t) # <<>> /\ Cat(s, t)[1] = s[1]
<1> DEFINE c == Cat(s, t)
<1>1. /\ c \in Seq(S) /\ Len(c) = Len(s) + Len(t) /\ Len(s) \in Nat /\ Len(t) \in Nat
      /\ \A i \in 1..Len(s) + Len(t) : c[i] = IF i <= Len(s) THEN s[i] ELSE t[i - Len(s)]
  BY ConcatProperties, LenProperties DEF Cat
<1> HIDE DEF c
<1>2. \A i \in 1..Len(c) : c[i] \in S
  BY <1>1, ElementOfSeq
<1>3. SubSeq(c, 1, Len(s)) = s
  <2> DEFINE d == SubSeq(c, 1, Len(s))
  <2>1. d \in Seq(S) /\ Len(d) = Len(s) /\ \A i \in 1..Len(s) : d[i] = c[i]
    <3>1. \A i \in 1..Len(s) : c[i] \in S
      BY <1>1, <1>2
    <3> QED  BY <1>1, <3>1, SubSeqProperties
  <2> HIDE DEF d
  <2>2. \A i \in 1..Len(d) : d[i] = s[i]
    BY <1>1, <2>1
  <2> QED  BY <2>1, <2>2, SeqEqual DEF d
<1>4. SubSeq(c, Len(s) + 1, Len(c)) = t
  <2> DEFINE d == SubSeq(c, Len(s) + 1, Len(c))
  <2>1. d \in Seq(S) /\ Len(d) = Len(t) /\ \A i \in 1..Len(t) : d[i] = c[Len(s) + i]
    <3>1. \A i \in Len(s) + 1..Len(c) : c[i] \in S
      BY <1>1, <1>2
    <3> QED  BY <1>1, <3>1, SubSeqProperties
  <2> HIDE DEF d
  <2>2. ASSUME NEW i \in 1..Len(d)
        PROVE  d[i] = t[i]
    <3>1. /\ i \in 1..Len(t) /\ Len(s) + i \in 1..Len(s) + Len(t) /\ ~ (Len(s) + i <= Len(s))
          /\ (Len(s) + i) - Len(s) = i
      BY <1>1, <2>1
    <3> QED  BY <1>1, <2>1, <3>1
  <2> QED  BY <2>1, <2>2, SeqEqual DEF d
<1>5. s # <<>> => c # <<>> /\ c[1] = s[1]
  BY <1>1, EmptySeq
<1> QED  BY <1>3, <1>4, <1>5 DEF c

LEMMA Regroup ==
  ASSUME NEW S, NEW o \in Seq(S), NEW p \in Seq(S), NEW q \in Seq(S), NEW x \in Seq(S)
  PROVE  Cat(Cat(o, p), Cat(q, x)) = Cat(o, Cat(Cat(p, q), x))
<1>1. Cat(q, x) \in Seq(S)
  BY CatType
<1> QED  BY <1>1, CatAssociates

\* A Read of m of the last r units.
LEMMA ReadsOn ==
  ASSUME NEW S, NEW e \in Seq(S), NEW x \in Seq(S), NEW o \in Seq(S), NEW r \in 0..Len(e), NEW m \in 0..r,
         NEW p, p = Piece(e, r, m), NEW q, q = Final(e, r - m)
  PROVE  q \in Seq(S) /\ Cat(o, p) \in Seq(S) /\ Cat(Cat(o, p), Cat(q, x)) = Cat(o, Cat(Final(e, r), x))
<1>1. p \in Seq(S) /\ Final(e, r) = Cat(p, q)
  BY FinalSplits
<1>2. q \in Seq(S)
  <2>1. Len(e) \in Nat
    BY LenProperties
  <2>2. r - m \in 0..Len(e) /\ 0 \in 0..r - m
    BY <2>1
  <2> QED  BY <2>2, FinalSplits
<1>3. Cat(o, p) \in Seq(S)
  BY <1>1, CatType
<1>5. Cat(Cat(o, p), Cat(q, x)) = Cat(o, Cat(Cat(p, q), x))
  BY <1>1, <1>2, Regroup
<1>4. Cat(Cat(o, p), Cat(q, x)) = Cat(o, Cat(Final(e, r), x))
  BY <1>1, <1>5
<1> QED  BY <1>2, <1>3, <1>4

\* A file that has p in front and w behind it: what is taken from it, and what is left.
Opens(f, p, w) ==
    /\ Len(f) = Len(p) + Len(w)
    /\ Len(p) # 0 => f # <<>>
    /\ Len(p) # 0 => f[1] = p[1]
    /\ SubSeq(f, 1, Len(p)) = p
    /\ SubSeq(f, Len(p) + 1, Len(f)) = w

LEMMA FrontTaken ==
  ASSUME NEW S, NEW p \in Seq(S), NEW w \in Seq(S)
  PROVE  Opens(Cat(p, w), p, w)
<1>1. /\ SubSeq(Cat(p, w), 1, Len(p)) = p /\ SubSeq(Cat(p, w), Len(p) + 1, Len(Cat(p, w))) = w
      /\ p # <<>> => Cat(p, w) # <<>> /\ Cat(p, w)[1] = p[1]
  BY TakeAndLeave
<1>2. Len(Cat(p, w)) = Len(p) + Len(w)
  BY CatType
<1>3. Len(p) # 0 => p # <<>>
  BY EmptySeq
<1> QED  BY <1>1, <1>2, <1>3 DEF Opens

\* The same of a whole file.
LEMMA SplitsAt ==
  ASSUME NEW S, NEW s \in Seq(S), NEW m \in 0..Len(s)
  PROVE  LET p == SubSeq(s, 1, m)  q == SubSeq(s, m + 1, Len(s)) IN
         p \in Seq(S) /\ q \in Seq(S) /\ Len(q) = Len(s) - m /\ s = Cat(p, q)
<1> DEFINE l == Len(s)
<1>1. l \in Nat
  BY LenProperties
<1>2. /\ l \in 0..l /\ m \in 0..l /\ l - l + 1 = 1 /\ l - l + m = m
      /\ l - (l - m) + 1 = m + 1 /\ l - m \in 0..l /\ 0 \in 0..l - m
  BY <1>1
<1>3. ASSUME NEW r \in 0..Len(s), NEW i \in 0..r
      PROVE  /\ Final(s, r) \in Seq(S) /\ Len(Final(s, r)) = r /\ Piece(s, r, i) \in Seq(S)
             /\ Final(s, r) = Cat(Piece(s, r, i), Final(s, r - i))
  BY FinalSplits
<1>4. /\ Final(s, l - m) \in Seq(S) /\ Len(Final(s, l - m)) = l - m /\ Piece(s, l, m) \in Seq(S)
      /\ Final(s, l) = Cat(Piece(s, l, m), Final(s, l - m))
  BY <1>2, <1>3
<1>5. Final(s, l) = s
  BY FinalEnds
<1>6. Piece(s, l, m) = SubSeq(s, 1, m) /\ Final(s, l - m) = SubSeq(s, m + 1, l)
  BY <1>2 DEF Piece, Final
<1> HIDE DEF l
<1> QED  BY <1>4, <1>5, <1>6 DEF l

\* A position counted modulo p goes on where it was.
LEMMA GoesOn ==
  ASSUME NEW p \in Nat \ {0}, NEW a \in Nat, NEW b \in Nat
  PROVE  ((a % p) + b) % p = (a + b) % p
<1> DEFINE u == (a % p) + b
           k == (u \div p) + (a \div p) - ((a + b) \div p)
           d == ((a + b) % p) - (u % p)
<1>1. a % p \in 0..p - 1 /\ a = p * (a \div p) + (a % p) /\ a \div p \in Int
  OBVIOUS
<1>2. u \in Nat /\ u = (a % p) + b
  BY <1>1
<1> HIDE DEF u
<1>3. u % p \in 0..p - 1 /\ u = p * (u \div p) + (u % p) /\ u \div p \in Int
  BY <1>2
<1>4. /\ (a + b) % p \in 0..p - 1 /\ a + b = p * ((a + b) \div p) + ((a + b) % p)
      /\ (a + b) \div p \in Int
  OBVIOUS
<1>5. k \in Int /\ d \in Int /\ -p < d /\ d < p
  BY <1>1, <1>3, <1>4
<1>6. d = p * k
  <2>1. ASSUME NEW x \in Int, NEW y \in Int, NEW z \in Int
        PROVE  p * (x + y - z) = p * x + p * y - p * z
    OBVIOUS
  <2>2. p * k = p * (u \div p) + p * (a \div p) - p * ((a + b) \div p)
    BY <1>1, <1>3, <1>4, <2>1
  <2> QED  BY <1>1, <1>2, <1>3, <1>4, <2>2
<1> HIDE DEF k, d
<1>7. d = 0
  <2>1. CASE k >= 1
    <3>1. p * k >= p
      BY <1>5, <2>1
    <3> QED  BY <1>5, <1>6, <3>1
  <2>2. CASE k <= -1
    <3>1. p * k <= -p
      BY <1>5, <2>2
    <3> QED  BY <1>5, <1>6, <3>1
  <2>3. CASE k = 0
    BY <1>6, <2>3
  <2> QED  BY <1>5, <2>1, <2>2, <2>3
<1> QED  BY <1>2, <1>3, <1>4, <1>7 DEF d, u

---------------------------------------------------------------------------
(* Proper images. *)

Header(c) == ChunkHead(c.kind, c.blks, c.total)

\* What the units of a file may be.
Alphabet(f) ==
    {Zero} \cup Range(f.plain)
    \cup {Header(c) : c \in Range(f.chunks)} \cup UNION {Range(c.body) : c \in Range(f.chunks)}

Stretches(f)  == [i \in DOMAIN f.chunks |-> <<Header(f.chunks[i])>> \o f.chunks[i].body]
Expansions(f) == [i \in DOMAIN f.chunks |-> Expansion(f.chunks[i], f.blk)]

\* The file, and the image, from the i-th chunk on.
UnitsFrom(f) == Joins(Stretches(f))
ImageFrom(f) == Joins(Expansions(f))

LEMMA SequenceIs ==
  ASSUME NEW s, IsSequence(s)
  PROVE  /\ s \in Seq(Range(s)) /\ Len(s) \in Nat /\ DOMAIN s = 1..Len(s)
         /\ \A i \in 1..Len(s) : s[i] \in Range(s)
  BY LenProperties, ElementOfSeq DEF IsSequence

\* An int64 holds what is less than Half.
LEMMA NoWrap ==
  ASSUME NEW x \in Nat, x < Half
  PROVE  Int64(x) = x
<1> DEFINE m == 2 * Half
<1>1. Half \in Nat \ {0} /\ m \in Nat \ {0} /\ x < m
  BY SparseAssumption
<1> HIDE DEF m
<1>2. x % m = x
  BY <1>1
<1>3. Int64(x) = IF x % m >= Half THEN (x % m) - m ELSE x % m
  BY DEF Int64, m
<1> QED  BY <1>1, <1>2, <1>3

LEMMA ChunkFacts ==
  ASSUME NEW f \in Images, f.sparse, Proper(f), NEW k \in 1..Len(f.chunks)
  PROVE  LET c == f.chunks[k]  h == Header(c)  e == Expansion(c, f.blk)  S == Alphabet(f) IN
         /\ k \in DOMAIN f.chunks
         /\ c.kind \in {"raw", "fill", "dontcare", "crc32"}
         /\ h \in S /\ h.kind = c.kind /\ h.total - HeaderLen = Len(c.body)
         /\ c.body \in Seq(S) /\ Len(c.body) \in Nat
         /\ e \in Seq(S) /\ Len(e) \in Nat
         /\ Len(e) = IF c.kind = "crc32" THEN 0 ELSE OutLen(f, h)
         /\ c.kind = "raw" => e = c.body
         /\ c.kind = "fill" => /\ Len(c.body) = Pat
                               /\ \A i \in 1..Len(e) : e[i] = c.body[((i - 1) % Pat) + 1]
         /\ c.kind = "dontcare" => \A i \in 1..Len(e) : e[i] = Zero
<1> DEFINE c == f.chunks[k]
           h == Header(c)
           e == Expansion(c, f.blk)
           S == Alphabet(f)
           n == c.blks * f.blk
           l == IF c.kind = "crc32" THEN 0 ELSE n
<1>1. /\ f.blk \in Nat /\ c \in Range(f.chunks) /\ c.blks \in Nat /\ c.total \in Nat
      /\ IsSequence(c.body) /\ k \in DOMAIN f.chunks
  <2>1. IsSequence(f.chunks) /\ f.blk \in Nat
    BY SparseAssumption
  <2>2. c \in Range(f.chunks) /\ k \in DOMAIN f.chunks
    BY <2>1, SequenceIs
  <2> QED  BY <2>1, <2>2, SparseAssumption DEF Numbered
<1>2. /\ c.kind \in {"raw", "fill", "dontcare", "crc32"}
      /\ c.total = HeaderLen + Len(c.body)
      /\ c.kind = "raw" => Len(c.body) = n
      /\ c.kind = "fill" => Len(c.body) = Pat
      /\ n < Half
  BY <1>1 DEF Proper
<1>3. n \in Nat /\ l \in Nat
  BY <1>1
<1>4. h \in S /\ h.kind = c.kind /\ h.total = c.total /\ h.blks = c.blks
  BY <1>1 DEF Alphabet, Header, ChunkHead
<1>5. /\ c.body \in Seq(S) /\ Len(c.body) \in Nat /\ DOMAIN c.body = 1..Len(c.body)
      /\ \A i \in 1..Len(c.body) : c.body[i] \in S
  <2>1. Range(c.body) \subseteq S
    BY <1>1 DEF Alphabet
  <2>2. /\ c.body \in Seq(Range(c.body)) /\ Len(c.body) \in Nat /\ DOMAIN c.body = 1..Len(c.body)
        /\ \A i \in 1..Len(c.body) : c.body[i] \in Range(c.body)
    BY <1>1, SequenceIs
  <2> QED  BY <2>1, <2>2, SeqMonotonic
<1> HIDE DEF c, h
<1>6. OutLen(f, h) = n
  BY <1>2, <1>3, <1>4, NoWrap DEF OutLen
<1>7. h.total - HeaderLen = Len(c.body)
  BY <1>2, <1>4, <1>5 DEF HeaderLen
<1> DEFINE val(i) == CASE c.kind = "raw"  -> c.body[i]
                       [] c.kind = "fill" -> c.body[((i - 1) % Pat) + 1]
                       [] OTHER           -> Zero
<1>8. e = [i \in 1..l |-> val(i)]
  BY DEF Expansion
<1>9. \A i \in 1..l : val(i) \in S
  <2> SUFFICES ASSUME NEW i \in 1..l PROVE val(i) \in S
    OBVIOUS
  <2>1. CASE c.kind = "raw"
    BY <1>2, <1>3, <1>5, <2>1
  <2>2. CASE c.kind = "fill"
    <3>1. ((i - 1) % Pat) + 1 \in 1..Pat
      BY <1>3, SparseAssumption
    <3> QED  BY <1>2, <1>5, <2>2, <3>1
  <2>3. CASE c.kind \notin {"raw", "fill"}
    BY <2>3 DEF Alphabet
  <2> QED  BY <2>1, <2>2, <2>3
<1>10. \A i \in 1..l : e[i] = val(i)
  BY <1>8, Zenon
<1> HIDE DEF val
<1>11. e \in Seq(S) /\ Len(e) = l
  <2>1. e \in [1..l -> S]
    BY <1>8, <1>9
  <2> QED  BY <1>3, <2>1, SeqDef, LenProperties
<1> HIDE DEF l
<1>12. c.kind = "raw" => e = c.body
  <2> SUFFICES ASSUME c.kind = "raw" PROVE e = c.body
    OBVIOUS
  <2>1. Len(e) = Len(c.body)
    BY <1>2, <1>11 DEF l
  <2>2. \A i \in 1..Len(e) : e[i] = c.body[i]
    BY <1>10, <1>11 DEF val
  <2> QED  BY <1>5, <1>11, <2>1, <2>2, SeqEqual
<1>13. c.kind = "fill" => \A i \in 1..Len(e) : e[i] = c.body[((i - 1) % Pat) + 1]
  BY <1>10, <1>11 DEF val
<1>14. c.kind = "dontcare" => \A i \in 1..Len(e) : e[i] = Zero
  BY <1>10, <1>11 DEF val
<1>15. Len(e) \in Nat /\ Len(e) = IF c.kind = "crc32" THEN 0 ELSE OutLen(f, h)
  BY <1>3, <1>6, <1>11 DEF l
<1> HIDE DEF e, S
<1> QED  BY <1>1, <1>2, <1>4, <1>5, <1>7, <1>11, <1>12, <1>13, <1>14, <1>15 DEF c, h, e, S

LEMMA FileFacts ==
  ASSUME NEW f \in Images, f.sparse, Proper(f)
  PROVE  LET n == Len(f.chunks)  S == Alphabet(f) IN
         /\ n \in Nat
         /\ Units(f) = UnitsFrom(f)[1] /\ RawImage(f) = ImageFrom(f)[1]
         /\ UnitsFrom(f)[n + 1] = <<>> /\ ImageFrom(f)[n + 1] = <<>>
         /\ \A k \in 1..n + 1 : UnitsFrom(f)[k] \in Seq(S) /\ ImageFrom(f)[k] \in Seq(S)
         /\ \A k \in 1..n :
               /\ UnitsFrom(f)[k] =
                     Cat(Cat(<<Header(f.chunks[k])>>, f.chunks[k].body), UnitsFrom(f)[k + 1])
               /\ ImageFrom(f)[k] = Cat(Expansion(f.chunks[k], f.blk), ImageFrom(f)[k + 1])
<1> DEFINE n == Len(f.chunks)
           S == Alphabet(f)
           u == Stretches(f)
           x == Expansions(f)
<1>1. n \in Nat /\ DOMAIN f.chunks = 1..n
  BY SparseAssumption, SequenceIs
<1>2. \A k \in 1..n : /\ Header(f.chunks[k]) \in S /\ f.chunks[k].body \in Seq(S)
                      /\ Expansion(f.chunks[k], f.blk) \in Seq(S)
  BY ChunkFacts
<1> HIDE DEF n, S
<1>3. u = [k \in 1..n |-> Cat(<<Header(f.chunks[k])>>, f.chunks[k].body)]
  BY <1>1 DEF Stretches, Cat
<1>4. x = [k \in 1..n |-> Expansion(f.chunks[k], f.blk)]
  BY <1>1 DEF Expansions
<1>5. \A k \in 1..n : Cat(<<Header(f.chunks[k])>>, f.chunks[k].body) \in Seq(S)
  <2> SUFFICES ASSUME NEW k \in 1..n
               PROVE  Cat(<<Header(f.chunks[k])>>, f.chunks[k].body) \in Seq(S)
    OBVIOUS
  <2>1. <<Header(f.chunks[k])>> \in Seq(S)
    BY <1>2
  <2> QED  BY <1>2, <2>1, CatType
<1>6. /\ u \in Seq(Seq(S)) /\ Len(u) = n
      /\ x \in Seq(Seq(S)) /\ Len(x) = n
  <2>1. u \in [1..n -> Seq(S)] /\ x \in [1..n -> Seq(S)]
    BY <1>2, <1>3, <1>4, <1>5
  <2>2. u \in Seq(Seq(S)) /\ x \in Seq(Seq(S))
    BY <1>1, <2>1, SeqDef
  <2> QED  BY <1>1, <2>1, <2>2, LenProperties
<1>7. /\ UnitsFrom(f)[1] = FlattenSeq(u) /\ ImageFrom(f)[1] = FlattenSeq(x)
      /\ UnitsFrom(f)[n + 1] = <<>> /\ ImageFrom(f)[n + 1] = <<>>
      /\ \A k \in 1..n + 1 : UnitsFrom(f)[k] \in Seq(S) /\ ImageFrom(f)[k] \in Seq(S)
      /\ \A k \in 1..n : /\ UnitsFrom(f)[k] = Cat(u[k], UnitsFrom(f)[k + 1])
                         /\ ImageFrom(f)[k] = Cat(x[k], ImageFrom(f)[k + 1])
  <2> HIDE DEF u, x
  <2> QED  BY <1>6, JoinsType, FlattenIsJoins DEF UnitsFrom, ImageFrom, u, x
<1>8. Units(f) = FlattenSeq(u) /\ RawImage(f) = FlattenSeq(x)
  BY Zenon DEF Units, RawImage, Stretches, Expansions, Header
<1>9. \A k \in 1..n : /\ u[k] = Cat(<<Header(f.chunks[k])>>, f.chunks[k].body)
                      /\ x[k] = Expansion(f.chunks[k], f.blk)
  BY <1>3, <1>4
<1> HIDE DEF u, x
<1> QED  BY <1>1, <1>7, <1>8, <1>9 DEF n, S

---------------------------------------------------------------------------
(* The reader. *)

\* Between two chunks, or within the k-th: what was written, what is owed and what the
\* chunks to come stand for make the image; what is unread is theirs, and what a raw
\* chunk still owes.
AtStart == rem = 0 /\ out = <<>> /\ in = UnitsFrom(src)[1]

Within(f, k, unread, now, owed, written) ==
    LET c == f.chunks[k]  e == Expansion(c, f.blk) IN
    /\ owed \in 0..Len(e)
    /\ Cat(written, Cat(Final(e, owed), ImageFrom(f)[k + 1])) = ImageFrom(f)[1]
    /\ unread = Cat(IF c.kind = "raw" THEN Final(e, owed) ELSE <<>>, UnitsFrom(f)[k + 1])
    /\ now.kind = CASE c.kind = "raw"      -> "raw"
                      [] c.kind = "fill"     -> "fill"
                      [] c.kind = "dontcare" -> "zero"
                      [] c.kind = "crc32"    -> "none"
    /\ c.kind = "fill" => now = [kind |-> "fill", fill |-> c.body, pos |-> (Len(e) - owed) % Pat]

Expands ==
    LET n == Len(src.chunks) IN
    /\ left \in 0..n
    /\ IF left = n THEN AtStart ELSE Within(src, n - left, in, chunk, rem, out)

Passes ==
    /\ left = 0 /\ chunk.kind = "raw"
    /\ rem = Len(in) /\ Cat(out, in) = src.plain

SparseInv ==
    /\ verdict \in {"none", "reading", "eof", "error"}
    /\ verdict = "eof" => rem <= 0 /\ left = 0
    /\ verdict # "none" => src \in Images
    /\ verdict # "none" /\ Proper(src) =>
          /\ verdict # "error"
          /\ in \in Seq(Alphabet(src)) /\ out \in Seq(Alphabet(src))
          /\ IF src.sparse THEN Expands ELSE Passes

LEMMA SparseStarts == SparseInit => SparseInv
  BY DEF SparseInit, SparseInv

LEMMA PlainIs ==
  ASSUME NEW f \in Images
  PROVE  f.plain \in Seq(Alphabet(f))
<1>1. f.plain \in Seq(Range(f.plain))
  BY SparseAssumption DEF IsSequence
<1>2. Range(f.plain) \subseteq Alphabet(f)
  BY DEF Alphabet
<1> QED  BY <1>1, <1>2, SeqMonotonic

LEMMA SparseOpens ==
  ASSUME NEW f \in Images, OpenImage(f)
  PROVE  SparseInv'
<1>1. src' = f /\ in' = Units(f) /\ out' = <<>> /\ verdict' \in {"reading", "error"}
  BY DEF OpenImage
<1>2. <<>> \in Seq(Alphabet(f))
  BY EmptySeq
<1>3. CASE f.sparse /\ Proper(f)
  <2>1. f.blk \in Nat /\ f.blk > 0 /\ f.blk % Pat = 0
    BY <1>3, SparseAssumption DEF Proper
  <2>2. verdict' = "reading" /\ left' = Len(f.chunks) /\ rem' = 0
    BY <1>3, <2>1 DEF OpenImage
  <2>3. Len(f.chunks) \in Nat /\ Units(f) = UnitsFrom(f)[1] /\ UnitsFrom(f)[1] \in Seq(Alphabet(f))
    BY <1>3, FileFacts
  <2> QED  BY <1>1, <1>2, <1>3, <2>2, <2>3 DEF SparseInv, Expands, AtStart
<1>4. CASE ~f.sparse
  <2>1. /\ verdict' = "reading" /\ left' = 0 /\ rem' = Len(f.plain) /\ in' = f.plain
        /\ chunk' = [NoChunk EXCEPT !.kind = "raw"]
    BY <1>4 DEF OpenImage, Units
  <2>2. f.plain \in Seq(Alphabet(f)) /\ Cat(<<>>, f.plain) = f.plain
    BY PlainIs, CatNothing
  <2>3. chunk'.kind = "raw"
    BY <2>1 DEF NoChunk
  <2> QED  BY <1>1, <1>2, <1>4, <2>1, <2>2, <2>3 DEF SparseInv, Passes
<1> QED  BY <1>1, <1>3, <1>4, SparseAssumption DEF SparseInv

\* When nothing is owed the rest of the image is that of the chunks to come.
LEMMA Between ==
  ASSUME src \in Images, src.sparse, Proper(src), Expands, out \in Seq(Alphabet(src)), rem <= 0
  PROVE  LET j == Len(src.chunks) - left + 1 IN
         in = UnitsFrom(src)[j] /\ Cat(out, ImageFrom(src)[j]) = ImageFrom(src)[1]
<1> DEFINE n == Len(src.chunks)
           S == Alphabet(src)
<1>1. n \in Nat /\ left \in 0..n
  BY FileFacts DEF Expands
<1>2. \A k \in 1..n + 1 : UnitsFrom(src)[k] \in Seq(S) /\ ImageFrom(src)[k] \in Seq(S)
  BY FileFacts
<1>3. CASE left = n
  <2>1. AtStart /\ n - left + 1 = 1 /\ 1 \in 1..n + 1
    BY <1>1, <1>3 DEF Expands
  <2> QED  BY <1>2, <2>1, CatNothing DEF AtStart
<1>4. CASE left # n
  <2> DEFINE k == n - left
             c == src.chunks[k]
             e == Expansion(c, src.blk)
  <2>1. Within(src, k, in, chunk, rem, out) /\ k \in 1..n /\ k + 1 \in 1..n + 1
    BY <1>1, <1>4 DEF Expands
  <2>2. e \in Seq(S) /\ Len(e) \in Nat
    BY <2>1, ChunkFacts
  <2>3. rem = 0
    BY <2>1, <2>2 DEF Within
  <2>4. Final(e, 0) = <<>>
    BY <2>2, FinalEnds
  <2>5. in = Cat(<<>>, UnitsFrom(src)[k + 1])
    BY <2>1, <2>3, <2>4 DEF Within
  <2>6. Cat(out, Cat(<<>>, ImageFrom(src)[k + 1])) = ImageFrom(src)[1]
    BY <2>1, <2>3, <2>4 DEF Within
  <2> HIDE DEF k
  <2> QED  BY <1>2, <2>1, <2>5, <2>6, CatNothing DEF k
<1> QED  BY <1>3, <1>4

LEMMA NextChunkKeeps ==
  ASSUME SparseInv, NextChunk
  PROVE  SparseInv'
<1>1. verdict = "reading" /\ rem <= 0 /\ left > 0 /\ src \in Images
  BY DEF NextChunk, SparseInv
<1>2. src' = src /\ out' = out /\ verdict' \in {"reading", "error"}
  BY <1>1 DEF NextChunk, Ends
<1>3. CASE ~Proper(src)
  BY <1>1, <1>2, <1>3 DEF SparseInv
<1>4. CASE Proper(src)
  <2> DEFINE n == Len(src.chunks)
             S == Alphabet(src)
             j == n - left + 1
             c == src.chunks[j]
             h == Header(c)
             e == Expansion(c, src.blk)
             u == UnitsFrom(src)[j + 1]
             x == ImageFrom(src)[j + 1]
  <2>1. src.sparse /\ Expands /\ in \in Seq(S) /\ out \in Seq(S)
    BY <1>1, <1>4, SparseAssumption DEF SparseInv, Passes
  <2>2. n \in Nat /\ left \in 1..n /\ j \in 1..n /\ j + 1 \in 1..n + 1
    BY <1>1, <1>4, <2>1, FileFacts DEF Expands
  <2>3. in = UnitsFrom(src)[j] /\ Cat(out, ImageFrom(src)[j]) = ImageFrom(src)[1]
    BY <1>1, <1>4, <2>1, Between
  <2>4. /\ u \in Seq(S) /\ x \in Seq(S)
        /\ in = Cat(Cat(<<h>>, c.body), u) /\ Cat(out, Cat(e, x)) = ImageFrom(src)[1]
    BY <1>1, <1>4, <2>1, <2>2, <2>3, FileFacts
  <2>5. /\ c.kind \in {"raw", "fill", "dontcare", "crc32"}
        /\ h \in S /\ h.kind = c.kind /\ h.total - HeaderLen = Len(c.body)
        /\ c.body \in Seq(S) /\ Len(c.body) \in Nat /\ e \in Seq(S) /\ Len(e) \in Nat
        /\ Len(e) = IF c.kind = "crc32" THEN 0 ELSE OutLen(src, h)
        /\ c.kind = "raw" => e = c.body
        /\ c.kind = "fill" => Len(c.body) = Pat
    BY <1>1, <1>4, <2>1, <2>2, ChunkFacts
  <2> HIDE DEF n, S, j, c, h, e, u, x
  <2> DEFINE body == Cat(c.body, u)
  <2>6. in # <<>> /\ in[1] = h /\ Tail(in) = body
    <3> DEFINE hd == <<h>>
    <3>1. hd \in Seq(S) /\ hd # <<>> /\ hd[1] = h /\ Len(hd) = 1
      BY <2>5
    <3> HIDE DEF hd
    <3>2. body \in Seq(S)
      BY <2>4, <2>5, CatType
    <3>3. Cat(Cat(hd, c.body), u) = Cat(hd, body)
      BY <2>4, <2>5, <3>1, CatAssociates
    <3>4. in = Cat(hd, body)
      BY <2>4, <3>3 DEF hd
    <3> HIDE DEF body
    <3>5. in # <<>> /\ in[1] = hd[1] /\ SubSeq(in, Len(hd) + 1, Len(in)) = body
      <4>1. Opens(Cat(hd, body), hd, body)
        BY <3>1, <3>2, FrontTaken
      <4>2. Opens(in, hd, body)
        BY <3>4, <4>1
      <4> QED  BY <3>1, <4>2 DEF Opens
    <3>6. in # <<>> /\ in[1] = h /\ SubSeq(in, 2, Len(in)) = body
      BY <3>1, <3>5
    <3> QED  BY <2>1, <3>6, TailIsSubSeq
  <2>7. /\ body \in Seq(S) /\ Len(body) = Len(c.body) + Len(u) /\ Len(u) \in Nat
        /\ SubSeq(body, 1, Len(c.body)) = c.body
        /\ SubSeq(body, Len(c.body) + 1, Len(body)) = u
    <3>1. Opens(body, c.body, u)
      BY <2>4, <2>5, FrontTaken
    <3>2. body \in Seq(S) /\ Len(u) \in Nat
      BY <2>4, <2>5, CatType, LenProperties
    <3> HIDE DEF body
    <3> QED  BY <3>1, <3>2 DEF Opens
  <2>8. SubSeq(body, 0 + 1, Len(body)) = body
    BY <2>7, SubSeqFull
  <2>9. Final(e, Len(e)) = e /\ Cat(<<>>, u) = u
    BY <2>4, <2>5, FinalEnds, CatNothing
  <2> HIDE DEF body
  <2>10. /\ left' = left - 1 /\ verdict' = "reading" /\ rem' = Len(e)
         /\ in' = IF c.kind = "raw" THEN body ELSE u
         /\ chunk' = [kind |-> CASE c.kind = "raw"      -> "raw"
                                 [] c.kind = "fill"     -> "fill"
                                 [] c.kind = "dontcare" -> "zero"
                                 [] c.kind = "crc32"    -> "none",
                      fill |-> IF c.kind = "fill" THEN c.body ELSE <<>>, pos |-> 0]
    <3>1. Skip(Len(c.body)) = Len(c.body) /\ ~ (Len(body) < Len(c.body)) /\ Pat \in Nat
      BY <2>5, <2>7, SparseAssumption DEF Skip
    <3>2. CASE c.kind = "raw"
      BY <1>1, <2>5, <2>6, <2>7, <2>8, <3>2 DEF NextChunk
    <3>3. CASE c.kind = "fill"
      BY <1>1, <2>5, <2>6, <2>7, <3>1, <3>3 DEF NextChunk
    <3>4. CASE c.kind = "dontcare"
      BY <1>1, <2>5, <2>6, <2>7, <3>1, <3>4 DEF NextChunk
    <3>5. CASE c.kind = "crc32"
      BY <1>1, <2>5, <2>6, <2>7, <3>1, <3>5 DEF NextChunk
    <3> QED  BY <2>5, <3>2, <3>3, <3>4, <3>5
  <2>11. in' \in Seq(S) /\ out' \in Seq(S)
    BY <1>2, <2>1, <2>4, <2>7, <2>10
  <2>12. n - left' = j /\ left' \in 0..n /\ left' # n
    BY <2>2, <2>10 DEF j
  <2>13. Within(src, j, in', chunk', rem', out')
    <3>1. 0 % Pat = 0 /\ Len(e) - Len(e) = 0
      BY <2>5, SparseAssumption
    <3>2. Len(e) \in 0..Len(e)
      BY <2>5
    <3>3. Cat(out, Cat(Final(e, Len(e)), x)) = ImageFrom(src)[1]
      BY <2>4, <2>9
    <3>4. in' = Cat(IF c.kind = "raw" THEN Final(e, Len(e)) ELSE <<>>, u)
      BY <2>5, <2>9, <2>10 DEF body
    <3>5. /\ chunk'.kind = CASE c.kind = "raw"      -> "raw"
                              [] c.kind = "fill"     -> "fill"
                              [] c.kind = "dontcare" -> "zero"
                              [] c.kind = "crc32"    -> "none"
          /\ c.kind = "fill" => chunk' = [kind |-> "fill", fill |-> c.body, pos |-> 0]
      BY <2>10
    <3> QED  BY <1>2, <2>10, <3>1, <3>2, <3>3, <3>4, <3>5 DEF Within, c, e, u, x
  <2>14. Expands'
    BY <1>2, <2>12, <2>13 DEF Expands, n
  <2> QED  BY <1>1, <1>2, <1>4, <2>1, <2>10, <2>11, <2>14 DEF SparseInv, S
<1> QED  BY <1>3, <1>4

LEMMA EmitKeeps ==
  ASSUME SparseInv, Emit
  PROVE  SparseInv'
<1>1. verdict = "reading" /\ rem > 0 /\ src \in Images
  BY DEF Emit, SparseInv
<1>2. PICK m \in 1..rem : EmitRaw(m) \/ EmitFill(m) \/ EmitZero(m)
  BY DEF Emit
<1>3. src' = src /\ left' = left /\ verdict' \in {"reading", "error"}
  BY <1>1, <1>2 DEF EmitRaw, EmitFill, EmitZero, Ends
<1>4. CASE ~Proper(src)
  BY <1>1, <1>3, <1>4 DEF SparseInv
<1>5. CASE Proper(src) /\ src.sparse
  <2> DEFINE n == Len(src.chunks)
             S == Alphabet(src)
             k == n - left
             c == src.chunks[k]
             e == Expansion(c, src.blk)
             u == UnitsFrom(src)[k + 1]
             x == ImageFrom(src)[k + 1]
             p == Piece(e, rem, m)
             q == Final(e, rem - m)
  <2>1. Expands /\ in \in Seq(S) /\ out \in Seq(S)
    BY <1>1, <1>5 DEF SparseInv
  <2>2. n \in Nat /\ left \in 0..n /\ left # n /\ Within(src, k, in, chunk, rem, out)
    BY <1>1, <1>5, <2>1, FileFacts DEF Expands, AtStart
  <2>3. k \in 1..n /\ k + 1 \in 1..n + 1
    BY <2>2
  <2>4. u \in Seq(S) /\ x \in Seq(S)
    BY <1>1, <1>5, <2>3, FileFacts
  <2>5. /\ c.kind \in {"raw", "fill", "dontcare", "crc32"}
        /\ e \in Seq(S) /\ Len(e) \in Nat
        /\ c.kind = "fill" => \A i \in 1..Len(e) : e[i] = c.body[((i - 1) % Pat) + 1]
        /\ c.kind = "dontcare" => \A i \in 1..Len(e) : e[i] = Zero
    BY <1>1, <1>5, <2>3, ChunkFacts
  <2>6. /\ rem \in 0..Len(e)
        /\ Cat(out, Cat(Final(e, rem), x)) = ImageFrom(src)[1]
        /\ in = Cat(IF c.kind = "raw" THEN Final(e, rem) ELSE <<>>, u)
        /\ chunk.kind = CASE c.kind = "raw"      -> "raw"
                           [] c.kind = "fill"     -> "fill"
                           [] c.kind = "dontcare" -> "zero"
                           [] c.kind = "crc32"    -> "none"
        /\ c.kind = "fill" => chunk = [kind |-> "fill", fill |-> c.body, pos |-> (Len(e) - rem) % Pat]
    BY <2>2 DEF Within
  <2> HIDE DEF n, S, k, c, e, u, x
  <2>8. m \in 0..rem /\ m \in Nat /\ rem - m \in 0..Len(e) /\ Len(e) - (rem - m) = (Len(e) - rem) + m
    BY <1>2, <2>5, <2>6
  <2>9. /\ p \in Seq(S) /\ Len(p) = m /\ \A i \in 1..m : p[i] = e[Len(e) - rem + i]
        /\ Final(e, rem) = Cat(p, q)
    BY <2>5, <2>6, <2>8, FinalSplits
  <2>7. /\ q \in Seq(S) /\ Cat(out, p) \in Seq(S)
        /\ Cat(Cat(out, p), Cat(q, x)) = ImageFrom(src)[1]
    <3>1. p = Piece(e, rem, m) /\ q = Final(e, rem - m)
      OBVIOUS
    <3> HIDE DEF p, q
    <3>2. rem \in 0..Len(e) /\ m \in 0..rem /\ e \in Seq(S) /\ x \in Seq(S) /\ out \in Seq(S)
      BY <2>1, <2>4, <2>5, <2>6, <2>8
    <3>3. /\ q \in Seq(S) /\ Cat(out, p) \in Seq(S)
          /\ Cat(Cat(out, p), Cat(q, x)) = Cat(out, Cat(Final(e, rem), x))
      BY <3>1, <3>2, ReadsOn
    <3> QED  BY <2>6, <3>3
  <2> HIDE DEF p, q
  <2>11. CASE EmitRaw(m)
    <3>1. c.kind = "raw"
      BY <2>5, <2>6, <2>11 DEF EmitRaw
    <3>2. in = Cat(p, Cat(q, u)) /\ Cat(q, u) \in Seq(S) /\ Len(Cat(q, u)) \in Nat
      <4>1. in = Cat(Cat(p, q), u)
        BY <2>6, <2>9, <3>1
      <4> QED  BY <2>4, <2>7, <2>9, <4>1, CatAssociates, CatType, LenProperties
    <3>3. /\ Len(in) = m + Len(Cat(q, u)) /\ in # <<>>
          /\ SubSeq(in, 1, m) = p /\ SubSeq(in, m + 1, Len(in)) = Cat(q, u)
      <4> DEFINE w == Cat(q, u)
      <4>1. m # 0
        BY <1>2
      <4>2. p \in Seq(S) /\ w \in Seq(S) /\ in = Cat(p, w) /\ m \in Nat /\ Len(p) = m
        BY <2>8, <2>9, <3>2
      <4> HIDE DEF w
      <4>3. /\ Len(in) = m + Len(w) /\ in # <<>>
            /\ SubSeq(in, 1, m) = p /\ SubSeq(in, m + 1, Len(in)) = w
        <5>1. Opens(Cat(p, w), p, w)
          BY <4>2, FrontTaken
        <5>2. Opens(in, p, w)
          BY <4>2, <5>1
        <5> QED  BY <4>1, <4>2, <5>2 DEF Opens
      <4> QED  BY <4>3 DEF w
    <3> DEFINE r == IF m < Len(in) THEN m ELSE Len(in)
    <3>5. r = m
      BY <2>8, <3>2, <3>3
    <3>6. /\ out' = out \o SubSeq(in, 1, r) /\ in' = SubSeq(in, r + 1, Len(in)) /\ rem' = rem - r
          /\ chunk' = chunk /\ verdict' = verdict
      BY <2>11, <3>3, Zenon DEF EmitRaw
    <3> HIDE DEF r
    <3>7. out' = Cat(out, p) /\ in' = Cat(q, u) /\ rem' = rem - m /\ chunk' = chunk /\ verdict' = "reading"
      BY <1>1, <3>3, <3>5, <3>6 DEF Cat
    <3>8. Within(src, k, in', chunk', rem', out')
      BY <2>5, <2>6, <2>7, <2>8, <3>1, <3>7 DEF Within, c, e, u, x, q
    <3>9. Expands'
      BY <1>3, <2>2, <3>8 DEF Expands, n, k
    <3> QED  BY <1>1, <1>3, <1>5, <2>7, <3>2, <3>7, <3>9 DEF SparseInv, S
  <2>12. ASSUME NEW t, c.kind # "raw", p = t, out' = out \o t, rem' = rem - m, in' = in, verdict' = verdict,
                chunk'.kind = chunk.kind,
                c.kind = "fill" =>
                   chunk' = [kind |-> "fill", fill |-> c.body, pos |-> (Len(e) - (rem - m)) % Pat]
         PROVE  SparseInv'
    <3>1. out' = Cat(out, p)
      BY <2>12 DEF Cat
    <3>2. in' = Cat(<<>>, u)
      BY <2>6, <2>12
    <3>3. Within(src, k, in', chunk', rem', out')
      BY <2>5, <2>6, <2>7, <2>8, <2>12, <3>1, <3>2 DEF Within, c, e, u, x, q
    <3>4. Expands'
      BY <1>3, <2>2, <3>3 DEF Expands, n, k
    <3> QED  BY <1>1, <1>3, <1>5, <2>1, <2>7, <2>12, <3>1, <3>4 DEF SparseInv, S
  <2>13. CASE EmitFill(m)
    <3> DEFINE a == Len(e) - rem
               t == [i \in 1..m |-> chunk.fill[((chunk.pos + i - 1) % Pat) + 1]]
    <3>1. c.kind = "fill" /\ chunk.fill = c.body /\ chunk.pos = a % Pat
      BY <2>5, <2>6, <2>13 DEF EmitFill
    <3>2. /\ Len(e) \in Nat /\ rem \in 0..Len(e) /\ m \in 0..rem
          /\ a \in Nat /\ Pat \in Nat \ {0} /\ a % Pat \in Nat
      BY <2>5, <2>6, <2>8, SparseAssumption
    <3>3. ASSUME NEW i \in 1..m
          PROVE  p[i] = t[i]
      <4>1. i - 1 \in Nat /\ a + i \in 1..Len(e) /\ (a + i) - 1 = a + (i - 1)
        BY <3>2
      <4>2. p[i] = c.body[((a + (i - 1)) % Pat) + 1]
        BY <2>5, <2>9, <3>1, <4>1
      <4>3. ((a % Pat) + (i - 1)) % Pat = (a + (i - 1)) % Pat
        BY <3>2, <4>1, GoesOn
      <4>4. (chunk.pos + i - 1) = (a % Pat) + (i - 1)
        BY <3>1, <3>2
      <4> QED  BY <3>1, <4>2, <4>3, <4>4
    <3>4. p = t
      <4>1. p = [i \in 1..m |-> p[i]]
        BY <2>8, <2>9, LenProperties
      <4> HIDE DEF a
      <4> QED  BY <3>3, <4>1, Zenon
    <3>5. ((a % Pat) + m) % Pat = (a + m) % Pat
      BY <2>8, <3>2, GoesOn
    <3>6. chunk' = [kind |-> "fill", fill |-> c.body, pos |-> (Len(e) - (rem - m)) % Pat]
      BY <2>6, <2>8, <2>13, <3>1, <3>5 DEF EmitFill
    <3>7. out' = out \o t /\ rem' = rem - m /\ in' = in /\ verdict' = verdict
      BY <2>13 DEF EmitFill
    <3> HIDE DEF t, a
    <3> QED  BY <2>6, <2>12, <3>1, <3>4, <3>6, <3>7
  <2>14. CASE EmitZero(m)
    <3> DEFINE t == [i \in 1..m |-> Zero]
    <3>1. c.kind = "dontcare"
      BY <2>5, <2>6, <2>14 DEF EmitZero
    <3>2. ASSUME NEW i \in 1..m
          PROVE  p[i] = t[i]
      <4>1. Len(e) - rem + i \in 1..Len(e)
        BY <2>5, <2>6, <2>8
      <4> QED  BY <2>5, <2>9, <3>1, <4>1
    <3>3. p = t
      <4>1. p = [i \in 1..m |-> p[i]]
        BY <2>8, <2>9, LenProperties
      <4> QED  BY <3>2, <4>1, Zenon
    <3>4. out' = out \o t /\ rem' = rem - m /\ in' = in /\ verdict' = verdict /\ chunk' = chunk
      BY <2>14 DEF EmitZero
    <3> HIDE DEF t
    <3> QED  BY <2>12, <3>1, <3>3, <3>4
  <2> QED  BY <1>2, <2>11, <2>13, <2>14
<1>6. CASE ~src.sparse
  <2> DEFINE S == Alphabet(src)
             p == SubSeq(in, 1, m)
             q == SubSeq(in, m + 1, Len(in))
  <2>1. Passes /\ in \in Seq(S) /\ out \in Seq(S) /\ Len(in) \in Nat
    BY <1>1, <1>6, LenProperties DEF SparseInv, Proper
  <2> HIDE DEF S
  <2>2. rem = Len(in) /\ chunk.kind = "raw" /\ left = 0 /\ Cat(out, in) = src.plain /\ in # <<>>
    BY <1>1, <2>1 DEF Passes
  <2>3. m \in 0..Len(in) /\ Len(in) \in 0..Len(in)
    BY <1>2, <2>1, <2>2
  <2>4. in = Cat(p, q) /\ p \in Seq(S) /\ q \in Seq(S) /\ Len(q) = Len(in) - m
    BY <2>1, <2>3, SplitsAt
  <2>5. /\ out' = out \o p /\ in' = q /\ rem' = rem - m /\ chunk' = chunk /\ verdict' = verdict
    <3> DEFINE r == IF m < Len(in) THEN m ELSE Len(in)
    <3>1. EmitRaw(m)
      BY <1>2, <2>2 DEF EmitFill, EmitZero
    <3>2. r = m
      BY <2>1, <2>3
    <3>3. /\ out' = out \o SubSeq(in, 1, r) /\ in' = SubSeq(in, r + 1, Len(in)) /\ rem' = rem - r
          /\ chunk' = chunk /\ verdict' = verdict
      BY <2>2, <3>1, Zenon DEF EmitRaw
    <3> HIDE DEF r
    <3> QED  BY <3>2, <3>3
  <2> HIDE DEF p, q
  <2>6. out' = Cat(out, p) /\ Cat(Cat(out, p), q) = Cat(out, in) /\ Cat(out, p) \in Seq(S)
    <3>1. out' = Cat(out, p)
      BY <2>5 DEF Cat
    <3>2. Cat(Cat(out, p), q) = Cat(out, Cat(p, q))
      BY <2>1, <2>4, CatAssociates
    <3> QED  BY <2>1, <2>4, <3>1, <3>2, CatType
  <2>7. Passes'
    BY <1>3, <2>2, <2>4, <2>5, <2>6 DEF Passes
  <2> QED  BY <1>1, <1>3, <1>6, <2>4, <2>5, <2>6, <2>7 DEF SparseInv, S
<1> QED  BY <1>1, <1>4, <1>5, <1>6, SparseAssumption

LEMMA ReadKeeps ==
  ASSUME SparseInv, ReadImage
  PROVE  SparseInv'
<1>1. CASE EndOfImage
  BY <1>1 DEF EndOfImage, Ends, SparseInv, Expands, AtStart, Passes
<1> QED  BY <1>1, NextChunkKeeps, EmitKeeps DEF ReadImage

LEMMA SparseStutters ==
  ASSUME SparseInv, UNCHANGED sparseVars
  PROVE  SparseInv'
  BY DEF sparseVars, SparseInv, Expands, AtStart, Passes

LEMMA InvGivesPacked == SparseInv => PackedIsRaw
<1> SUFFICES ASSUME SparseInv, Proper(src), verdict \in {"eof", "error"}
             PROVE  verdict = "eof" /\ out = RawImage(src)
  BY DEF SparseInv, PackedIsRaw
<1>1. /\ verdict = "eof" /\ src \in Images /\ rem <= 0 /\ left = 0
      /\ in \in Seq(Alphabet(src)) /\ out \in Seq(Alphabet(src))
      /\ IF src.sparse THEN Expands ELSE Passes
  BY DEF SparseInv
<1>2. CASE src.sparse
  <2>1. LET j == Len(src.chunks) - left + 1 IN Cat(out, ImageFrom(src)[j]) = ImageFrom(src)[1]
    BY <1>1, <1>2, Between
  <2>2. /\ Len(src.chunks) \in Nat /\ Len(src.chunks) - left + 1 = Len(src.chunks) + 1
        /\ ImageFrom(src)[Len(src.chunks) + 1] = <<>> /\ RawImage(src) = ImageFrom(src)[1]
    BY <1>1, <1>2, FileFacts
  <2>3. Cat(out, <<>>) = out
    BY <1>1, CatNothing
  <2> QED  BY <1>1, <2>1, <2>2, <2>3
<1>3. CASE ~src.sparse
  <2>1. in = <<>>
    <3>1. Len(in) = 0
      BY <1>1, <1>3, LenProperties DEF Passes
    <3> QED  BY <1>1, <3>1, EmptySeq
  <2>2. Cat(out, <<>>) = out
    BY <1>1, CatNothing
  <2>3. Cat(out, in) = src.plain
    BY <1>1, <1>3 DEF Passes
  <2> QED  BY <1>1, <1>3, <2>1, <2>2, <2>3 DEF RawImage
<1> QED  BY <1>2, <1>3

---------------------------------------------------------------------------
(* The reader's types, for any file. *)

SparseType ==
    /\ verdict \in {"none", "reading", "eof", "error"}
    /\ rem \in Int /\ IsSequence(out)
    /\ verdict # "none" => src \in Images /\ in \in Seq(Alphabet(src))

LEMMA SequenceOf ==
  ASSUME NEW S, NEW s \in Seq(S)
  PROVE  IsSequence(s)
<1>1. Len(s) \in Nat /\ DOMAIN s = 1..Len(s) /\ s \in [1..Len(s) -> S]
  BY LenProperties
<1>2. s \in [1..Len(s) -> Range(s)]
  BY <1>1 DEF Range
<1> QED  BY <1>1, <1>2, SeqDef DEF IsSequence

LEMMA SequencesJoin ==
  ASSUME NEW s, NEW t, IsSequence(s), IsSequence(t)
  PROVE  IsSequence(s \o t)
<1> DEFINE S == Range(s) \cup Range(t)
<1>1. s \in Seq(S) /\ t \in Seq(S)
  <2>1. s \in Seq(Range(s)) /\ t \in Seq(Range(t)) /\ Range(s) \subseteq S /\ Range(t) \subseteq S
    BY DEF IsSequence
  <2> HIDE DEF S
  <2> QED  BY <2>1, SeqMonotonic
<1> HIDE DEF S
<1>2. s \o t \in Seq(S)
  BY <1>1, ConcatProperties
<1> QED  BY <1>2, SequenceOf

LEMMA FunctionsAreSequences ==
  ASSUME NEW n \in Nat, NEW s, s = [i \in 1..n |-> s[i]]
  PROVE  IsSequence(s)
<1> DEFINE S == {s[i] : i \in 1..n}
<1>1. s \in [1..n -> S]
  OBVIOUS
<1> HIDE DEF S
<1>2. s \in Seq(S)
  BY <1>1, SeqDef
<1> QED  BY <1>2, SequenceOf

LEMMA Leaves ==
  ASSUME NEW S, NEW s \in Seq(S), NEW n \in Nat, n <= Len(s)
  PROVE  SubSeq(s, n + 1, Len(s)) \in Seq(S) /\ SubSeq(s, 1, n) \in Seq(S)
<1>1. n \in 0..Len(s)
  BY LenProperties
<1> QED  BY <1>1, SplitsAt

LEMMA UnitsTyped ==
  ASSUME NEW f \in Images
  PROVE  Units(f) \in Seq(Alphabet(f))
<1> DEFINE n == Len(f.chunks)
           S == Alphabet(f)
           u == Stretches(f)
<1>1. CASE f.sparse
  <2>1. n \in Nat /\ DOMAIN f.chunks = 1..n /\ \A k \in 1..n : f.chunks[k] \in Range(f.chunks)
    BY SparseAssumption, SequenceIs
  <2>2. ASSUME NEW k \in 1..n
        PROVE  <<Header(f.chunks[k])>> \o f.chunks[k].body \in Seq(S)
    <3> DEFINE c == f.chunks[k]
    <3>1. c \in Range(f.chunks)
      BY <2>1
    <3>2. Header(c) \in S /\ Range(c.body) \subseteq S
      BY <3>1 DEF Alphabet
    <3>3. c.body \in Seq(Range(c.body))
      BY <3>1, SparseAssumption DEF IsSequence
    <3> HIDE DEF c, S
    <3>4. c.body \in Seq(S) /\ <<Header(c)>> \in Seq(S)
      BY <3>2, <3>3, SeqMonotonic
    <3>5. <<Header(c)>> \o c.body \in Seq(S)
      BY <3>4, ConcatProperties
    <3> QED  BY <3>5 DEF c
  <2> HIDE DEF n, S
  <2>3. u \in [1..n -> Seq(S)]
    BY <2>1, <2>2 DEF Stretches
  <2>4. u \in Seq(Seq(S)) /\ Len(u) = n
    BY <2>1, <2>3, SeqDef, LenProperties
  <2>5. Units(f) = FlattenSeq(u)
    BY <1>1, Zenon DEF Units, Stretches, Header
  <2> HIDE DEF u
  <2>6. Joins(u)[1] \in Seq(S)
    <3>1. 1 \in 1..Len(u) + 1
      BY <2>1, <2>4
    <3> QED  BY <2>4, <3>1, JoinsType
  <2> QED  BY <2>4, <2>5, <2>6, FlattenIsJoins DEF S
<1>2. CASE ~f.sparse
  BY <1>2, PlainIs DEF Units
<1> QED  BY <1>1, <1>2

LEMMA HeadersAreNumbered ==
  ASSUME NEW f \in Images, NEW h \in Alphabet(f)
  PROVE  /\ h.blks \in Nat /\ h.total \in Nat
         /\ OutLen(f, h) \in Int
<1>1. Numbered(Zero) /\ \A c \in Range(f.chunks) : Numbered(Header(c))
  BY SparseAssumption DEF Numbered, Zero, Unit, Header, ChunkHead
<1>2. Numbered(h)
  BY <1>1, SparseAssumption DEF Alphabet
<1>3. f.blk \in Nat /\ Half \in Nat \ {0} /\ h.blks \in Nat
  BY <1>2, SparseAssumption DEF Numbered
<1>4. ASSUME NEW x \in Nat PROVE Int64(x) \in Int
  <2>1. x % (2 * Half) \in Int
    BY <1>3
  <2> QED  BY <1>3, <2>1 DEF Int64
<1>5. h.blks * f.blk \in Nat
  BY <1>3
<1> QED  BY <1>2, <1>4, <1>5 DEF OutLen, Numbered

LEMMA NothingIsSequence == IsSequence(<<>>)
<1>1. <<>> \in Seq({})
  BY EmptySeq
<1> QED  BY <1>1, SequenceOf, Zenon

LEMMA TypeStarts == SparseInit => SparseType
  BY NothingIsSequence DEF SparseInit, SparseType

LEMMA TypeOpens ==
  ASSUME NEW f \in Images, OpenImage(f)
  PROVE  SparseType'
<1>1. Units(f) \in Seq(Alphabet(f))
  BY UnitsTyped
<1>2. Len(f.plain) \in Int
  BY SparseAssumption, SequenceIs
<1> QED  BY <1>1, <1>2, NothingIsSequence DEF OpenImage, SparseType

LEMMA TypeNext ==
  ASSUME SparseType, NextChunk
  PROVE  SparseType'
<1> DEFINE S == Alphabet(src)
           h == in[1]
           body == Tail(in)
<1>1. verdict = "reading" /\ src \in Images /\ in \in Seq(S) /\ rem \in Int /\ IsSequence(out)
  BY DEF NextChunk, SparseType
<1>2. CASE in = <<>>
  BY <1>1, <1>2 DEF NextChunk, Ends, SparseType
<1>3. CASE in # <<>>
  <2>1. body \in Seq(S) /\ h \in S /\ Len(body) \in Nat
    BY <1>1, <1>3, HeadTailProperties, ElementOfSeq, LenProperties
  <2>2. h.total \in Nat /\ OutLen(src, h) \in Int
    BY <1>1, <2>1, HeadersAreNumbered
  <2>3. Pat \in Nat /\ Skip(h.total - HeaderLen) \in Nat
    BY <2>2, SparseAssumption DEF Skip, HeaderLen
  <2>4. ASSUME NEW n \in Nat, n <= Len(body)
        PROVE  SubSeq(body, n + 1, Len(body)) \in Seq(S)
    BY <2>1, <2>4, Leaves
  <2>5. UNCHANGED <<src, out>> /\ verdict' \in {"reading", "error"}
    BY <1>1, <1>3 DEF NextChunk
  <2>6. \/ in' = in
        \/ \E n \in Nat : n <= Len(body) /\ in' = SubSeq(body, n + 1, Len(body))
    <3> HIDE DEF body, h
    <3> QED  BY <1>3, <2>1, <2>3 DEF NextChunk, body, h
  <2>7. rem' \in Int
    BY <1>1, <1>3, <2>2 DEF NextChunk
  <2>8. in' \in Seq(S)
    BY <1>1, <2>4, <2>6
  <2> HIDE DEF S
  <2> QED  BY <1>1, <2>5, <2>7, <2>8 DEF SparseType, S
<1> QED  BY <1>2, <1>3

LEMMA TypeEmits ==
  ASSUME SparseType, Emit
  PROVE  SparseType'
<1> DEFINE S == Alphabet(src)
<1>1. verdict = "reading" /\ src \in Images /\ in \in Seq(S) /\ rem \in Int /\ IsSequence(out)
  BY DEF Emit, SparseType
<1>2. PICK m \in 1..rem : EmitRaw(m) \/ EmitFill(m) \/ EmitZero(m)
  BY DEF Emit
<1> HIDE DEF S
<1>3. m \in Nat /\ Len(in) \in Nat
  BY <1>1, LenProperties
<1>4. ASSUME NEW t, IsSequence(t), out' = out \o t
      PROVE  IsSequence(out')
  BY <1>1, <1>4, SequencesJoin
<1>5. CASE EmitRaw(m) /\ in # <<>>
  <2> DEFINE r == IF m < Len(in) THEN m ELSE Len(in)
  <2>1. /\ out' = out \o SubSeq(in, 1, r) /\ in' = SubSeq(in, r + 1, Len(in)) /\ rem' = rem - r
        /\ src' = src /\ verdict' = verdict
    BY <1>5, Zenon DEF EmitRaw
  <2>2. r \in Nat /\ r <= Len(in)
    BY <1>3
  <2> HIDE DEF r
  <2>3. SubSeq(in, 1, r) \in Seq(S) /\ in' \in Seq(S)
    BY <1>1, <2>1, <2>2, Leaves
  <2>4. IsSequence(out')
    BY <1>4, <2>1, <2>3, SequenceOf
  <2> QED  BY <1>1, <2>1, <2>2, <2>3, <2>4 DEF SparseType, S
<1>6. CASE EmitRaw(m) /\ in = <<>>
  BY <1>1, <1>6 DEF EmitRaw, Ends, SparseType, S
<1>7. CASE EmitFill(m)
  <2> DEFINE t == [i \in 1..m |-> chunk.fill[((chunk.pos + i - 1) % Pat) + 1]]
  <2>1. out' = out \o t /\ rem' = rem - m /\ UNCHANGED <<src, in, verdict>>
    BY <1>7 DEF EmitFill
  <2>2. t = [i \in 1..m |-> t[i]]
    OBVIOUS
  <2> HIDE DEF t
  <2>3. IsSequence(out')
    BY <1>3, <1>4, <2>1, <2>2, FunctionsAreSequences
  <2> QED  BY <1>1, <1>3, <2>1, <2>3 DEF SparseType, S
<1>8. CASE EmitZero(m)
  <2> DEFINE t == [i \in 1..m |-> Zero]
  <2>1. out' = out \o t /\ rem' = rem - m /\ UNCHANGED <<src, in, verdict>>
    BY <1>8 DEF EmitZero
  <2>2. t = [i \in 1..m |-> t[i]]
    OBVIOUS
  <2> HIDE DEF t
  <2>3. IsSequence(out')
    BY <1>3, <1>4, <2>1, <2>2, FunctionsAreSequences
  <2> QED  BY <1>1, <1>3, <2>1, <2>3 DEF SparseType, S
<1> QED  BY <1>2, <1>5, <1>6, <1>7, <1>8

LEMMA TypeReads ==
  ASSUME SparseType, ReadImage
  PROVE  SparseType'
<1>1. CASE EndOfImage
  BY <1>1 DEF EndOfImage, Ends, SparseType
<1> QED  BY <1>1, TypeNext, TypeEmits DEF ReadImage
=============================================================================
