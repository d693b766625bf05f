-------------------------- MODULE SlotResolveProofs --------------------------
(***************************************************************************)
(* Why an install finds the spare slot of the disk that booted, and a      *)
(* capsule the ESP that firmware reads, whatever disk is plugged in beside *)
(* it: only the partitions of the boot disk matter, and what an update     *)
(* does to those is to take a label away.                                  *)
(***************************************************************************)
EXTENDS SlotResolve, TLAPS

\* The boot disk has both slots, a second disk can be listed, and GRUB, which has
\* no partition numbers to go by, has names.
Equipped == Mishaps = {} /\ <<"grubenv", "unnamed">> \notin Boards

NameIf(named, n) == IF named THEN n ELSE NoName

\* What a partition of the boot disk is.
BootPartition(p, named) ==
    \/ p.num = 1 /\ p.name = NameIf(named, "esp") /\ p.label = NoName /\ p.esp
    \/ p.num = 2 /\ p.name = NameIf(named, "A") /\ p.label \in {"A", NoName} /\ ~p.esp
    \/ p.num = 3 /\ p.name = NameIf(named, "B") /\ p.label \in {"B", NoName} /\ ~p.esp

\* The boot disk as it was flashed, but for labels that updates took away.
Flashed(ps, named) ==
    /\ ps \subseteq Partitions
    /\ \A p \in ps : p.disk = "boot" => BootPartition(p, named)
    /\ \A n \in {1, 2, 3} : \E p \in ps : p.disk = "boot" /\ p.num = n
    /\ \A p, q \in ps : p.disk = "boot" /\ q.disk = "boot" /\ p.num = q.num => p = q

\* Does the partition table of the boot disk carry names?
HasNames(ps) == \E p \in ps : p.disk = "boot" /\ p.name # NoName

\* Which disk booted, and from which slot of it.
Booted ==
    /\ Flashed(parts, HasNames(parts))
    /\ conn = "grubenv" \/ root = None => HasNames(parts)
    /\ root = None => Tegra
    /\ root # None => root \in parts /\ root.disk = "boot" /\ root.num \in {2, 3}
    /\ fw \in Slots
    /\ Tegra /\ ~HasNames(parts) => fw = Running

Mounted ==
    /\ mounted = [w \in Places |-> mounted[w]]
    /\ \A w \in Places : mounted[w] # None => mounted[w] \in parts /\ mounted[w].esp

\* How far an install has found its way.
Finding ==
    /\ pc \in {"idle", "target", "write", "stage", "staged"}
    /\ pc = "target" => cur = IF Tegra THEN fw ELSE Running
    /\ pc = "write" => dev \in SlotPartition(Other(Running))
    /\ pc \in {"stage", "staged"} => Tegra
    /\ layout \subseteq Partitions
    /\ pc \in {"write", "stage", "staged"} /\ root = None
         => \E p \in layout : p.disk = "boot" /\ p.name = "esp"
    /\ staged # None => /\ pc = "staged" /\ staged \in Partitions /\ staged.disk = "boot"
                        /\ FirmwareReads(layout, staged)

\* What is only a type.
Typed ==
    /\ conn \in {"ubootenv", "grubenv", "tegrauefi"} /\ marked \in BOOLEAN
    /\ order \in Seq({"boot", "other"})
    /\ dev \in Partitions \cup {None} /\ cur \in Slots \cup {NoName}

SlotsInv == Booted /\ Mounted /\ Finding /\ Typed

---------------------------------------------------------------------------
(* The boot disk. *)

LEMMA Numbers ==
  /\ Number["A"] = 2 /\ Number["B"] = 3
  /\ \A s \in Slots : Other(s) \in Slots /\ Other(s) # s /\ s # NoName /\ s # "esp"
  /\ \A s, t \in Slots : Number[s] = Number[t] => s = t
  BY DEF Number, Slots, Other, NoName

LEMMA NoneIsNoPartition == None \notin Partitions
<1>1. SUFFICES ASSUME None \in Partitions PROVE FALSE
  OBVIOUS
<1>2. None.disk \in {"boot", "other"} /\ None.disk = "none"
  BY <1>1 DEF Partitions, None
<1> QED  BY <1>2

\* A slot is one partition of the boot disk.
LEMMA OneSlot ==
  ASSUME NEW ps, NEW named \in BOOLEAN, Flashed(ps, named), NEW s \in Slots
  PROVE  \E p \in ps : /\ {q \in {r \in ps : r.disk = "boot"} : q.num = Number[s]} = {p}
                       /\ p.disk = "boot" /\ p.num = Number[s] /\ p.name = NameIf(named, s)
                       /\ p.label \in {s, NoName} /\ ~p.esp
<1>1. Number[s] \in {1, 2, 3}
  BY Numbers DEF Slots
<1>2. PICK p \in ps : p.disk = "boot" /\ p.num = Number[s]
  BY <1>1 DEF Flashed
<1>3. BootPartition(p, named)
  BY <1>2 DEF Flashed
<1>4. p.name = NameIf(named, s) /\ p.label \in {s, NoName} /\ ~p.esp
  BY <1>2, <1>3, Numbers DEF BootPartition, Slots
<1>5. \A q \in ps : q.disk = "boot" /\ q.num = Number[s] => q = p
  BY <1>2 DEF Flashed
<1> QED  BY <1>2, <1>4, <1>5

\* Among the partitions of the boot disk a slot's name is the slot's alone.
LEMMA OneName ==
  ASSUME NEW ps, NEW named \in BOOLEAN, Flashed(ps, named), NEW s \in Slots,
         NEW p \in ps, p.disk = "boot", p.name = s \/ p.label = s
  PROVE  p.num = Number[s]
<1>1. BootPartition(p, named)
  BY DEF Flashed
<1> QED  BY <1>1, Numbers DEF BootPartition, NameIf, Slots, NoName

LEMMA NamesAreNames ==
  ASSUME NEW ps, NEW named \in BOOLEAN, Flashed(ps, named)
  PROVE  HasNames(ps) <=> named
<1>1. PICK p \in ps : p.disk = "boot" /\ p.num = 1
  BY DEF Flashed
<1>2. \A q \in ps : q.disk = "boot" => BootPartition(q, named)
  BY DEF Flashed
<1> QED  BY <1>1, <1>2 DEF HasNames, BootPartition, NameIf, NoName

LEMMA RunningSlot ==
  ASSUME Booted
  PROVE  /\ Running \in Slots /\ Other(Running) \in Slots
         /\ root # None => root.num = Number[Running] /\ root \in SlotPartition(Running)
<1>1. CASE root = None
  BY <1>1, Numbers DEF Booted, Running
<1>2. CASE root # None
  <2>1. \E s \in Slots : Number[s] = root.num
    BY <1>2, Numbers DEF Booted, Slots
  <2>2. Running \in Slots /\ Number[Running] = root.num
    BY <1>2, <2>1 DEF Running
  <2> QED  BY <1>2, <2>2, Numbers DEF Booted, SlotPartition, On
<1> QED  BY <1>1, <1>2

LEMMA SlotOfBoard ==
  ASSUME Booted, NEW s \in Slots
  PROVE  \E p \in parts : /\ SlotPartition(s) = {p}
                          /\ p.disk = "boot" /\ p.num = Number[s] /\ p.name = NameIf(HasNames(parts), s)
                          /\ p.label \in {s, NoName} /\ ~p.esp
<1>1. HasNames(parts) \in BOOLEAN
  BY DEF HasNames
<1> QED  BY <1>1, OneSlot DEF Booted, SlotPartition, On

---------------------------------------------------------------------------
(* ubootenv and grubenv. *)

\* With the inventory at hand a slot is found on the root's disk.
LEMMA FoundOnDisk ==
  ASSUME Booted, Typed, ~Tegra, NEW s \in Slots
  PROVE  PartitionFor(s, parts) = SlotPartition(s)
<1>1. root # None /\ root \in parts /\ root.disk = "boot"
  BY DEF Booted
<1>2. PICK p \in parts : /\ SlotPartition(s) = {p}
                         /\ p.disk = "boot" /\ p.name = NameIf(HasNames(parts), s)
  BY SlotOfBoard
<1>3. CASE Numbered(parts)
  <2>1. {q \in {r \in parts : r.disk = root.disk} : q.num = Number[s]} = SlotPartition(s)
    BY <1>1 DEF SlotPartition, On
  <2> QED  BY <1>1, <1>2, <1>3, <2>1 DEF PartitionFor, OrError
<1>4. CASE ~Numbered(parts)
  <2>1. HasNames(parts)
    BY <1>1, <1>4 DEF Numbered, HasNames, Booted, Typed, Tegra
  <2>2. \A q \in parts : q.disk = "boot" => EffectiveLabel(q) = q.name
    BY <2>1, Numbers DEF Booted, Flashed, BootPartition, NameIf, EffectiveLabel, Slots, NoName
  <2>3. \A q \in parts : q.disk = "boot" /\ q.name = s => q \in SlotPartition(s)
    <3>1. HasNames(parts) \in BOOLEAN
      BY DEF HasNames
    <3> QED  BY <3>1, OneName DEF Booted, SlotPartition, On
  <2>4. {q \in {r \in parts : r.disk = root.disk} : EffectiveLabel(q) = s} = SlotPartition(s)
    BY <1>1, <1>2, <2>1, <2>2, <2>3 DEF NameIf
  <2> QED  BY <1>1, <1>2, <1>4, <2>4 DEF PartitionFor
<1> QED  BY <1>3, <1>4

\* Without it there is no second disk whose links could mislead.
LEMMA FoundByLink ==
  ASSUME Booted, parts = On("boot"), NEW s \in Slots
  PROVE  PartitionFor(s, {}) \subseteq SlotPartition(s) \cup {None}
<1>1. HasNames(parts) \in BOOLEAN
  BY DEF HasNames
<1>2. \A p \in parts : p.disk = "boot"
  BY DEF On
<1>3. \A p \in parts : p.name = s \/ p.label = s => p \in SlotPartition(s)
  BY <1>1, <1>2, OneName DEF Booted, SlotPartition, On
<1>4. Links(s) \subseteq SlotPartition(s)
  BY <1>3 DEF Links
<1> QED  BY <1>4 DEF PartitionFor, OrError

LEMMA TrialFinds ==
  ASSUME Mishaps = {}, Booted, Typed, ~Tegra, NEW s \in Slots, NEW l \in Listings
  PROVE  PartitionFor(s, l) \subseteq SlotPartition(s) \cup {None}
  BY FoundOnDisk, FoundByLink DEF Listings

\* The running root is the running slot, by its own entry or as what a slot leads to.
LEMMA RunningByEntry ==
  ASSUME Booted, Typed, ~Tegra
  PROVE  OwnSlot(parts) = {Running}
<1>1. root # None /\ root \in parts /\ root.disk = "boot"
  BY DEF Booted
<1>2. Running \in Slots /\ root.num = Number[Running] /\ root \in SlotPartition(Running)
  BY <1>1, RunningSlot
<1>3. CASE Numbered(parts)
  BY <1>1, <1>2, <1>3, Numbers DEF OwnSlot
<1>4. CASE ~Numbered(parts)
  <2>1. HasNames(parts)
    BY <1>1, <1>4 DEF Numbered, HasNames, Booted, Typed, Tegra
  <2>2. root.name = Running
    BY <1>2, <2>1, SlotOfBoard DEF NameIf
  <2>3. EffectiveLabel(root) = Running
    BY <1>2, <2>2, Numbers DEF EffectiveLabel
  <2> QED  BY <1>1, <1>2, <1>4, <2>3 DEF OwnSlot
<1> QED  BY <1>3, <1>4

LEMMA RunningFound ==
  ASSUME Mishaps = {}, Booted, Typed, ~Tegra, NEW l \in Listings
  PROVE  CurrentSlot(l) \subseteq {Running, NoName}
<1>1. root # None /\ Running \in Slots /\ root \in SlotPartition(Running)
  BY RunningSlot DEF Booted
<1>2. CASE l = parts
  BY <1>2, RunningByEntry DEF CurrentSlot
<1>3. CASE l = {} /\ parts = On("boot")
  <2>1. OwnSlot(l) = {}
    BY <1>3 DEF OwnSlot
  <2>2. ASSUME NEW s \in Slots, NEW p \in PartitionFor(s, l), p = root
        PROVE  s = Running
    <3>1. p \in SlotPartition(s)
      BY <1>1, <1>3, <2>2, FoundByLink
    <3> QED  BY <1>1, <2>2, <3>1, Numbers DEF SlotPartition
  <2>3. "A" \in Slots /\ "B" \in Slots
    BY DEF Slots
  <2> QED  BY <2>1, <2>2, <2>3 DEF CurrentSlot
<1> QED  BY <1>2, <1>3 DEF Listings

---------------------------------------------------------------------------
(* tegrauefi. *)

\* The only one there is, or none.
LEMMA OneOfThem ==
  ASSUME NEW found
  PROVE  /\ One(found) \in found \cup {None}
         /\ One(found) # None => \A p \in found : One(found) = p
  BY DEF One

\* The slot that an install on a Jetson is to write: by name, or next to the root.
LEMMA SpareFound ==
  ASSUME Booted, Tegra
  PROVE  SlotDevice(parts, Other(fw)) \in SlotPartition(Other(Running)) \cup {None}
<1> DEFINE s == Other(fw)
           d == SlotDevice(parts, s)
<1>1. s \in Slots /\ s # fw /\ fw \in Slots
  BY Numbers DEF Booted
<1>2. PICK p \in parts : /\ SlotPartition(s) = {p} /\ p.disk = "boot" /\ p.num = Number[s]
                         /\ p.name = NameIf(HasNames(parts), s)
  BY <1>1, SlotOfBoard
<1>3. CASE root = None
  <2>1. p \in {q \in parts : q.name = s} /\ Running = fw
    BY <1>2, <1>3 DEF Booted, NameIf, Running
  <2>2. d = One({q \in parts : q.name = s})
    BY <1>3 DEF SlotDevice, AnyDisk
  <2>3. d \in {p, None}
    BY <2>1, <2>2, OneOfThem
  <2> QED  BY <1>2, <2>1, <2>3
<1>4. CASE root # None /\ Unlabelled(parts)
  <2>1. root.disk = "boot" /\ fw = Running /\ root.num = Number[fw]
    BY <1>4, RunningSlot DEF Booted, Unlabelled, HasNames
  <2> DEFINE near == {q \in parts : q.disk = root.disk /\ q.num + Number[fw] = root.num + Number[s]}
  <2>2. d = One(near)
    BY <1>1, <1>4 DEF SlotDevice, SlotByNumber
  <2>3. p \in near
    BY <1>1, <1>2, <2>1, Numbers DEF Slots
  <2>4. d \in {p, None}
    BY <2>2, <2>3, OneOfThem
  <2> QED  BY <1>2, <2>1, <2>4
<1>5. CASE root # None /\ ~Unlabelled(parts) /\ root.name = fw
  <2>1. root.disk = "boot" /\ HasNames(parts)
    BY <1>5 DEF Booted, Unlabelled, HasNames
  <2>2. Running = fw
    BY <1>5, <2>1, RunningSlot, SlotOfBoard DEF NameIf
  <2> DEFINE same == {q \in parts : q.disk = root.disk /\ q.name = s}
  <2>3. d = One(same)
    BY <1>5 DEF SlotDevice, OnBootDisk
  <2>4. p \in same
    BY <1>2, <2>1 DEF NameIf
  <2>5. d \in {p, None}
    BY <2>3, <2>4, OneOfThem
  <2> QED  BY <1>2, <2>2, <2>5
<1>6. CASE root # None /\ ~Unlabelled(parts) /\ root.name # fw
  BY <1>6 DEF SlotDevice
<1> QED  BY <1>3, <1>4, <1>5, <1>6

\* The ESP that takes the capsule is on the disk of the root, and firmware reads it.
LEMMA EspFound ==
  ASSUME NEW l,
         root # None => root.disk = "boot",
         root = None => \E p \in l : p.disk = "boot" /\ p.name = "esp",
         CapsuleEsp(l) # None
  PROVE  /\ CapsuleEsp(l) \in l /\ CapsuleEsp(l).disk = "boot" /\ CapsuleEsp(l).name = "esp"
         /\ FirmwareReads(l, CapsuleEsp(l))
<1> DEFINE e == CapsuleEsp(l)
<1>1. e = Find(l, "esp") /\ e # None /\ FirmwareReads(l, e)
  BY DEF CapsuleEsp
<1>2. CASE root = None
  <2>1. e = One({p \in l : p.name = "esp"})
    BY <1>1, <1>2 DEF Find, AnyDisk
  <2> QED  BY <1>1, <1>2, <2>1, OneOfThem
<1>3. CASE root # None
  <2>1. e = One({p \in l : p.disk = root.disk /\ p.name = "esp"})
    BY <1>1, <1>3 DEF Find, OnBootDisk
  <2> QED  BY <1>1, <1>3, <2>1, OneOfThem
<1> QED  BY <1>2, <1>3

\* What firmware looks at depends on which disks have an ESP, and on nothing else.
LEMMA SameEsps ==
  ASSUME NEW l, NEW m, EspDisks(l) = EspDisks(m), NEW esp
  PROVE  FirmwareReads(l, esp) <=> FirmwareReads(m, esp)
  BY DEF FirmwareReads, FirstEsp

---------------------------------------------------------------------------
(* The steps. *)

LEMMA SlotsInit == Equipped /\ Init => SlotsInv
<1> SUFFICES ASSUME Equipped, Init PROVE SlotsInv
  OBVIOUS
<1>1. PICK b \in Boards : /\ conn = b[1]
                          /\ parts \in BootDisks(b[2])
                          /\ root \in SlotPartition("A") \cup {p \in {None} : Tegra /\ b[2] = "named"}
  BY DEF Init
<1>2. /\ b[1] \in {"ubootenv", "grubenv", "tegrauefi"} /\ b[2] \in {"named", "unnamed"}
      /\ b = <<b[1], b[2]>> /\ b # <<"grubenv", "unnamed">>
  BY SlotResolveAssumption DEF Equipped
<1> DEFINE named == b[2] = "named"
<1>3. parts = IF named THEN Named("boot") ELSE Unnamed("boot")
  BY <1>1, <1>2 DEF BootDisks, Equipped
<1>4. Flashed(parts, named)
  <2> DEFINE P(n, x, l) == Partition("boot", n, NameIf(named, x), l)
  <2>1. parts = {P(1, "esp", NoName), P(2, "A", "A"), P(3, "B", "B")}
    BY <1>3 DEF Named, Unnamed, NameIf
  <2>2. \A n \in {1, 2, 3} : \A x, l :
          /\ P(n, x, l).disk = "boot" /\ P(n, x, l).num = n /\ P(n, x, l).name = NameIf(named, x)
          /\ P(n, x, l).label = l /\ (P(n, x, l).esp <=> n = 1)
    BY DEF Partition
  <2>3. \A n \in {1, 2, 3}, x \in Names, l \in Names : P(n, x, l) \in Partitions
    BY DEF Partition, Partitions, Names, NameIf
  <2>4. {"A", "B", "esp", NoName} \subseteq Names
    BY DEF Names, Slots
  <2> HIDE DEF P
  <2>5. parts \subseteq Partitions
    BY <2>1, <2>3, <2>4
  <2>6. /\ BootPartition(P(1, "esp", NoName), named)
        /\ BootPartition(P(2, "A", "A"), named) /\ BootPartition(P(3, "B", "B"), named)
    BY <2>2 DEF BootPartition
  <2>7. \A n \in {1, 2, 3} : \E p \in parts : p.disk = "boot" /\ p.num = n
    BY <2>1, <2>2
  <2>8. \A p, q \in parts : p.num = q.num => p = q
    BY <2>1, <2>2
  <2> QED  BY <2>1, <2>5, <2>6, <2>7, <2>8 DEF Flashed
<1>5. HasNames(parts) = named
  BY <1>4, NamesAreNames DEF HasNames
<1>6. root # None => root \in parts /\ root.disk = "boot" /\ root.num = 2
  BY <1>1, Numbers DEF SlotPartition, On
<1>7. fw = "A" /\ "A" \in Slots
  BY DEF Init, Slots
<1>8. Running = "A"
  BY <1>6, <1>7, Numbers DEF Running, Slots
<1>9. Booted
  <2>1. conn = "grubenv" => named
    <3>1. b[1] = "grubenv" /\ b[2] = "unnamed" => b = <<"grubenv", "unnamed">>
      BY <1>2
    <3> QED  BY <1>1, <1>2, <3>1
  <2>2. root = None => Tegra /\ named
    <3>1. None \notin SlotPartition("A")
      BY <1>4, NoneIsNoPartition DEF Flashed, SlotPartition, On
    <3> QED  BY <1>1, <3>1
  <2> HIDE DEF named
  <2> QED  BY <1>4, <1>5, <1>6, <1>7, <1>8, <2>1, <2>2 DEF Booted
<1>10. Mounted
  <2>1. mounted = [w \in Places |-> None]
    BY DEF Init
  <2> HIDE DEF Init
  <2> QED  BY <2>1 DEF Mounted
<1>11. Finding
  BY DEF Init, NoJob, Finding
<1>12. Typed
  <2>1. order \in {<<"boot", "other">>, <<"other", "boot">>, <<"boot">>, <<>>} /\ marked \in BOOLEAN
    BY DEF Init
  <2>2. order \in Seq({"boot", "other"})
    <3>1. /\ <<"boot", "other">> \in Seq({"boot", "other"}) /\ <<"other", "boot">> \in Seq({"boot", "other"})
          /\ <<"boot">> \in Seq({"boot", "other"})
      OBVIOUS
    <3>2. << >> \in Seq({"boot", "other"})
      OBVIOUS
    <3> QED  BY <2>1, <3>1, <3>2
  <2>3. dev = None /\ cur = NoName
    BY DEF Init, NoJob
  <2> QED  BY <1>1, <1>2, <2>1, <2>2, <2>3 DEF Typed
<1> QED  BY <1>9, <1>10, <1>11, <1>12 DEF SlotsInv

\* The board is the same as long as its disk is.
LEMMA BoardKept ==
  ASSUME Booted, UNCHANGED <<conn, root, fw>>,
         Flashed(parts', HasNames(parts)), root # None => root \in parts'
  PROVE  Booted' /\ Running' = Running /\ HasNames(parts') = HasNames(parts)
<1>1. HasNames(parts) \in BOOLEAN /\ HasNames(parts') \in BOOLEAN
  BY DEF HasNames
<1>2. HasNames(parts') = HasNames(parts)
  BY <1>1, NamesAreNames
<1>3. Running' = Running /\ Tegra' = Tegra
  BY DEF Running, Tegra
<1> QED  BY <1>2, <1>3 DEF Booted

LEMMA BoardSame ==
  ASSUME Booted, UNCHANGED <<conn, root, fw, parts>>
  PROVE  /\ Booted' /\ Running' = Running /\ Tegra' = Tegra
         /\ \A s : SlotPartition(s)' = SlotPartition(s)
  BY DEF Booted, Running, Tegra, SlotPartition, On

\* A write takes nothing but a label.
LEMMA WriteKeepsBoard ==
  ASSUME Equipped, SlotsInv, InstallWrite
  PROVE  /\ Flashed(parts', HasNames(parts))
         /\ dev.disk = "boot" /\ dev # root /\ ~dev.esp
         /\ parts \ {dev} \subseteq parts'
<1>1. pc = "write" /\ dev \in SlotPartition(Other(Running)) /\ Booted
  BY DEF InstallWrite, SlotsInv, Finding
<1>2. Running \in Slots /\ Other(Running) \in Slots /\ (root # None => root.num = Number[Running])
  BY <1>1, RunningSlot
<1>3. /\ SlotPartition(Other(Running)) = {dev} /\ dev \in parts
      /\ dev.disk = "boot" /\ dev.num = Number[Other(Running)]
      /\ dev.name = NameIf(HasNames(parts), Other(Running))
      /\ dev.label \in {Other(Running), NoName} /\ ~dev.esp
  BY <1>1, <1>2, SlotOfBoard
<1>4. PICK l \in {dev.label, NoName} : parts' = (parts \ {dev}) \cup {[dev EXCEPT !.label = l]}
  BY DEF InstallWrite, Relabelled
<1> DEFINE new == [dev EXCEPT !.label = l]
<1>5. dev \in Partitions
  BY <1>1, <1>3 DEF Booted, Flashed
<1>6. /\ new \in Partitions /\ new.disk = dev.disk /\ new.num = dev.num /\ new.name = dev.name
      /\ new.esp = dev.esp /\ new.label = l
  BY <1>5 DEF Partitions, Names, NoName
<1>7. BootPartition(new, HasNames(parts))
  <2>1. BootPartition(dev, HasNames(parts))
    BY <1>1, <1>3 DEF Booted, Flashed
  <2> HIDE DEF new
  <2> QED  BY <1>4, <1>6, <2>1 DEF BootPartition
<1>8. Flashed(parts', HasNames(parts))
  <2> HIDE DEF new
  <2>1. parts' \subseteq Partitions /\ \A p \in parts' : p.disk = "boot" => BootPartition(p, HasNames(parts))
    BY <1>1, <1>4, <1>6, <1>7 DEF new, Booted, Flashed
  <2>2. ASSUME NEW n \in {1, 2, 3}
        PROVE  \E p \in parts' : p.disk = "boot" /\ p.num = n
    <3>1. PICK p \in parts : p.disk = "boot" /\ p.num = n
      BY <1>1 DEF Booted, Flashed
    <3>2. CASE p = dev
      BY <1>3, <1>4, <1>6, <3>1, <3>2 DEF new
    <3>3. CASE p # dev
      BY <1>4, <3>1, <3>3
    <3> QED  BY <3>2, <3>3
  <2>3. ASSUME NEW p \in parts', NEW q \in parts', p.disk = "boot", q.disk = "boot", p.num = q.num
        PROVE  p = q
    <3>1. \A x, y \in parts : x.disk = "boot" /\ y.disk = "boot" /\ x.num = y.num => x = y
      BY <1>1 DEF Booted, Flashed
    <3>2. p = new \/ p \in parts \ {dev}
      BY <1>4 DEF new
    <3>3. q = new \/ q \in parts \ {dev}
      BY <1>4 DEF new
    <3> QED  BY <1>3, <1>6, <2>3, <3>1, <3>2, <3>3
  <2> QED  BY <2>1, <2>2, <2>3 DEF Flashed
<1>9. dev # root
  <2>1. None \notin Partitions
    BY NoneIsNoPartition
  <2> QED  BY <1>2, <1>3, <1>5, <2>1, Numbers
<1> QED  BY <1>3, <1>4, <1>8, <1>9

LEMMA WriteKeeps ==
  ASSUME Equipped, SlotsInv, InstallWrite
  PROVE  SlotsInv'
<1>1. Flashed(parts', HasNames(parts)) /\ dev # root /\ ~dev.esp /\ parts \ {dev} \subseteq parts'
  BY WriteKeepsBoard
<1>2. UNCHANGED <<conn, root, fw, order, marked, mounted>>
  BY DEF InstallWrite, board
<1>3. Booted' /\ Running' = Running
  BY <1>1, <1>2, BoardKept DEF SlotsInv, Booted
<1>4. Mounted'
  BY <1>1, <1>2 DEF SlotsInv, Mounted
<1>5. Finding'
  BY <1>2 DEF SlotsInv, Finding, InstallWrite, Quit, Tegra, FirmwareReads, FirstEsp
<1>6. Typed'
  BY <1>2 DEF SlotsInv, Typed, InstallWrite, Quit
<1> QED  BY <1>3, <1>4, <1>5, <1>6 DEF SlotsInv

\* The other disk comes and goes; what an install holds in its hands does not.
LEMMA PlugKeeps ==
  ASSUME SlotsInv, Plug \/ Unplug
  PROVE  SlotsInv'
<1>1. UNCHANGED <<board, job>>
  BY DEF Plug, Unplug
<1>2. parts' \subseteq Partitions /\ \A p : p \in parts' /\ p.disk = "boot" <=> p \in parts /\ p.disk = "boot"
  <2>1. CASE Plug
    <3>1. PICK d \in OtherDisks : parts' = parts \cup d
      BY <2>1 DEF Plug
    <3>2. \A p \in d : p \in Partitions /\ p.disk = "other"
      BY SlotResolveAssumption
    <3> QED  BY <3>1, <3>2 DEF SlotsInv, Booted, Flashed
  <2>2. CASE Unplug
    BY <2>2 DEF Unplug, On, SlotsInv, Booted, Flashed
  <2> QED  BY <2>1, <2>2
<1>3. Flashed(parts', HasNames(parts))
  BY <1>2 DEF SlotsInv, Booted, Flashed
<1>4. Booted' /\ Running' = Running
  BY <1>1, <1>2, <1>3, BoardKept DEF board, SlotsInv, Booted
<1>5. \A s : SlotPartition(s)' = SlotPartition(s)
  BY <1>2 DEF SlotPartition, On
<1>6. Mounted'
  <2>1. CASE Plug
    BY <2>1 DEF Plug, SlotsInv, Mounted
  <2>2. CASE Unplug
    <3>1. \A w \in Places : mounted[w] \in parts /\ mounted[w] \notin On("other") => mounted[w] \in On("boot")
      BY DEF On, SlotsInv, Booted, Flashed, Partitions
    <3> QED  BY <2>2, <3>1 DEF Unplug, SlotsInv, Mounted
  <2> QED  BY <2>1, <2>2
<1>7. Finding'
  BY <1>1, <1>4, <1>5 DEF board, job, SlotsInv, Finding, Tegra, FirmwareReads, FirstEsp
<1>8. Typed'
  BY <1>1 DEF board, job, SlotsInv, Typed
<1> QED  BY <1>4, <1>6, <1>7, <1>8 DEF SlotsInv

LEMMA RebootKeeps ==
  ASSUME SlotsInv, Reboot
  PROVE  SlotsInv'
<1>1. PICK s \in Slots :
         /\ root' \in IF root = None THEN {None} ELSE SlotPartition(s)
         /\ fw' \in {s} \cup {t \in Slots : Tegra /\ root # None /\ root.name # NoName}
  BY DEF Reboot
<1>2. UNCHANGED <<conn, parts, order, marked>> /\ pc' = "idle"
  BY DEF Reboot, Quit
<1>3. Booted /\ fw' \in Slots
  BY <1>1 DEF SlotsInv
<1>4. ASSUME root = None
      PROVE  Booted'
  BY <1>1, <1>2, <1>3, <1>4 DEF Booted, Running, Tegra
<1>5. ASSUME root # None
      PROVE  Booted'
  <2>1. /\ root' \in parts /\ root'.disk = "boot" /\ root'.num = Number[s] /\ root' # None
    BY <1>1, <1>3, <1>5, NoneIsNoPartition DEF SlotPartition, On, Booted, Flashed
  <2>2. root'.num \in {2, 3}
    BY <2>1, Numbers DEF Slots
  <2>3. Running' = s
    BY <2>1, Numbers DEF Running
  <2>4. ~HasNames(parts) => fw' = s
    BY <1>1, <1>3, <1>5 DEF Booted, HasNames
  <2> QED  BY <1>2, <1>3, <1>5, <2>1, <2>2, <2>3, <2>4 DEF Booted, Tegra
<1>6. Booted'
  BY <1>4, <1>5
<1>7. Mounted'
  BY DEF Reboot, Mounted
<1>8. Finding' /\ Typed'
  BY <1>2 DEF Reboot, Quit, Finding, SlotsInv, Typed
<1> QED  BY <1>6, <1>7, <1>8 DEF SlotsInv

LEMMA CurrentKeeps ==
  ASSUME Equipped, SlotsInv, InstallCurrent
  PROVE  SlotsInv'
<1>1. /\ UNCHANGED <<conn, root, fw, order, marked, parts, mounted, dev, layout, staged>>
      /\ pc = "idle" /\ pc' = "target" /\ cur' # NoName
  BY DEF InstallCurrent, board
<1>2. cur' = (IF Tegra THEN fw ELSE Running) /\ cur' \in Slots
  <2>1. PICK l \in Listings : cur' \in IF Tegra THEN {fw} ELSE CurrentSlot(l)
    BY DEF InstallCurrent
  <2>2. Tegra \/ cur' \in {Running, NoName}
    BY <2>1, RunningFound DEF Equipped, SlotsInv
  <2> QED  BY <1>1, <2>1, <2>2, RunningSlot DEF SlotsInv, Booted
<1>3. Booted' /\ Running' = Running /\ Tegra' = Tegra
  BY <1>1, BoardSame DEF SlotsInv
<1>4. Mounted' /\ Typed'
  BY <1>1, <1>2 DEF SlotsInv, Mounted, Typed
<1>5. Finding'
  BY <1>1, <1>2, <1>3 DEF SlotsInv, Finding, FirmwareReads, FirstEsp
<1> QED  BY <1>3, <1>4, <1>5 DEF SlotsInv

LEMMA TargetKeeps ==
  ASSUME Equipped, SlotsInv, InstallTarget
  PROVE  SlotsInv'
<1>1. /\ UNCHANGED <<conn, root, fw, order, marked, parts, mounted, cur, staged>>
      /\ pc = "target" /\ pc' = "write" /\ layout' = IF Tegra THEN parts ELSE {}
  BY DEF InstallTarget, board
<1>2. Booted /\ Typed /\ cur = IF Tegra THEN fw ELSE Running
  BY <1>1 DEF SlotsInv, Finding
<1>3. Running \in Slots /\ Other(Running) \in Slots
  BY <1>2, RunningSlot
<1>4. dev' \in SlotPartition(Other(Running))
  <2>1. PICK l \in Listings :
          dev' \in IF Tegra THEN {SlotDevice(parts, Other(cur))} ELSE PartitionFor(Other(cur), l)
    BY DEF InstallTarget
  <2>2. dev' # None
    BY DEF InstallTarget
  <2>3. CASE Tegra
    BY <1>2, <2>1, <2>2, <2>3, SpareFound
  <2>4. CASE ~Tegra
    BY <1>2, <1>3, <2>1, <2>2, <2>4, TrialFinds DEF Equipped
  <2> QED  BY <2>3, <2>4
<1>5. dev' \in Partitions /\ parts \subseteq Partitions
  BY <1>2, <1>4 DEF SlotPartition, On, Booted, Flashed
<1>6. Booted' /\ Running' = Running /\ Tegra' = Tegra /\ \A s : SlotPartition(s)' = SlotPartition(s)
  BY <1>1, <1>2, BoardSame
<1>7. Mounted' /\ Typed'
  BY <1>1, <1>5 DEF SlotsInv, Mounted, Typed
<1>8. root = None => \E p \in layout' : p.disk = "boot" /\ p.name = "esp"
  <2> SUFFICES ASSUME root = None PROVE \E p \in parts : p.disk = "boot" /\ p.name = "esp"
    BY <1>1, <1>2 DEF Booted
  <2>1. PICK p \in parts : p.disk = "boot" /\ p.num = 1
    BY <1>2 DEF Booted, Flashed
  <2>2. BootPartition(p, TRUE)
    BY <1>2, <2>1 DEF Booted, Flashed, HasNames
  <2> QED  BY <2>1, <2>2 DEF BootPartition, NameIf
<1>9. Finding'
  BY <1>1, <1>4, <1>5, <1>6, <1>8 DEF SlotsInv, Finding
<1> QED  BY <1>6, <1>7, <1>9 DEF SlotsInv

\* What is mounted is an ESP: the private mount is of the one that was found.
LEMMA StageKeeps ==
  ASSUME SlotsInv, InstallStage
  PROVE  SlotsInv'
<1> DEFINE esp == CapsuleEsp(layout)
<1>1. /\ UNCHANGED <<conn, root, fw, order, marked, parts, cur, dev, layout>>
      /\ pc = "stage" /\ pc' = "staged" /\ staged' = esp /\ esp \in parts
      /\ mounted' = mounted \/ mounted' = [mounted EXCEPT !["private"] = esp]
  BY DEF InstallStage, board
<1>2. Booted /\ parts \subseteq Partitions /\ esp # None
  BY <1>1, NoneIsNoPartition DEF SlotsInv, Booted, Flashed
<1>3. esp.disk = "boot" /\ esp.name = "esp" /\ FirmwareReads(layout, esp)
  BY <1>1, <1>2, EspFound DEF SlotsInv, Booted, Finding
<1>4. esp.esp
  <2>1. BootPartition(esp, HasNames(parts))
    BY <1>1, <1>2, <1>3 DEF Booted, Flashed
  <2> QED  BY <1>3, <2>1, Numbers DEF BootPartition, NameIf, NoName, Slots
<1> HIDE DEF esp
<1>5. Mounted'
  BY <1>1, <1>4 DEF SlotsInv, Mounted
<1>6. Booted' /\ Running' = Running /\ Tegra' = Tegra
  BY <1>1, <1>2, BoardSame
<1>7. Finding'
  BY <1>1, <1>2, <1>3, <1>6 DEF SlotsInv, Finding, FirmwareReads, FirstEsp
<1>8. Typed'
  BY <1>1 DEF SlotsInv, Typed
<1> QED  BY <1>5, <1>6, <1>7, <1>8 DEF SlotsInv

LEMMA EndsKeep ==
  ASSUME SlotsInv, InstallEnds \/ Mount
  PROVE  SlotsInv'
<1>1. UNCHANGED <<conn, root, fw, order, marked, parts>>
  BY DEF InstallEnds, Mount, board
<1>2. Booted' /\ Running' = Running /\ Tegra' = Tegra /\ \A s : SlotPartition(s)' = SlotPartition(s)
  BY <1>1, BoardSame DEF SlotsInv
<1>3. Mounted'
  BY <1>1 DEF InstallEnds, Mount, SlotsInv, Mounted
<1>4. Finding' /\ Typed'
  <2>1. CASE InstallEnds
    BY <1>1, <2>1 DEF InstallEnds, Quit, SlotsInv, Finding, Typed
  <2>2. CASE Mount
    BY <1>1, <1>2, <2>2 DEF Mount, job, SlotsInv, Finding, Typed, FirmwareReads, FirstEsp
  <2> QED  BY <2>1, <2>2
<1> QED  BY <1>2, <1>3, <1>4 DEF SlotsInv

LEMMA SlotsKept ==
  ASSUME Equipped, SlotsInv, [Next]_vars
  PROVE  SlotsInv'
<1>1. CASE UNCHANGED vars
  <2>1. Booted' /\ Running' = Running /\ Tegra' = Tegra /\ \A s : SlotPartition(s)' = SlotPartition(s)
    BY <1>1, BoardSame DEF SlotsInv, vars, board
  <2>2. Mounted' /\ Typed'
    BY <1>1 DEF SlotsInv, Mounted, Typed, vars, board, job
  <2>3. Finding'
    BY <1>1, <2>1 DEF SlotsInv, Finding, FirmwareReads, FirstEsp, vars, board, job
  <2> QED  BY <2>1, <2>2, <2>3 DEF SlotsInv
<1> QED
  BY <1>1, CurrentKeeps, TargetKeeps, WriteKeeps, StageKeeps, EndsKeep, PlugKeeps, RebootKeeps DEF Next

---------------------------------------------------------------------------
(* The theorems. *)

LEMMA SlotsAlways ==
  ASSUME Equipped
  PROVE  Spec => []SlotsInv
<1>1. Init => SlotsInv
  BY SlotsInit
<1>2. SlotsInv /\ [Next]_vars => SlotsInv'
  BY SlotsKept
<1> QED  BY <1>1, <1>2, PTL DEF Spec

\* Every variable keeps its type; the root and what is mounted are partitions that
\* are there, since no install writes over them.
THEOREM PartitionsAreThere ==
  ASSUME Equipped
  PROVE  Spec => []TypeOK
<1>1. SlotsInv => TypeOK
  <2> SUFFICES ASSUME SlotsInv PROVE TypeOK
    OBVIOUS
  <2>1. \A w \in Places : mounted[w] \in parts \cup {None}
    BY DEF SlotsInv, Mounted
  <2>2. mounted \in [Places -> parts \cup {None}]
    BY <2>1 DEF SlotsInv, Mounted
  <2>3. parts \in SUBSET Partitions /\ layout \in SUBSET Partitions
    BY DEF SlotsInv, Booted, Flashed, Finding
  <2> QED  BY <2>2, <2>3 DEF TypeOK, SlotsInv, Booted, Finding, Typed
<1> QED  BY <1>1, SlotsAlways, PTL

\* What an install is about to write is the other slot of the disk that the board
\* booted from, whatever disk is plugged in or pulled out on the way, and however many
\* labels are gone (ubootenv.go:386-390).
THEOREM SpareIsWritten ==
  ASSUME Equipped
  PROVE  Spec => []WritesSpare
<1>1. SlotsInv => WritesSpare
  BY DEF SlotsInv, Finding, WritesSpare
<1> QED  BY <1>1, SlotsAlways, PTL

\* A board knows its running slot and finds the other one, after any number of updates
\* and beside any disk (ubootenv.go:307-311, 469-473).
THEOREM SlotsStayResolvable ==
  ASSUME Equipped
  PROVE  Spec => []StaysResolvable
<1>1. SlotsInv => StaysResolvable
  <2> SUFFICES ASSUME SlotsInv, ~Tegra
               PROVE  /\ CurrentSlot(parts) = {Running}
                      /\ PartitionFor(Other(Running), parts) = SlotPartition(Other(Running))
    BY DEF StaysResolvable
  <2>1. CurrentSlot(parts) = {Running}
    BY RunningByEntry DEF SlotsInv, CurrentSlot
  <2> QED  BY <2>1, RunningSlot, FoundOnDisk DEF SlotsInv
<1> QED  BY <1>1, SlotsAlways, PTL

\* A staged capsule is where firmware will look for it, unless an ESP came or went
\* since the inventory was read (bootdisk.go:25-28).
THEOREM CapsuleIsFound ==
  ASSUME Equipped
  PROVE  Spec => []CapsuleFound
<1>1. SlotsInv => CapsuleFound
  <2> SUFFICES ASSUME SlotsInv, staged # None, EspDisks(layout) = EspDisks(parts)
               PROVE  staged.disk = "boot" /\ (EspDisks(parts) = {"boot"} \/ FirstEsp(parts) = "boot")
    BY DEF CapsuleFound
  <2>1. staged.disk = "boot" /\ FirmwareReads(parts, staged)
    BY SameEsps DEF SlotsInv, Finding
  <2>2. "boot" \in EspDisks(parts)
    <3>1. PICK p \in parts : p.disk = "boot" /\ p.num = 1
      BY DEF SlotsInv, Booted, Flashed
    <3>2. BootPartition(p, HasNames(parts))
      BY <3>1 DEF SlotsInv, Booted, Flashed
    <3>3. p.esp
      BY <3>1, <3>2 DEF BootPartition
    <3> QED  BY <3>1, <3>3 DEF EspDisks
  <2> QED  BY <2>1, <2>2 DEF FirmwareReads
<1> QED  BY <1>1, SlotsAlways, PTL

===============================================================================
