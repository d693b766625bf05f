----------------------------- MODULE TrialSlots ------------------------------
(***************************************************************************)
(* Which slot runs and which device a slot is: the resolution of ubootenv  *)
(* and grubenv.  Both start from the device mounted at / and stay on its   *)
(* disk; ubootenv, which also serves MBR tables, tells their slots by      *)
(* partition number.                                                       *)
(*                                                                         *)
(* An operator of `seen' takes the list that lsblk returned, empty when it *)
(* failed, and yields the set of answers it may give, None for an error:   *)
(* udev's global links name any one of the partitions that share a name.   *)
(***************************************************************************)
EXTENDS Disks

VARIABLE conn            \* the connector: "ubootenv", "grubenv" or "tegrauefi"

EffectiveLabel(p) == IF p.name # NoName THEN p.name ELSE p.label

Numbered(seen) == conn = "ubootenv" /\ \A p \in seen : p.disk = root.disk => p.name = NoName

OrError(found) == IF found = {} THEN {None} ELSE found

\* /dev/disk/by-partlabel, then by-label.
Links(s) ==
    LET named == {p \in parts : p.name = s}
    IN  IF named # {} THEN named ELSE {p \in parts : p.label = s}

\* Fault variant: the label is looked up on every disk.
PartitionForAnyDisk(s, seen) ==
    LET labelled == {p \in seen : EffectiveLabel(p) = s}
    IN  IF root \in seen /\ Numbered(seen)
        THEN OrError({p \in seen : p.disk = root.disk /\ p.num = Number[s]})
        ELSE IF root \in seen /\ labelled # {} THEN labelled
        ELSE OrError(Links(s))

\* Fault variant: an MBR table's slots are told by their labels.
PartitionForByLabel(s, seen) ==
    LET labelled == {p \in seen : p.disk = root.disk /\ EffectiveLabel(p) = s}
    IN  IF root \in seen /\ labelled # {} THEN labelled ELSE OrError(Links(s))

\* On the disk of the root; the links serve a root that is not listed and, on a
\* GPT table, a disk that lacks the name.
PartitionFor(s, seen) ==
    LET sameDisk == {p \in seen : p.disk = root.disk}
        labelled == {p \in sameDisk : EffectiveLabel(p) = s}
    IN  IF root \in seen /\ Numbered(seen)
        THEN OrError({p \in sameDisk : p.num = Number[s]})
        ELSE IF root \in seen /\ labelled # {} THEN labelled
        ELSE OrError(Links(s))

\* What the root's own entry says: its number or its label.
OwnSlot(seen) ==
    {s \in Slots : /\ root \in seen
                   /\ IF Numbered(seen) THEN root.num = Number[s] ELSE EffectiveLabel(root) = s}

\* The slot of the running root, or else the slot that resolves to it.
CurrentSlot(seen) ==
    IF OwnSlot(seen) # {} THEN OwnSlot(seen)
    ELSE {IF a = root THEN "A" ELSE IF b = root THEN "B" ELSE NoName :
             a \in PartitionFor("A", seen), b \in PartitionFor("B", seen)}
=============================================================================
