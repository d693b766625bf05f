-------------------------------- MODULE Disks --------------------------------
(***************************************************************************)
(* The partitions that lsblk lists and the one mounted at /.  A board      *)
(* boots from one disk; another one, flashed or not, may be plugged in and *)
(* pulled out at any time.                                                 *)
(*                                                                         *)
(* A partition is known by its disk and number.  Its name in the partition *)
(* table survives an update; the label of its file system does not.  The   *)
(* slots' names (rootfsA, rootfsB; APP, APP_b) are "A" and "B".            *)
(***************************************************************************)
EXTENDS Naturals

VARIABLES
    parts,       \* the partition inventory
    root         \* the partition behind /, None when there is no single one

Slots    == {"A", "B"}
Other(s) == IF s = "A" THEN "B" ELSE "A"

None   == [disk |-> "none"]
NoName == "none"
Names  == Slots \cup {"esp", "data", NoName}

Partitions ==
    [disk : {"boot", "other"}, num : Nat, name : Names, label : Names, esp : BOOLEAN]

\* The number of a slot's partition on the boot disk.
Number == [A |-> 2, B |-> 3]

Partition(d, n, name, label) ==
    [disk |-> d, num |-> n, name |-> name, label |-> label, esp |-> n = 1]

\* A disk flashed with two slots: a GPT table names them, an MBR table does not.
Named(d)   == {Partition(d, 1, "esp", NoName), Partition(d, 2, "A", "A"), Partition(d, 3, "B", "B")}
Unnamed(d) == {Partition(d, 1, NoName, NoName), Partition(d, 2, NoName, "A"),
               Partition(d, 3, NoName, "B")}

\* A disk with one root file system, and a stick with an ESP alone.
Single(d)  == {Partition(d, 1, "esp", NoName), Partition(d, 2, "A", "A")}
Stick(d)   == {Partition(d, 1, "esp", NoName)}

On(d) == {p \in parts : p.disk = d}

SlotPartition(s) == {p \in On("boot") : p.num = Number[s]}

\* The file system written to p may or may not carry the label of the old one.
Relabelled(p) == {[p EXCEPT !.label = l] : l \in {p.label, NoName}}
=============================================================================
