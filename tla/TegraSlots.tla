----------------------------- MODULE TegraSlots ------------------------------
(***************************************************************************)
(* Slot, ESP and boot-disk resolution of tegrauefi.  eMMC and NVMe may     *)
(* both carry APP, APP_b and an ESP, so nothing is taken from a global     *)
(* link: an answer is unique on the root's disk, or there is none.         *)
(*                                                                         *)
(* `l' is the inventory that the command read once, at its first question. *)
(***************************************************************************)
EXTENDS Disks

VARIABLES
    fw,          \* the slot that nvbootctrl reports
    order,       \* BootNext and BootOrder: the disks their options lead to
    mounted      \* what is mounted at /boot/efi and at the private mount point

Places == {"/boot/efi", "private"}

One(found) == IF \E p \in found : found = {p} THEN CHOOSE p \in found : TRUE ELSE None

OnBootDisk(l, name) == One({p \in l : p.disk = root.disk /\ p.name = name})

\* A root with no partition behind it: only a name that no other disk shares.
AnyDisk(l, name) == One({p \in l : p.name = name})

Find(l, name) == IF root = None THEN AnyDisk(l, name) ELSE OnBootDisk(l, name)

Unlabelled(l) == \A p \in l : p.disk = root.disk => p.name = NoName

\* A and B are adjacent.
SlotByNumber(l, s) ==
    IF s = fw THEN root
    ELSE One({p \in l : p.disk = root.disk /\ p.num + Number[fw] = root.num + Number[s]})

\* slotPartition: the name of the root must agree with the firmware.
SlotDevice(l, s) ==
    IF root = None THEN AnyDisk(l, s)
    ELSE IF Unlabelled(l) THEN SlotByNumber(l, s)
    ELSE IF root.name # fw THEN None
    ELSE OnBootDisk(l, s)

EspDisks(l) == {p.disk : p \in {q \in l : q.esp}}

\* The disk whose ESP the first fitting boot option leads to.
FirstEsp(l) ==
    LET leads == {i \in DOMAIN order : order[i] \in EspDisks(l)}
    IN  IF leads = {} THEN "none" ELSE order[CHOOSE i \in leads : \A j \in leads : i <= j]

\* Fault variant: any boot option that leads to the ESP will do.
FirmwareReadsAnyOption(l, esp) ==
    EspDisks(l) \subseteq {esp.disk} \/ \E i \in DOMAIN order : order[i] = esp.disk

\* checkFirmwareCapsuleDisk: with every ESP on one disk there is no choice.
FirmwareReads(l, esp) == EspDisks(l) \subseteq {esp.disk} \/ FirstEsp(l) = esp.disk

\* capsuleESP.
CapsuleEsp(l) ==
    LET esp == Find(l, "esp")
    IN  IF esp # None /\ FirmwareReads(l, esp) THEN esp ELSE None

\* existingESPMount: another disk at /boot/efi is passed over, one in the private
\* place is an error.
Conflict(esp)       == mounted["/boot/efi"] # esp /\ mounted["private"] \notin {esp, None}
ExistingMounts(esp) == {w \in Places : mounted[w] = esp /\ (w = "private" => mounted["/boot/efi"] # esp)}
=============================================================================
