----------------------------- MODULE SlotResolve -----------------------------
(***************************************************************************)
(* An install finding its way to a partition, on a board whose other disk  *)
(* comes and goes: CurrentSlot, PartitionFor, the write, and on a Jetson   *)
(* the ESP that takes the capsule.                                         *)
(***************************************************************************)
EXTENDS TrialSlots, TegraSlots, Sequences

CONSTANTS
    Boards,          \* the boards: pairs of a connector and a boot disk's table
    OtherDisks,      \* the disks that may be plugged in
    Mishaps          \* what else may go wrong: see below

\* "no spare": the boot disk has one slot.  "lsblk": lsblk fails beside a second disk.
ASSUME SlotResolveAssumption ==
    /\ Boards \subseteq {"ubootenv", "grubenv", "tegrauefi"} \X {"named", "unnamed"}
    /\ \A d \in OtherDisks : d # {} /\ \A p \in d : p \in Partitions /\ p.disk = "other"
    /\ Mishaps \subseteq {"no spare", "lsblk"}

VARIABLES
    pc,              \* the question that the install asks next
    cur,             \* CurrentSlot's answer
    dev,             \* PartitionFor's answer
    layout,          \* the inventory that a Jetson's command works with
    marked,          \* does the image that runs ask for capsules?
    staged           \* the partition that took the capsule

board == <<conn, root, fw, order, marked>>
job   == <<pc, cur, dev, layout, staged>>
vars  == <<board, parts, mounted, job>>

Tegra == conn = "tegrauefi"

\* Every variable keeps its type; the root and what is mounted are partitions that
\* are there, which no write has changed under them.
TypeOK ==
    /\ conn \in {"ubootenv", "grubenv", "tegrauefi"} /\ marked \in BOOLEAN
    /\ parts \in SUBSET Partitions /\ layout \in SUBSET Partitions
    /\ root \in parts \cup {None} /\ dev \in Partitions \cup {None}
    /\ staged \in Partitions \cup {None}
    /\ fw \in Slots /\ order \in Seq({"boot", "other"})
    /\ mounted \in [Places -> parts \cup {None}]
    /\ pc \in {"idle", "target", "write", "stage", "staged"} /\ cur \in Slots \cup {NoName}

BootDisks(table) ==
    {IF table = "unnamed" THEN Unnamed("boot") ELSE Named("boot")}
        \cup {d \in {Single("boot")} : table = "named" /\ "no spare" \in Mishaps}

\* A command starts with a new controller.
NoJob == pc = "idle" /\ cur = NoName /\ dev = None /\ layout = {} /\ staged = None

\* A board that booted slot A of its disk.  Only a Jetson serves a root that is
\* no partition, and only names tell its slots then.
Init ==
    /\ \E b \in Boards :
          /\ conn = b[1]
          /\ parts \in BootDisks(b[2])
          /\ root \in SlotPartition("A")
                         \cup {p \in {None} : Tegra /\ b[2] = "named"}
    /\ fw = "A"
    /\ IF Tegra
       THEN /\ order \in {<<"boot", "other">>, <<"other", "boot">>, <<"boot">>}
            /\ marked \in BOOLEAN
       ELSE order = <<>> /\ marked = FALSE
    /\ mounted = [w \in Places |-> None]
    /\ NoJob

Listings == {parts} \cup {l \in {{}} : parts = On("boot") \/ "lsblk" \in Mishaps}

Quit == pc' = "idle" /\ cur' = NoName /\ dev' = None /\ layout' = {} /\ staged' = None

\* CurrentSlot; a Jetson asks the firmware.
InstallCurrent ==
    /\ pc = "idle"
    /\ \E l \in Listings : cur' \in IF Tegra THEN {fw} ELSE CurrentSlot(l)
    /\ cur' # NoName
    /\ pc' = "target"
    /\ UNCHANGED <<board, parts, mounted, dev, layout, staged>>

\* Fault variant: the target is the slot that runs.
InstallTargetSame ==
    /\ pc = "target"
    /\ layout' = IF Tegra THEN parts ELSE {}
    /\ dev' \in IF Tegra THEN {SlotDevice(parts, cur)} ELSE PartitionFor(cur, parts)
    /\ dev' # None
    /\ pc' = "write"
    /\ UNCHANGED <<board, parts, mounted, cur, staged>>

\* PartitionFor, which on a Jetson reads the inventory, and the preflight.
InstallTarget ==
    /\ pc = "target"
    /\ layout' = IF Tegra THEN parts ELSE {}
    /\ \E l \in Listings :
          dev' \in IF Tegra THEN {SlotDevice(parts, Other(cur))} ELSE PartitionFor(Other(cur), l)
    /\ dev' # None
    /\ marked => CapsuleEsp(parts) # None /\ ~Conflict(CapsuleEsp(parts))
    /\ pc' = "write"
    /\ UNCHANGED <<board, parts, mounted, cur, staged>>

\* The slot is written.  A device that was pulled out is not found again.
InstallWrite ==
    /\ pc = "write"
    /\ dev \in parts
    /\ \E p \in Relabelled(dev) : parts' = (parts \ {dev}) \cup {p}
    /\ IF Tegra THEN pc' = "stage" /\ UNCHANGED <<cur, dev, layout, staged>> ELSE Quit
    /\ UNCHANGED <<board, mounted>>

\* SwapSlot, for an image that asks for a capsule, copies it to the ESP where that
\* is mounted, or mounts it privately.
InstallStage ==
    /\ pc = "stage"
    /\ LET esp == CapsuleEsp(layout) IN
          /\ esp \in parts /\ ~Conflict(esp)
          /\ staged' = esp
          /\ mounted' = IF ExistingMounts(esp) # {} THEN mounted
                        ELSE [mounted EXCEPT !["private"] = esp]
    /\ pc' = "staged"
    /\ UNCHANGED <<board, parts, cur, dev, layout>>

\* The install is refused, fails, is stopped, or is done.
InstallEnds == pc # "idle" /\ Quit /\ UNCHANGED <<board, parts, mounted>>

---------------------------------------------------------------------------
(* The board. *)

Plug ==
    /\ On("other") = {}
    /\ \E d \in OtherDisks : parts' = parts \cup d
    /\ UNCHANGED <<board, mounted, job>>

Unplug ==
    /\ On("other") # {}
    /\ parts' = On("boot")
    /\ mounted' = [w \in Places |-> IF mounted[w] \in On("other") THEN None ELSE mounted[w]]
    /\ UNCHANGED <<board, job>>

\* Something mounts an ESP at /boot/efi: the automounter, or an operator.
Mount ==
    /\ Tegra /\ mounted["/boot/efi"] = None
    /\ \E p \in parts : p.esp /\ mounted' = [mounted EXCEPT !["/boot/efi"] = p]
    /\ UNCHANGED <<board, parts, job>>

\* The other slot, or the same one, boots.  A Jetson's firmware may report another
\* slot than the one that it booted; names alone can tell.
Reboot ==
    /\ \E s \in Slots :
          /\ root' \in IF root = None THEN {None} ELSE SlotPartition(s)
          /\ fw' \in {s} \cup {t \in Slots : Tegra /\ root # None /\ root.name # NoName}
    /\ mounted' = [w \in Places |-> None]
    /\ Quit
    /\ UNCHANGED <<conn, parts, order, marked>>

Next ==
    \/ InstallCurrent \/ InstallTarget \/ InstallWrite \/ InstallStage \/ InstallEnds
    \/ Plug \/ Unplug \/ Mount \/ Reboot

Spec == Init /\ [][Next]_vars

---------------------------------------------------------------------------

\* The slot that runs.
Running == IF root = None THEN fw ELSE CHOOSE s \in Slots : Number[s] = root.num

\* "install never writes the inactive slot to the wrong disk" (ubootenv.go:386-390),
\* nor over the root or a partition that is no slot: what it is about to write is
\* the other slot of the disk that the board booted from.
WritesSpare ==
    pc = "write" => dev \in SlotPartition(Other(Running))

\* However many updates have taken its labels away, and whatever disk is beside it,
\* a board knows its running slot and finds its other one (ubootenv.go:307-311,
\* 469-473).
StaysResolvable ==
    ~Tegra => /\ CurrentSlot(parts) = {Running}
              /\ PartitionFor(Other(Running), parts) = SlotPartition(Other(Running))

\* A staged capsule is on the disk of the root, and it is the one that firmware
\* will look at (bootdisk.go:25-28), unless an ESP came or went in between.
CapsuleFound ==
    staged # None /\ EspDisks(layout) = EspDisks(parts) =>
        staged.disk = "boot" /\ (EspDisks(parts) = {"boot"} \/ FirstEsp(parts) = "boot")
=============================================================================
