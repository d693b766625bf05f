---------------------------- MODULE MCSlotResolve ----------------------------
(***************************************************************************)
(* SlotResolve on the boards that exist: GRUB on GPT tables, U-Boot on GPT *)
(* and MBR tables, and a Jetson, whose partition names some lsblk builds   *)
(* cannot read.                                                            *)
(***************************************************************************)
EXTENDS SlotResolve

AllBoards == {<<"ubootenv", "named">>, <<"ubootenv", "unnamed">>, <<"grubenv", "named">>,
              <<"tegrauefi", "named">>, <<"tegrauefi", "unnamed">>}

\* A disk of another make: a slot's name twice, a slot's label under another name.
Odd(d) == {Partition(d, 2, "B", "A"), Partition(d, 3, "B", "B"),
           [Partition(d, 5, "data", "A") EXCEPT !.esp = TRUE]}

ManyDisks == {Named("other"), Unnamed("other"), Stick("other"), Odd("other")}

\* A U-Boot board on a GPT table.
UbootGpt == {<<"ubootenv", "named">>}
=============================================================================
