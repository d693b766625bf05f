----------------------------- MODULE SlotWriter -----------------------------
(***************************************************************************)
(* blockdev.WriteImage: the payload goes from the connection through the   *)
(* decoder, a write buffer and the page cache to the slot's medium.        *)
(*                                                                         *)
(* A slot is Cells cells.  The kernel may write any of the cached ones     *)
(* back at any time, which shows only after a power cut: then each cell    *)
(* is the old one or the new one, unless the slot was synced.              *)
(***************************************************************************)
EXTENDS FiniteSets, Artifact

CONSTANT Cells           \* size of a slot

ASSUME CellsAssumption == Cells \in Nat \ {0}

VARIABLES link,          \* "up", or "down": reads from the connection fail
          got,           \* the stored payload as it was received so far
          sent,          \* how many plain cells have left the write buffer
          cache,         \* what a process reads from each slot
          medium         \* what is on its medium

writerVars == <<link, got, sent, cache, medium>>

SlotNames == {"A", "B"}
OldCell == "old"
OldSlot == [i \in 1..Cells |-> OldCell]

WriterInit ==
    /\ link = "up" /\ got = <<>> /\ sent = 0
    /\ cache = [s \in SlotNames |-> OldSlot] /\ medium = cache

NoTransfer == link' = "up" /\ got' = <<>> /\ sent' = 0

\* The slot with the first n cells of an image over what it held.
Overwritten(cells, image, n) == [i \in 1..Cells |-> IF i <= n THEN image[i] ELSE cells[i]]

Holds(cells, image) ==
    Len(image) <= Cells /\ \A i \in 1..Cells : i <= Len(image) => cells[i] = image[i]

\* The connection drops, stalls past its caller's patience, or SIGTERM cancels it.
LinkFails ==
    /\ link = "up" /\ link' = "down"
    /\ UNCHANGED <<got, sent, cache, medium>>

\* One read: the next cell arrives, or another in its place; the buffer goes out
\* whole or waits.
ReadBlock(s, a, damaged) ==
    LET comp == a.manifest.compression
        cell == IF damaged THEN Garble ELSE a.stored[Len(got) + 1]
        image == Plain(Append(got, cell), comp)
    IN /\ link = "up" /\ Len(got) < Len(a.stored)
       /\ damaged => Garble \notin {got[i] : i \in DOMAIN got}
       /\ got' = Append(got, cell)
       /\ sent' \in {sent, IF Len(image) < Cells THEN Len(image) ELSE Cells}
       /\ cache' = [cache EXCEPT ![s] = Overwritten(@, image, sent')]
       /\ UNCHANGED <<link, medium>>

AtEnd(a) == Len(got) = Len(a.stored)

Image(a) == Plain(got, a.manifest.compression)

\* The decoder fails where the stream breaks its format, at the latest at its end.
DecoderFails(a) ==
    /\ a.manifest.compression # "none"
    /\ \/ Garble \in {got[i] : i \in DOMAIN got}
       \/ AtEnd(a) /\ ~Decodes(got, a.manifest.compression)

\* Reading or writing fails: an error of WriteImage.  The slot keeps what it has.
WriteFails(a) ==
    \/ link = "down"
    \/ DecoderFails(a)
    \/ Len(Image(a)) > Cells

Flush(s, a) ==
    /\ AtEnd(a) /\ Decodes(got, a.manifest.compression) /\ Len(Image(a)) <= Cells
    /\ sent' = Len(Image(a))
    /\ cache' = [cache EXCEPT ![s] = Overwritten(@, Image(a), sent')]
    /\ UNCHANGED <<link, got, medium>>

\* Fault variant: the device is closed and not synced.
SyncSkipped(s) == UNCHANGED writerVars

Sync(s) ==
    /\ medium' = [medium EXCEPT ![s] = cache[s]]
    /\ UNCHANGED <<link, got, sent, cache>>

SyncSlots == medium' = cache

\* Any of the cached cells may not have reached the medium.
CutSlots ==
    /\ \E lost \in SUBSET {c \in SlotNames \X (1..Cells) : cache[c[1]][c[2]] # medium[c[1]][c[2]]} :
          medium' = [s \in SlotNames |-> [i \in 1..Cells |->
                        IF <<s, i>> \in lost THEN medium[s][i] ELSE cache[s][i]]]
    /\ cache' = medium'
=============================================================================
