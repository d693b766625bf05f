------------------------------- MODULE History -------------------------------
(***************************************************************************)
(* installed.json: the artifacts committed, newest last, capped.  It is    *)
(* written and renamed without an fsync, so a power cut may leave an       *)
(* earlier history, the new one, or a file that does not parse.            *)
(***************************************************************************)
EXTENDS Naturals, Sequences

CONSTANT HistoryCap      \* installedHistoryCap

ASSUME HistoryCapAssumption == HistoryCap \in Nat \ {0}

VARIABLES history,       \* what the file holds
          historyKept    \* what it may hold after a power cut

Unreadable == <<"?">>

HistoryInit == history = <<>> /\ historyKept = {<<>>}

\* Fault variant: the cap keeps the oldest.
NewestDropped(h) == IF Len(h) > HistoryCap THEN SubSeq(h, 1, HistoryCap) ELSE h

Newest(h) == IF Len(h) > HistoryCap THEN SubSeq(h, Len(h) - HistoryCap + 1, Len(h)) ELSE h

\* appendInstalled: a history that does not parse starts afresh.
AppendInstalled(entry) ==
    /\ history' = Newest(Append(IF history = Unreadable THEN <<>> ELSE history, entry))
    /\ historyKept' = historyKept \cup {history', Unreadable}

SyncHistory == historyKept' = {history} /\ UNCHANGED history

LoseHistory == history' \in historyKept /\ historyKept' = {history'}
=============================================================================
