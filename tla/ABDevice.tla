------------------------------- MODULE ABDevice ------------------------------
(***************************************************************************)
(* What an A/B updater promises of a board, with no verbs, records or boot *)
(* variables in sight: there is always a home slot that boots, an update   *)
(* is a trial of the other slot, only a board that runs the trial slot can *)
(* accept it, and a board that is down comes up again.                     *)
(***************************************************************************)
CONSTANTS Slot,          \* the two slots
          Down           \* the value of up while the board is down

VARIABLES up,            \* the slot that runs
          home,          \* the slot the board falls back to
          trial,         \* is the other slot on trial?
          sound          \* the slots that boot to a userspace

abVars == <<up, home, trial, sound>>

Away == CHOOSE s \in Slot : s # home

ABInit ==
    /\ up \in Slot /\ home = up
    /\ trial = FALSE
    /\ sound = Slot

\* An update is written where nothing runs and nothing falls back to.
Write ==
    /\ ~trial /\ up = home
    /\ sound' \in {sound \ {Away}, sound \cup {Away}}
    /\ UNCHANGED <<up, home, trial>>

\* A decision on what to boot next.  The power may go as it is taken.
Decide(h, t) == home' = h /\ trial' = t /\ up' \in {up, Down} /\ UNCHANGED sound

Arm == ~trial /\ up = home /\ Decide(home, TRUE)

\* Rolled back, or given up.
Withdraw == trial /\ up # Down /\ Decide(home, FALSE)

\* Commit and mark-good: only of the slot that runs.
Accept == trial /\ up = Away /\ Decide(up, FALSE)

\* A permanent re-point, to a slot that boots.
Redirect == ~trial /\ up # Down /\ \E s \in sound : Decide(s, FALSE)

GoesDown == up' = Down /\ UNCHANGED <<home, trial, sound>>

ComesUp ==
    /\ up = Down
    /\ up' \in sound \cap ({home} \cup IF trial THEN {Away} ELSE {})
    /\ UNCHANGED <<home, trial, sound>>

ABNext == Write \/ Arm \/ Withdraw \/ Accept \/ Redirect \/ GoesDown \/ ComesUp

\* A board that is down does not stay down.
ABFair == WF_abVars(ComesUp)

ABSpec == ABInit /\ [][ABNext]_abVars /\ ABFair

\* The slot the board falls back to boots, whatever is on trial.
HomeSound == home \in sound
=============================================================================
