------------------------------ MODULE TrialEnv -------------------------------
(***************************************************************************)
(* The trial-boot connectors: ubootenv (Raspberry Pi) and grubenv (x86),   *)
(* which share one model under the same three variable names               *)
(*                                                                         *)
(*    slot   wendyos_boot_slot           the slot the boot script selects  *)
(*    armed  wendyos_upgrade_available   the next boot is a trial          *)
(*    count  bootcount                   trial attempts so far             *)
(*                                                                         *)
(* Each connector operation is one atomic env.set, so it is one value of   *)
(* env here.  The boot script itself lives in another repository: Boot is  *)
(* the contract the package comments state (external).                     *)
(***************************************************************************)
EXTENDS Naturals, StateFile

CONSTANT BootLimit       \* trial attempts before the script falls back

ASSUME BootLimitAssumption == BootLimit \in Nat \ {0}

VARIABLES env,           \* the environment the boot script reads
          bootMounted    \* is the env's file system mounted in this boot?

Envs == [slot : Slots, armed : BOOLEAN, count : 0..(BootLimit + 1)]

EnvTypeOK == env \in Envs /\ bootMounted \in BOOLEAN
EnvInit   == env = [slot |-> "A", armed |-> FALSE, count |-> 0] /\ bootMounted = TRUE

Pinned(s) == [slot |-> s, armed |-> FALSE, count |-> 0]
Trial(s)  == [slot |-> s, armed |-> TRUE,  count |-> 0]

\* env.set.  On an unmounted /boot it writes a copy the boot script never reads.
SetEnv(e) == env' = (IF bootMounted THEN e ELSE env) /\ UNCHANGED bootMounted

\* assertEnvWritable.  SwapSlot alone asks.
EnvWritable == bootMounted

\* Disarms, and leaves the slot the script selects alone.
PrepareTarget == SetEnv(Pinned(env.slot))

\* Fault variant: the update goes live as the permanent default, not as a trial.
SwapSlotUntried(s, install) == EnvWritable /\ SetEnv(Pinned(s))

SwapSlot(s, install) ==
    /\ EnvWritable
    /\ SetEnv(IF install THEN Trial(s) ELSE Pinned(s))

\* Fault variant: MarkGood disarms and forgets to re-point the slot.
MarkGoodDisarmOnly(cur) == SetEnv(Pinned(env.slot))

MarkGood(cur) == SetEnv(Pinned(cur))

\* BootIsCompromised: a trial is armed for a slot we are not running.  The
\* variables read as unset, hence as not armed, while /boot is not mounted.
BootIsCompromised(cur) == bootMounted /\ env.armed /\ env.slot # cur

---------------------------------------------------------------------------
\* The boot script.  It counts a trial attempt, and past the limit it takes the
\* other slot without rewriting wendyos_boot_slot.
Attempts == IF env.armed /\ env.count <= BootLimit THEN env.count + 1 ELSE env.count

BootChoice == IF env.armed /\ Attempts > BootLimit THEN Other(env.slot) ELSE env.slot

CountAttempt == env' = [env EXCEPT !.count = Attempts]
=============================================================================
