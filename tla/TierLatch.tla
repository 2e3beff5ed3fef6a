------------------------------ MODULE TierLatch ------------------------------
(***************************************************************************)
(* What src/circuit_tiers.py promises of its tiers, whatever equity, sells  *)
(* and crashes do: "all tiers latch on trip", a tier 1 or 2 is given back   *)
(* only after its cooldown, and tier 3 only by a person.                    *)
(***************************************************************************)
EXTENDS Integers

CONSTANTS Cooldown    \* ticks before tiers 1 and 2 may be released

VARIABLES clock,
          tier,       \* 0: none .. 3: everything is sold
          since,      \* when the tier was tripped, Never if it is 0
          resets      \* how many manual resets were made

latch == <<clock, tier, since, resets>>

Tiers == 0 .. 3
Never == -1

Init ==
    /\ clock \in Nat
    /\ tier = 0
    /\ since = Never
    /\ resets = 0

Tick ==
    /\ clock' = clock + 1
    /\ UNCHANGED <<tier, since, resets>>

\* The drawdown reached a deeper tier, at some time not later than now.
Trip ==
    /\ tier' \in Tiers /\ tier' > tier
    /\ since' \in 0 .. clock
    /\ UNCHANGED <<clock, resets>>

Release ==
    /\ tier \in {1, 2}
    /\ clock - since >= Cooldown
    /\ tier' = 0 /\ since' = Never
    /\ UNCHANGED <<clock, resets>>

Reset ==
    /\ tier' = 0 /\ since' = Never
    /\ resets' = resets + 1
    /\ UNCHANGED clock

Next == Tick \/ Trip \/ Release \/ Reset

Spec == Init /\ [][Next]_latch
=============================================================================
