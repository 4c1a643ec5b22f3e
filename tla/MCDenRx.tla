------------------------------- MODULE MCDenRx -------------------------------
(***************************************************************************)
(* Instances of DenRx for TLC: two events, a clock of a few seconds,       *)
(* cooldowns shorter and longer than its steps.                            *)
(***************************************************************************)
EXTENDS DenRx

MCEvents == {"crash", "roadworks"}
MCTimes == 0..5
MCCooldowns == {0, 2, 3}
=============================================================================
