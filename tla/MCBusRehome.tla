----------------------------- MODULE MCBusRehome -----------------------------
(***************************************************************************)
(* BusRehome for TLC: one session published on up to two buses, one        *)
(* message for it.                                                         *)
(***************************************************************************)
EXTENDS BusRehome, TLC

CONSTANTS s1, m1, general, team

MCTarget == m1 :> s1
=============================================================================
