------------------------------ MODULE PeerRingMC ------------------------------
(***************************************************************************)
(* The constants of PeerMC for the runs on a ring without faults.          *)
(***************************************************************************)
EXTENDS PeerMC, PeerRing

==============================================================================
