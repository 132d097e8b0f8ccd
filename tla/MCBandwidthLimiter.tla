------------------------ MODULE MCBandwidthLimiter ------------------------
(***************************************************************************)
(* An instance of BandwidthLimiter for TLC.                                *)
(***************************************************************************)
EXTENDS BandwidthLimiter, TLC

ThreadSymmetry == Permutations(Threads)
=============================================================================
