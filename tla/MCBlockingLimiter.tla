------------------------- MODULE MCBlockingLimiter -------------------------
(***************************************************************************)
(* Instances of BlockingLimiter for TLC.  Liveness is checked, so threads   *)
(* are not made symmetric.                                                 *)
(***************************************************************************)
EXTENDS BlockingLimiter
=============================================================================
