------------------------------ MODULE MCVcp ------------------------------
(* Vcp for TLC: an interval of 2 ticks with round trips shorter and longer  *)
(* than it and one below the clock's resolution (0); segments of 2 bytes;   *)
(* xi = 1/2 with bound 1, alpha = 1, beta = 7/8 and a cap of 3/2 on the     *)
(* multiplicative increase.  The window starts at the 4 bytes (2 segments)  *)
(* up to which the additive cap is the larger one, and goes below and above *)
(* it, to twice that.                                                       *)
EXTENDS Vcp, TLC

MCRtts == {0, 1, 3}
MCScaledXi == 0 :> 0 @@ 1 :> 3 @@ 3 :> 13
MCScaledAlpha == 0 :> 0 @@ 1 :> 4 @@ 3 :> 36
=============================================================================
