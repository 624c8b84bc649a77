---------------------------- MODULE MCMtpChannel ----------------------------
(* A cfg cannot write a negative number.                                   *)
EXTENDS MtpChannelInvariants

MCWindowSteps == {-2, 0, 2}
=============================================================================
