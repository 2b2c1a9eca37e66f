------------------------------- MODULE MCOtp -------------------------------
(* Instances of Otp for TLC: two requests at a time, three codes. *)
EXTENDS Otp
=============================================================================
