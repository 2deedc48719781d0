-------------------------- MODULE MCVerificationSuite --------------------------
(* One suite on its own.                                                     *)
EXTENDS VerificationSuite

Half == <<1, 2>>
=============================================================================
