---------------------------- MODULE MCEnrolment ----------------------------
(* Small instances of Enrolment for TLC. *)
EXTENDS Enrolment
=============================================================================
