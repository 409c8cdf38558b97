-------------------------- MODULE MCSubmissionQueue --------------------------
(* A four-slot submission queue with three requests. *)
EXTENDS SubmissionQueue
=============================================================================
