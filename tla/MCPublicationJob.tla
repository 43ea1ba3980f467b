-------------------------- MODULE MCPublicationJob --------------------------
(* The instance of PublicationJob for TLC. *)
EXTENDS PublicationJob
=============================================================================
