----------------------------- MODULE MCJobQueue -----------------------------
(* The instance of JobQueue for TLC: what a handler may report, and the state it
   leaves its subject in. *)
EXTENDS JobQueue

MCReports == {<<"retry_wait", "accepted">>, <<"succeeded", Unreported>>}
=============================================================================
