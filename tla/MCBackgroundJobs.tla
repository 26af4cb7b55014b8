-------------------------- MODULE MCBackgroundJobs --------------------------
(* BackgroundJobs on small instances.                                      *)
EXTENDS BackgroundJobs
CONSTANTS cli, server
BothKinds == {"task", "agent"}
TwoUsers  == {cli, server}
OneServer == {server}
=============================================================================
