---------------------------- MODULE MCRepoGraph ----------------------------
(* RepoGraph with two source files.                                        *)
EXTENDS RepoGraph

CONSTANTS f1, f2

Two == {f1, f2}
=============================================================================
