--------------------------- MODULE MCPackageBuild ---------------------------
EXTENDS PackageBuild

(* Two contents of different lengths: an edit that keeps the length changes *)
(* nothing the backends look at.                                            *)
MCVersion == {1, 3}
MCLen == [v \in MCVersion |-> v]
=============================================================================
