----------------------------- MODULE MCXMLWalk ------------------------------
(***************************************************************************)
(* Instances of XMLWalk, checked against XMLWalkReference.                 *)
(***************************************************************************)
EXTENDS XMLWalkReference

MCMaxDepths == {1, 2, 3}
MCMaxFieldses == {1, 2, 4}

=============================================================================
