---------------------------- MODULE MCResourceTree ----------------------------
(* A small resource tree for TLC: a cloud with one data center of two      *)
(* servers.  The delays are zero as in the program, where nothing calls    *)
(* their setters.                                                          *)
EXTENDS ResourceTree, TLC

CONSTANTS cloud, dc, s1, s2

MCResource == {cloud, dc, s1, s2}

MCComponents == (cloud :> <<dc>>) @@ (dc :> <<s1, s2>>) @@ (s1 :> << >>) @@ (s2 :> << >>)

MCNoDelay == [r \in MCResource |-> 0]

(* TLC evaluates what ResourceTreeProofs assumes of the tree. *)
ASSUME MCComponentsAssumption == ComponentsFormForest

=============================================================================
