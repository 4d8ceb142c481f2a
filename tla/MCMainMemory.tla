---------------------------- MODULE MCMainMemory ----------------------------
(***************************************************************************)
(* Instances of MainMemory: the configuration files give its events and    *)
(* bounds, and nothing here hides any of its state.                        *)
(***************************************************************************)
EXTENDS MainMemory
=============================================================================
