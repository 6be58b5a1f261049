------------------------- MODULE MCComponentRuntime -------------------------
(***************************************************************************)
(* A small instance of ComponentRuntime for TLC: the root and one component *)
(* it uses.                                                                *)
(***************************************************************************)
EXTENDS ComponentRuntime, TLC

CONSTANTS root, child, r1, a1

ComponentOf == (r1 :> root @@ a1 :> child)
=============================================================================
