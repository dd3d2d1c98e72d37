------------------------------- MODULE MCPages --------------------------------
(***************************************************************************)
(* All pages, with a result of two windows and an empty one.               *)
(***************************************************************************)
EXTENDS Pages, TLC

MCTotalPages == "all" :> 7 @@ "none" :> 0
=============================================================================
