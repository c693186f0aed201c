------------------------ MODULE MCProjectDispatcher ------------------------
(* Small instances of ProjectDispatcher. *)
EXTENDS ProjectDispatcher
=============================================================================
