--------------------------- MODULE MCServerQuery ---------------------------
(***************************************************************************)
(* The ServerQuery connection on a small instance.                         *)
(***************************************************************************)
EXTENDS ServerQueryConnection
=============================================================================
