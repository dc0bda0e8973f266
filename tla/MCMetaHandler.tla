--------------------------- MODULE MCMetaHandler ---------------------------
(***************************************************************************)
(* Instances of MetaHandler for TLC.                                       *)
(***************************************************************************)
EXTENDS MetaHandler

CONSTANTS d1, d2

MCPathList == <<d1, d2>>
=============================================================================
