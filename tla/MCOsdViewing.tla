----------------------------- MODULE MCOsdViewing -----------------------------
(***************************************************************************)
(* Viewing the OSD on small instances.                                     *)
(***************************************************************************)
EXTENDS OsdInvariant
===============================================================================
