----------------------------- MODULE MCOsdControl -----------------------------
(***************************************************************************)
(* Control of the OSD on small instances.                                  *)
(***************************************************************************)
EXTENDS OsdControlInvariant
===============================================================================
