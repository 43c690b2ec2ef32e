---------------------------- MODULE MCCommandDelivery ----------------------------
(***************************************************************************)
(* Instances of CommandDelivery for TLC: one command of each kind, and     *)
(* pairs of commands that meet in the queue and in the inbox.              *)
(***************************************************************************)
EXTENDS CommandInvariant, TLC

CONSTANTS c1, c2

One == {c1}
Two == {c1, c2}

Only(kind) == c1 :> kind
Pair(kind1, kind2) == c1 :> kind1 @@ c2 :> kind2

OneCreate == Only("create")
OneDelete == Only("delete")
OneProbe == Only("probe")
ModifyAndImport == Pair("modify", "import")
CreateAndOsd == Pair("create", "osd")
CutAndProbe == Pair("cut", "probe")

Ttl1 == [c \in Command |-> 1]
Ttl2 == [c \in Command |-> 2]
===============================================================================
