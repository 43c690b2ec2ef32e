------------------------------ MODULE OsdAccess ------------------------------
(***************************************************************************)
(* What viewing the OSD comes down to for who controls it: which surface   *)
(* the Core observes, which one each viewer's binding is on, and who may   *)
(* view.  No frames, cursors, sessions or restarts.                        *)
(***************************************************************************)
CONSTANTS
    Client,
    Surface,   \* a backend generation with an OSD epoch
    NoSurface,
    NoView

VARIABLES
    granted, \* clients with an osd.view grant
    surface, \* the surface sessions are told of, if there is one
    view     \* the surface each viewer binding is on

accessVars == <<granted, surface, view>>

View == [surface : Surface, usable : BOOLEAN]

Init ==
    /\ granted = Client
    /\ surface = NoSurface
    /\ view = [c \in Client |-> NoView]

\* VDR opens or closes its OSD; the Agent or its observations come and go.
ObserveSurface ==
    /\ surface' \in Surface \cup {NoSurface}
    /\ UNCHANGED <<granted, view>>

\* A viewer binds to the surface there is, or follows to it.
Bind(c) ==
    /\ c \in granted
    /\ surface # NoSurface
    /\ view' = [view EXCEPT ![c] = [surface |-> surface, usable |-> TRUE]]
    /\ UNCHANGED <<granted, surface>>

\* A viewer finds that there is nothing to see for now.
Suspend(c) ==
    /\ view[c] # NoView
    /\ surface = NoSurface
    /\ view' = [view EXCEPT ![c].usable = FALSE]
    /\ UNCHANGED <<granted, surface>>

\* A binding goes: detached, lapsed, or found without a session.
Unbind(c) ==
    /\ view' = [view EXCEPT ![c] = NoView]
    /\ UNCHANGED <<granted, surface>>

Revoke(c) ==
    /\ granted' = granted \ {c}
    /\ UNCHANGED <<surface, view>>

Grant(c) ==
    /\ granted' = granted \cup {c}
    /\ UNCHANGED <<surface, view>>

Next ==
    \/ ObserveSurface
    \/ \E c \in Client :
          Bind(c) \/ Suspend(c) \/ Unbind(c) \/ Revoke(c) \/ Grant(c)

Spec == Init /\ [][Next]_accessVars

\* Client c sees the surface observed.
Sees(c) ==
    /\ c \in granted
    /\ surface # NoSurface
    /\ view[c] = [surface |-> surface, usable |-> TRUE]

TypeOK ==
    /\ granted \subseteq Client
    /\ surface \in Surface \cup {NoSurface}
    /\ view \in [Client -> View \cup {NoView}]
===============================================================================
