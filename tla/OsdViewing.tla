------------------------------ MODULE OsdViewing ------------------------------
(***************************************************************************)
(* Viewers of the OSD: legacy OSD sessions (LegacyOsdSessionService) and   *)
(* the viewer bindings on them (OsdViewerBindingService), with a client on *)
(* the other side that polls for frames.                                   *)
(*                                                                         *)
(* The daemon serves one HTTP request at a time, so an operation of the    *)
(* two services is one action; what interleaves with it is the OSD, the    *)
(* Agent, time, grants, and answers that never reach the client.           *)
(***************************************************************************)
EXTENDS OsdObservation

CONSTANTS
    Client,    \* each one actor with its client instance
    NoSession,
    NoBinding,
    Nothing    \* a client that was given no frame yet

ASSUME NothingAssumption == Nothing \notin Picture

VARIABLES
    granted, \* clients with an osd.view grant
    session, \* LegacyOsdSessionService: the session of each client
    binding, \* OsdViewerBindingService: the viewer binding of each client
    client   \* the frame each client shows, the sequence it acknowledges

viewingVars == <<granted, session, binding, client>>
vars == <<sourceVars, observationVars, viewingVars>>

Session == [gen : Generation, lapsed : BOOLEAN]
Binding == [state : {"attached", "resync", "suspended"},
            epoch : 0..MaxSurface,
            acked : 0..MaxSequence, delivered : 0..MaxSequence]
Viewer == [shows : Picture \cup {Nothing}, ack : 0..MaxSequence]

NewClient == [shows |-> Nothing, ack |-> 0]

ViewingInit ==
    /\ granted = Client
    /\ session = [c \in Client |-> NoSession]
    /\ binding = [c \in Client |-> NoBinding]
    /\ client = [c \in Client |-> NewClient]

Init == SourceInit /\ ObservationInit /\ ViewingInit

-------------------------------------------------------------------------------
\* status: what a look at the session s of client c finds it to be.  The service
\* also stores that, with the surface of the observation (applyObservation), and
\* overwrites it at the next look before anything reads it.
StateOf(c, s) ==
    IF s.lapsed THEN "expired"
    ELSE IF c \notin granted \/ s.gen # generation THEN "closed"
    ELSE IF ~online \/ observed = NoObservation THEN "suspended"
    ELSE IF observed.resync THEN "resync"
    ELSE "active"

\* A session past its lifetime, or of an earlier generation, is of no use any
\* more.  One whose grant is withdrawn stays, and is good again with a new grant.
Looked(s) == IF s.lapsed \/ s.gen # generation THEN NoSession ELSE s

\* Mutant: an observation without an OSD will do.
ViewableClosed(c, s) == StateOf(c, s) \in {"active", "resync"}

\* sessionViewable, and an OSD is up.
Viewable(c, s) ==
    /\ StateOf(c, s) \in {"active", "resync"}
    /\ observed.frame.epoch # 0

\* create.
CreateSession(c) ==
    /\ session[c] = NoSession
    /\ c \in granted
    /\ online
    /\ observed # NoObservation
    /\ session' = [session EXCEPT ![c] = [gen |-> generation, lapsed |-> FALSE]]
    /\ binding' = [binding EXCEPT ![c] = NoBinding]
    /\ UNCHANGED <<sourceVars, observationVars, granted, client>>

\* attach: the binding starts with a resynchronisation.
Attach(c) ==
    /\ session[c] # NoSession
    /\ binding[c] = NoBinding
    /\ session' = [session EXCEPT ![c] = Looked(@)]
    /\ \/ /\ Viewable(c, session[c])
          /\ binding' = [binding EXCEPT ![c] =
                [state |-> "resync", epoch |-> observed.frame.epoch,
                 acked |-> 0, delivered |-> 0]]
          /\ client' = [client EXCEPT ![c].ack = 0]
       \/ /\ ~Viewable(c, session[c])
          /\ UNCHANGED <<binding, client>>
    /\ UNCHANGED <<sourceVars, observationVars, granted>>

\* detach.
Detach(c) ==
    /\ binding[c] # NoBinding
    /\ Upset
    /\ binding' = [binding EXCEPT ![c] = NoBinding]
    /\ UNCHANGED <<pluginVars, observationVars, granted, session, client>>

-------------------------------------------------------------------------------
\* Mutant: the cursors outlive a resynchronisation.
ResyncedKeepingCursors(b) == [b EXCEPT !.state = "resync"]

\* requireResync: nothing is acknowledged or outstanding any more.
Resynced(b) == [b EXCEPT !.state = "resync", !.acked = 0, !.delivered = 0]

\* Mutant: any acknowledgement counts for the outstanding frame.
AcknowledgedAnyway(b, ack) == [b EXCEPT !.acked = b.delivered]

\* The acknowledgement of the outstanding frame, if ack is one.
Acknowledged(b, ack) ==
    IF ack = b.delivered THEN [b EXCEPT !.acked = b.delivered] ELSE b

\* read: what becomes of the binding b of client c, whose session is s, on a
\* request that acknowledges ack, and the answer.
Answer(c, s, b, ack) ==
    LET state == StateOf(c, s)
        seq == observed.frame.seq
        epoch == observed.frame.epoch
        acked == Acknowledged(b, ack)
        Give(x, kind) == [binding |-> x, kind |-> kind]
        Resync(x) == Give(Resynced(x), "resync")
    IN  IF state = "suspended"
          THEN Give([b EXCEPT !.state = "suspended"], "suspended")
        ELSE IF ~Viewable(c, s) THEN Give(NoBinding, "gone")
        ELSE IF b.epoch # epoch THEN Resync([b EXCEPT !.epoch = epoch])
        ELSE IF \/ state = "resync"
                \/ b.state = "suspended"
                \/ ack \notin {b.acked, b.delivered}
          THEN Resync(b)
        ELSE IF acked.delivered # acked.acked
          THEN IF seq = acked.delivered
               THEN Give([acked EXCEPT !.state = "attached"], "frame")
               ELSE Resync(acked)
        ELSE IF \/ acked.acked = 0
                \/ acked.state = "resync"
                \/ seq = acked.acked + 1
          THEN Give([acked EXCEPT !.state = "attached", !.delivered = seq],
                    "frame")
        ELSE IF seq = acked.acked
          THEN Give([acked EXCEPT !.state = "attached"], "unchanged")
        ELSE Resync(acked)

\* A viewer shows a frame it is given, acknowledges it with its next request,
\* and acknowledges nothing after it was told to resynchronise.
React(x, kind) ==
    CASE kind = "frame" ->
            [shows |-> observed.frame, ack |-> observed.frame.seq]
      [] kind = "resync" -> [x EXCEPT !.ack = 0]
      [] OTHER -> x

\* What client c gets if its poll is served now.
PollAnswer(c) == Answer(c, session[c], binding[c], client[c].ack)

Polls(c) == session[c] # NoSession /\ binding[c] # NoBinding

\* A poll of client c, served; the answer may get lost.  A binding past its
\* lifetime is reaped before its session is looked at.
Read(c, received) ==
    /\ Polls(c)
    /\ session' = IF session[c].lapsed THEN session
                   ELSE [session EXCEPT ![c] = Looked(@)]
    /\ binding' = [binding EXCEPT ![c] = PollAnswer(c).binding]
    /\ client' = [client EXCEPT ![c] =
          IF received THEN React(@, PollAnswer(c).kind) ELSE @]
    /\ UNCHANGED <<sourceVars, observationVars, granted>>

-------------------------------------------------------------------------------
\* The lifetime of a session ends, and of the binding on it.
Lapse(c) ==
    /\ session[c] # NoSession
    /\ ~session[c].lapsed
    /\ Upset
    /\ session' = [session EXCEPT ![c].lapsed = TRUE]
    /\ UNCHANGED <<pluginVars, observationVars, granted, binding, client>>

\* An administrator withdraws the grant, or gives it again.
Revoke(c) ==
    /\ c \in granted
    /\ Upset
    /\ granted' = granted \ {c}
    /\ UNCHANGED <<pluginVars, observationVars, session, binding, client>>

Grant(c) ==
    /\ c \notin granted
    /\ granted' = granted \cup {c}
    /\ UNCHANGED <<sourceVars, observationVars, session, binding, client>>

ViewerStep(c) ==
    \/ CreateSession(c)
    \/ Attach(c)
    \/ Detach(c)
    \/ \E received \in BOOLEAN : Read(c, received)
    \/ Lapse(c)
    \/ Revoke(c)
    \/ Grant(c)

Next ==
    \/ \E c \in Client : ViewerStep(c)
    \/ ObservationNext /\ UNCHANGED viewingVars

Spec == Init /\ [][Next]_vars

\* The Agent publishes after every heartbeat and reconnects; clients poll, and
\* what they lost they ask for again.  Neither is disturbed for ever.
Fairness ==
    /\ WF_vars(Copy /\ UNCHANGED <<observationVars, viewingVars>>)
    /\ SF_vars(ObserveCopy(TRUE) /\ UNCHANGED viewingVars)
    /\ WF_vars(ComeBack /\ UNCHANGED viewingVars)
    /\ \A c \in Client :
          /\ WF_vars(CreateSession(c))
          /\ WF_vars(Attach(c))
          /\ WF_vars(Read(c, TRUE))

FairSpec == Spec /\ Fairness

-------------------------------------------------------------------------------
TypeOK ==
    /\ ObservationTypeOK
    /\ granted \subseteq Client
    /\ session \in [Client -> Session \cup {NoSession}]
    /\ binding \in [Client -> Binding \cup {NoBinding}]
    /\ client \in [Client -> Viewer]
===============================================================================
