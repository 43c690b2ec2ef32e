---------------------------- MODULE OsdObservation ----------------------------
(***************************************************************************)
(* How the OSD reaches the Core: the Agent copies SuiteBridge's state,     *)
(* holds it against the last frame in its buffer (SuiteBridgeOsdFrame-     *)
(* Buffer, SuiteBridgeOsdFrameSource) and posts the result after every     *)
(* heartbeat; the Core keeps the latest observation in memory              *)
(* (BackendAgentOsdObservationService).                                    *)
(***************************************************************************)
EXTENDS OsdSource

CONSTANTS
    NoFrame,       \* an empty buffer
    NoObservation  \* the Core has none, or an outdated or unusable one

VARIABLES
    buffer,     \* the Agent's: [frame, resync], or NoFrame
    generation, \* backend generation, one per process of the Agent
    online,     \* the Agent's lease is current
    observed    \* what the Core has of the present generation

observationVars == <<buffer, generation, online, observed>>

Generation == Nat
Buffered == [frame : Frame, resync : BOOLEAN]

\* What the Core hands on of a frame.
Picture == [epoch : 0..MaxSurface, seq : 0..MaxSequence, lacks : Lack]
PictureOf(f) == [epoch |-> f.epoch, seq |-> f.seq, lacks |-> f.lacks]

ObservationInit ==
    /\ buffer = NoFrame
    /\ generation = 1
    /\ online = TRUE
    /\ observed = NoObservation

-------------------------------------------------------------------------------
\* Not complete or not consistent; only then the surface counts as degraded.
Degraded(f) == ~f.complete

\* A new surface for the buffer b: no frame yet, an inactive one on either
\* side, another epoch.
Replaces(b, f) ==
    \/ b = NoFrame
    \/ b.frame.kind = "none"
    \/ b.frame.epoch # f.epoch

\* Mutant: continuity once lost stays lost on the next surface, too.
ApplyForGood(b, f) ==
    IF b = NoFrame THEN [frame |-> f, resync |-> Degraded(f)]
    ELSE [frame |-> f, resync |-> b.resync \/ Degraded(f)]

\* apply: continuity lost on a surface stays lost until the next surface.
Apply(b, f) ==
    IF f.kind = "none" /\ b # NoFrame
      THEN [frame |-> f, resync |-> FALSE]
    ELSE IF Replaces(b, f)
      THEN [frame |-> f, resync |-> Degraded(f)]
    ELSE IF f.seq > b.frame.seq
      THEN [frame |-> f,
            resync |-> b.resync \/ Degraded(f) \/ f.drops > b.frame.drops]
    ELSE [b EXCEPT !.resync = @ \/ f # b.frame]

\* validBackendAgentOsdObservation: a current frame has to be complete.
Publishable(b) == b.resync \/ ~Degraded(b.frame)

Published(b) == [frame |-> PictureOf(b.frame), resync |-> b.resync]

\* ingestOsdObservation: what the Core has once the buffer b was posted to it.
Ingested(b) == IF online /\ Publishable(b) THEN Published(b) ELSE observed

\* publishOsdObservation after a heartbeat, f being the copy of the plugin's
\* state; the post may get lost.
Observe(f, received) ==
    /\ buffer' = Apply(buffer, f)
    /\ observed' = IF received THEN Ingested(buffer') ELSE observed
    /\ copied' = NoCopy
    /\ UNCHANGED <<screen, osd, broken, dropped, surfaces, upsets>>
    /\ UNCHANGED <<generation, online>>

ObserveCopy(received) ==
    /\ copied # NoCopy
    /\ Observe(Snapshot(copied), received)

ObserveBusy(received) ==
    /\ copied = NoCopy
    /\ Observe(Unavailable, received)

\* Nothing fresh for long, or the Agent's local read failed: readOsdObservation
\* has nothing to give.
LoseObservation ==
    /\ observed # NoObservation
    /\ Upset
    /\ observed' = NoObservation
    /\ UNCHANGED <<pluginVars, buffer, generation, online>>

\* The lease of the Agent runs out; a heartbeat renews it.
GoOffline ==
    /\ online
    /\ Upset
    /\ online' = FALSE
    /\ UNCHANGED <<pluginVars, buffer, generation, observed>>

ComeBack ==
    /\ ~online
    /\ online' = TRUE
    /\ UNCHANGED <<buffer, generation, observed, sourceVars>>

\* A new Agent process connects: a new generation and an empty buffer; what the
\* old instance observed is no longer read.
RestartAgent ==
    /\ Upset
    /\ generation' = generation + 1
    /\ buffer' = NoFrame
    /\ observed' = NoObservation
    /\ online' = TRUE
    /\ copied' = NoCopy
    /\ UNCHANGED <<screen, osd, broken, dropped, surfaces>>

ObservationNext ==
    \/ \E received \in BOOLEAN : ObserveCopy(received) \/ ObserveBusy(received)
    \/ LoseObservation
    \/ GoOffline
    \/ ComeBack
    \/ RestartAgent
    \/ SourceNext /\ UNCHANGED observationVars

ObservationTypeOK ==
    /\ SourceTypeOK
    /\ buffer \in Buffered \cup {NoFrame}
    /\ generation \in Generation
    /\ online \in BOOLEAN
    /\ observed \in [frame : Picture, resync : BOOLEAN] \cup {NoObservation}
===============================================================================
