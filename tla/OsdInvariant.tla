----------------------------- MODULE OsdInvariant -----------------------------
(***************************************************************************)
(* What viewers of the OSD may rely on, and the inductive invariants it    *)
(* rests on.                                                               *)
(***************************************************************************)
EXTENDS OsdViewing

-------------------------------------------------------------------------------
(* Losses are noticed *)

\* A payload that misses a call of its surface is broken or incomplete.
SourceTells == osd.lacks = "inside" => broken \/ ~osd.complete

\* A frame misses no call of a surface that is still up.
NoGap(f) == f.lacks = "inside" => f.epoch # osd.epoch

\* No viewer is given a frame that misses a call VDR made after the payload of
\* the surface was begun, for as long as the surface is up, although callbacks
\* are dropped whenever the plugin's lock is taken (suitebridge_osd_state.cpp,
\* MarkDroppedUpdate): the broken continuity survives the plugin, the Agent's
\* buffer and the Core's cache.  (A copy completed after the surface went may
\* miss it: the next surface has cleared the flag by then.)
GapsAreSeen ==
    \A c \in Client :
        client[c].shows # Nothing => NoGap(client[c].shows)

\* What is held of a frame belongs to a surface opened so far, if to any.
Known(f) ==
    /\ f.epoch <= surfaces
    /\ f.lacks = "inside" => f.epoch # 0

LossInv ==
    /\ Known(osd)
    /\ osd.kind = "none" <=> osd.epoch = 0
    /\ SourceTells
    /\ copied # NoCopy =>
          Known(copied) /\ (broken \/ ~copied.complete \/ NoGap(copied))
    /\ buffer # NoFrame =>
          Known(buffer.frame) /\ (~buffer.frame.complete \/ NoGap(buffer.frame))
    /\ observed # NoObservation =>
          Known(observed.frame) /\ (observed.resync \/ NoGap(observed.frame))
    /\ \A c \in Client : client[c].shows # Nothing => Known(client[c].shows)
    /\ GapsAreSeen

-------------------------------------------------------------------------------
(* Cursors tell the truth *)

Shows(c, f) ==
    /\ client[c].shows # Nothing
    /\ client[c].shows.epoch = f.epoch
    /\ client[c].shows.seq = f.seq

\* The cursors of the binding b agree with what its viewer v knows.
Agree(v, b) ==
    /\ v.ack # 0 => v.shows # Nothing /\ v.shows.seq = v.ack
    /\ b # NoBinding =>
          /\ b.delivered = 0 => b.acked = 0
          /\ b.state = "resync" => b.delivered = 0
          /\ b.acked # 0 => v.ack \in {b.acked, b.delivered}
          /\ b.delivered # 0 /\ v.ack # 0 => v.shows.epoch = b.epoch

CursorInv == \A c \in Client : Agree(client[c], binding[c])

\* The state the two promises rest on.
ViewInv == LossInv /\ CursorInv

\* A client that polls now and is told that nothing changed shows the very
\* frame the Core observes, whatever answers were lost before, whatever surface
\* came and went, and even though a restarted VDR counts its frames from the
\* beginning (OsdViewerBindingService::read, requireResync).
UnchangedIsShown ==
    \A c \in Client :
        Polls(c) /\ PollAnswer(c).kind = "unchanged" =>
            Shows(c, observed.frame)

-------------------------------------------------------------------------------
(* Viewers catch up *)

\* VDR shows an OSD that SuiteBridge has whole, and c may see it.
Visible(c) ==
    /\ osd.kind # "none"
    /\ Snapshot(osd).complete
    /\ online
    /\ c \in granted

\* Once the OSD rests on a complete surface, the viewer comes to show it and
\* keeps showing it: no resynchronisation, lost answer, stale session, reaped
\* binding or buffer state holds it off for ever.
ViewerCatchesUp ==
    \A c \in Client :
        <>[]Visible(c) => <>[]Shows(c, osd)

-------------------------------------------------------------------------------
(* What controllers see of viewing *)

\* sessionViewable has a surface to show.
SurfaceObserved ==
    IF online /\ observed # NoObservation /\ observed.frame.epoch # 0
      THEN <<generation, observed.frame.epoch>>
      ELSE NoObservation

\* The surface the binding of client c is on, if its session still stands.
ViewOf(c) ==
    IF session[c] = NoSession \/ session[c].lapsed \/ binding[c] = NoBinding
      THEN NoBinding
      ELSE [surface |-> <<session[c].gen, binding[c].epoch>>,
            usable |-> binding[c].state # "suspended"]

views == [c \in Client |-> ViewOf(c)]

ASSUME AbsenceAssumption ==
    /\ NoObservation \notin Generation \X (1..MaxSurface)
    /\ NoBinding \notin Binding
    /\ NoBinding \notin [surface : Generation \X (0..MaxSurface),
                         usable : BOOLEAN]

Access == INSTANCE OsdAccess WITH
            Surface <- Generation \X (1..MaxSurface),
            NoSurface <- NoObservation,
            NoView <- NoBinding,
            surface <- SurfaceObserved,
            view <- views

\* A viewer binding, on which leases of the OSD's controllers stand, is only
\* ever put on the surface the Core observes, by a viewer who may see it, and is
\* only unusable when there is none (OsdViewerBindingService::attach, read): the
\* sessions, observations and restarts below do not show through.
ImplementsAccess == Access!Spec
===============================================================================
