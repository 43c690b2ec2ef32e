------------------------------ MODULE OsdSource ------------------------------
(***************************************************************************)
(* The OSD state SuiteBridge keeps inside VDR (suitebridge_osd_state.cpp). *)
(*                                                                         *)
(* VDR's main thread calls back for every change of its OSD; an SVDRP or   *)
(* local-control thread copies the state under a try-lock.  Neither side   *)
(* waits: a callback that finds the lock taken is dropped and only breaks  *)
(* the continuity, a copy that finds it taken reports nothing usable.      *)
(***************************************************************************)
EXTENDS Naturals

CONSTANTS
    Family,      \* what VDR can show: a menu, the channel info
    MaxSurface,  \* bound on the surfaces opened
    MaxSequence, \* bound on the frame sequence
    MaxDrops,    \* bound on the callbacks dropped
    MaxUpsets,   \* bound on restarts, outages, lapses and departures together
    NoCopy       \* no reader is between its copy and the rest of its answer

ASSUME SourceAssumption ==
    /\ "none" \notin Family
    /\ {MaxSurface, MaxSequence, MaxDrops, MaxUpsets} \subseteq Nat
    /\ MaxSequence > 0

VARIABLES
    screen,   \* what VDR really shows, and whether a call for it was dropped
    osd,      \* SuiteBridge's copy of it: the state_ payload
    broken,   \* continuityBroken_
    dropped,  \* droppedUpdates_
    surfaces, \* surfaces opened so far: each draws a fresh random epoch
    copied,   \* the payload copied by the Agent's reader, which has let the
              \* lock go and not looked at broken and dropped yet, or NoCopy
    upsets    \* restarts, outages, lapses and departures so far

pluginVars == <<screen, osd, broken, dropped, surfaces, copied>>
sourceVars == <<pluginVars, upsets>>

\* What a payload misses of VDR's OSD: nothing; calls dropped before the
\* payload was started for the surface; calls dropped, or cut, since then.
Lack == {"nothing", "opening", "inside"}

\* The payload of no surface, after Clear; its epoch is empty (0).
Blank(n) == [kind |-> "none", epoch |-> 0, seq |-> n,
             complete |-> TRUE, lacks |-> "nothing"]

\* AdvanceLocked on the payload o under continuity b.
Advance(o, b) == [o EXCEPT !.seq = @ + 1, !.complete = @ /\ ~b]

\* SuiteBridge is activated: the constructor's state, cleared.
SourceInit ==
    /\ screen = [kind |-> "none", dirty |-> FALSE]
    /\ osd = Advance(Blank(0), FALSE)
    /\ broken = FALSE
    /\ dropped = 0
    /\ surfaces = 0
    /\ copied = NoCopy
    /\ upsets = 0

Upset ==
    /\ upsets < MaxUpsets
    /\ upsets' = upsets + 1

-------------------------------------------------------------------------------
\* VDR draws on a surface of family k; lost when SuiteBridge drops the call.
Draw(k, lost) ==
    screen' = [kind |-> k,
               dirty |-> lost \/ (screen.kind = k /\ screen.dirty)]

\* StartSurfaceLocked: another family takes over a payload reset under a new
\* epoch, and with it the broken continuity is forgotten.
StartsSurface(k) == osd.kind # k

\* Title, StatusMessage, HelpKeys, Item, CurrentItem, TextItem, Channel and
\* Programme: a call of family k that found the lock free.  Text that does not
\* fit is cut, and the payload is incomplete from then on.
Update(k, fits) ==
    /\ osd.seq < MaxSequence
    /\ Draw(k, FALSE)
    /\ \/ /\ StartsSurface(k)
          /\ surfaces < MaxSurface
          /\ surfaces' = surfaces + 1
          /\ broken' = FALSE
          /\ osd' = Advance(
                [kind |-> k, epoch |-> surfaces + 1, seq |-> osd.seq,
                 complete |-> fits,
                 lacks |-> IF ~fits THEN "inside"
                           ELSE IF screen'.dirty THEN "opening"
                           ELSE "nothing"],
                FALSE)
       \/ /\ ~StartsSurface(k)
          /\ osd' = Advance(
                [osd EXCEPT !.complete = @ /\ fits,
                            !.lacks = IF fits THEN @ ELSE "inside"],
                broken)
          /\ UNCHANGED <<surfaces, broken>>
    /\ UNCHANGED <<dropped, copied, upsets>>

\* Clear, when VDR closes its OSD.
Clear ==
    /\ screen.kind # "none"
    /\ osd.seq < MaxSequence
    /\ screen' = [kind |-> "none", dirty |-> FALSE]
    /\ osd' = Advance(Blank(osd.seq), FALSE)
    /\ broken' = FALSE
    /\ UNCHANGED <<dropped, surfaces, copied, upsets>>

\* Mutant: a dropped call is counted and nothing else.
CountDropped ==
    /\ dropped < MaxDrops
    /\ dropped' = dropped + 1
    /\ osd' = [osd EXCEPT !.lacks = IF osd.kind = "none" THEN @ ELSE "inside"]
    /\ UNCHANGED <<broken, surfaces, copied, upsets>>

\* Mutant: the try-lock and its caller both count the dropped call.
MarkDroppedTwice ==
    /\ dropped < MaxDrops
    /\ dropped' = dropped + 2
    /\ broken' = TRUE
    /\ osd' = [osd EXCEPT !.lacks = IF osd.kind = "none" THEN @ ELSE "inside"]
    /\ UNCHANGED <<surfaces, copied, upsets>>

\* MarkDroppedUpdate: a call that found a reader holding the lock.
MarkDropped ==
    /\ dropped < MaxDrops
    /\ dropped' = dropped + 1
    /\ broken' = TRUE
    /\ osd' = [osd EXCEPT !.lacks = IF osd.kind = "none" THEN @ ELSE "inside"]
    /\ UNCHANGED <<surfaces, copied, upsets>>

DropUpdate(k) == MarkDropped /\ Draw(k, TRUE)

DropClear ==
    /\ screen.kind # "none"
    /\ MarkDropped
    /\ screen' = [kind |-> "none", dirty |-> FALSE]

\* VDR restarts and with it the plugin: its counters begin again, and a reader
\* gets no answer.
RestartVdr ==
    /\ Upset
    /\ screen' = [kind |-> "none", dirty |-> FALSE]
    /\ osd' = Advance(Blank(0), FALSE)
    /\ broken' = FALSE
    /\ dropped' = 0
    /\ copied' = NoCopy
    /\ UNCHANGED surfaces

-------------------------------------------------------------------------------
\* CaptureSnapshot, with the lock free: the payload is copied under the lock ...
Copy ==
    /\ copied = NoCopy
    /\ copied' = osd
    /\ UNCHANGED <<screen, osd, broken, dropped, surfaces, upsets>>

SourceNext ==
    \/ \E k \in Family, fits \in BOOLEAN : Update(k, fits)
    \/ \E k \in Family : DropUpdate(k)
    \/ Clear
    \/ DropClear
    \/ RestartVdr
    \/ Copy

\* ... and completed after it, by what broken and dropped are by then.
Snapshot(o) ==
    [kind |-> o.kind, epoch |-> o.epoch, seq |-> o.seq,
     complete |-> o.complete /\ ~broken, drops |-> dropped,
     lacks |-> o.lacks]

\* CaptureSnapshot with a callback inside the lock.
Unavailable ==
    [kind |-> "none", epoch |-> 0, seq |-> 0, complete |-> FALSE,
     drops |-> dropped, lacks |-> "nothing"]

Payload == [kind : Family \cup {"none"}, epoch : 0..MaxSurface,
            seq : 0..MaxSequence, complete : BOOLEAN, lacks : Lack]

Frame == [kind : Family \cup {"none"}, epoch : 0..MaxSurface,
          seq : 0..MaxSequence, complete : BOOLEAN, drops : 0..MaxDrops,
          lacks : Lack]

SourceTypeOK ==
    /\ screen \in [kind : Family \cup {"none"}, dirty : BOOLEAN]
    /\ osd \in Payload
    /\ broken \in BOOLEAN
    /\ dropped \in 0..MaxDrops
    /\ surfaces \in 0..MaxSurface
    /\ copied \in Payload \cup {NoCopy}
    /\ upsets \in 0..MaxUpsets
===============================================================================
