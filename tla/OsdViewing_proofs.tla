--------------------------- MODULE OsdViewing_proofs ---------------------------
(***************************************************************************)
(* ViewInv is inductive: what a viewer is given has no unnoticed gap, and  *)
(* "unchanged" is only said of the frame it shows.                         *)
(***************************************************************************)
EXTENDS OsdInvariant, TLAPS

-------------------------------------------------------------------------------
(* Frames *)

LEMMA AdvanceTyped ==
    ASSUME NEW o \in Payload, o.seq < MaxSequence, NEW b \in BOOLEAN
    PROVE  /\ Advance(o, b) \in Payload
           /\ Advance(o, b).kind = o.kind
           /\ Advance(o, b).epoch = o.epoch
           /\ Advance(o, b).lacks = o.lacks
           /\ Advance(o, b).complete = (o.complete /\ ~b)
<1>1. Advance(o, b) = [o EXCEPT !.seq = @ + 1, !.complete = @ /\ ~b]
  BY DEF Advance
<1>2. o.seq + 1 \in 0..MaxSequence
  BY SourceAssumption DEF Payload, SourceAssumption
<1>3. (o.complete /\ ~b) \in BOOLEAN
  OBVIOUS
<1> QED
  BY <1>1, <1>2, <1>3 DEF Payload

LEMMA BlankTyped ==
    ASSUME NEW n \in 0..MaxSequence
    PROVE  /\ Blank(n) \in Payload
           /\ Blank(n).kind = "none"
           /\ Blank(n).epoch = 0
           /\ Blank(n).seq = n
           /\ Blank(n).lacks = "nothing"
BY SourceAssumption DEF Blank, Payload, Lack, SourceAssumption

\* What SuiteBridge holds after a Clear or a restart.
LEMMA ClearedTyped ==
    ASSUME NEW n \in 0..MaxSequence, n < MaxSequence
    PROVE  /\ Advance(Blank(n), FALSE) \in Payload
           /\ Advance(Blank(n), FALSE).kind = "none"
           /\ Advance(Blank(n), FALSE).epoch = 0
           /\ Advance(Blank(n), FALSE).lacks = "nothing"
<1> DEFINE b == Blank(n)
<1>1. /\ b \in Payload /\ b.seq < MaxSequence
      /\ b.kind = "none" /\ b.epoch = 0 /\ b.lacks = "nothing"
  BY BlankTyped
<1> HIDE DEF b
<1>2. /\ Advance(b, FALSE) \in Payload
      /\ Advance(b, FALSE).kind = b.kind
      /\ Advance(b, FALSE).epoch = b.epoch
      /\ Advance(b, FALSE).lacks = b.lacks
  BY <1>1, AdvanceTyped
<1> QED
  BY <1>1, <1>2 DEF b

LEMMA SnapshotTyped ==
    ASSUME NEW o \in Payload, SourceTypeOK
    PROVE  /\ Snapshot(o) \in Frame
           /\ Snapshot(o).epoch = o.epoch
           /\ Snapshot(o).lacks = o.lacks
           /\ Snapshot(o).complete = (o.complete /\ ~broken)
BY DEF Snapshot, Payload, Frame, SourceTypeOK

LEMMA UnavailableTyped ==
    ASSUME SourceTypeOK
    PROVE  /\ Unavailable \in Frame
           /\ Unavailable.epoch = 0
           /\ Unavailable.lacks = "nothing"
BY SourceAssumption DEF Unavailable, Frame, Lack, SourceTypeOK, SourceAssumption

\* The buffer never holds a frame of its own making.
LEMMA ApplyKeeps ==
    ASSUME NEW b \in Buffered \cup {NoFrame}, NEW f \in Frame
    PROVE  /\ Apply(b, f) \in Buffered
           /\ \/ Apply(b, f).frame = f
              \/ b # NoFrame /\ Apply(b, f).frame = b.frame
<1>1. \A r \in BOOLEAN : [frame |-> f, resync |-> r] \in Buffered
  BY DEF Buffered
<1>2. CASE b = NoFrame
  BY <1>1, <1>2 DEF Apply, Replaces, Degraded, Frame
<1>3. CASE b # NoFrame
  <2>1. b \in Buffered
    BY <1>3
  <2>2. \A r \in BOOLEAN : [b EXCEPT !.resync = r] \in Buffered
                           /\ [b EXCEPT !.resync = r].frame = b.frame
    BY <2>1 DEF Buffered
  <2> QED
    BY <1>1, <1>3, <2>1, <2>2 DEF Apply, Degraded, Buffered, Frame
<1> QED
  BY <1>2, <1>3

LEMMA PublishedTyped ==
    ASSUME NEW b \in Buffered
    PROVE  /\ Published(b) \in [frame : Picture, resync : BOOLEAN]
           /\ Published(b).frame.epoch = b.frame.epoch
           /\ Published(b).frame.lacks = b.frame.lacks
           /\ Published(b).resync = b.resync
BY DEF Published, PictureOf, Picture, Buffered, Frame

-------------------------------------------------------------------------------
(* The plugin *)

LEMMA SourceStarts == SourceInit => SourceTypeOK /\ osd.kind = "none"
                                    /\ osd.epoch = 0 /\ osd.lacks = "nothing"
<1> SUFFICES ASSUME SourceInit
             PROVE  SourceTypeOK /\ osd.kind = "none"
                    /\ osd.epoch = 0 /\ osd.lacks = "nothing"
  OBVIOUS
<1>1. 0 \in 0..MaxSequence /\ 0 < MaxSequence
  BY SourceAssumption DEF SourceAssumption
<1>2. osd \in Payload /\ osd.kind = "none" /\ osd.epoch = 0
      /\ osd.lacks = "nothing"
  BY <1>1, ClearedTyped DEF SourceInit
<1>3. screen \in [kind : Family \cup {"none"}, dirty : BOOLEAN]
  BY DEF SourceInit
<1>4. broken \in BOOLEAN /\ copied \in Payload \cup {NoCopy}
  BY DEF SourceInit
<1>5. /\ dropped \in 0..MaxDrops
      /\ surfaces \in 0..MaxSurface
      /\ upsets \in 0..MaxUpsets
  BY SourceAssumption DEF SourceInit, SourceAssumption
<1> QED
  BY <1>2, <1>3, <1>4, <1>5 DEF SourceTypeOK

\* Whatever the plugin does: either the payload is still of the surface it was,
\* or it is of a surface opened just now, or of none.
Stays ==
    /\ osd'.kind = osd.kind
    /\ osd'.epoch = osd.epoch
    /\ osd.kind = "none" => osd'.lacks = osd.lacks
    /\ surfaces' = surfaces
    /\ broken => broken'

Opens ==
    /\ osd'.kind # "none"
    /\ osd'.epoch = surfaces + 1
    /\ surfaces' = surfaces + 1

Closes ==
    /\ osd'.kind = "none"
    /\ osd'.epoch = 0
    /\ osd'.lacks = "nothing"
    /\ surfaces' = surfaces

Moves ==
    /\ SourceTypeOK'
    /\ Stays \/ Opens \/ Closes

LEMMA UpdateMoves ==
    ASSUME SourceTypeOK, SourceTells, NEW k \in Family, NEW fits \in BOOLEAN,
           Update(k, fits)
    PROVE  Moves /\ SourceTells'
<1>1. screen' \in [kind : Family \cup {"none"}, dirty : BOOLEAN]
  BY DEF Update, Draw, SourceTypeOK
<1>2. dropped' = dropped /\ copied' = copied /\ upsets' = upsets
  BY DEF Update
<1>3. k # "none"
  BY SourceAssumption DEF SourceAssumption
<1>4. CASE StartsSurface(k)
  <2> DEFINE l == IF ~fits THEN "inside"
                  ELSE IF screen'.dirty THEN "opening" ELSE "nothing"
             o == [kind |-> k, epoch |-> surfaces + 1, seq |-> osd.seq,
                   complete |-> fits, lacks |-> l]
  <2>1. /\ surfaces < MaxSurface
        /\ surfaces' = surfaces + 1
        /\ broken' = FALSE
        /\ osd.seq < MaxSequence
        /\ osd' = Advance(o, FALSE)
    BY <1>4 DEF Update
  <2>2. o \in Payload /\ o.seq = osd.seq /\ o.kind = k
        /\ o.epoch = surfaces + 1 /\ o.complete = fits /\ o.lacks = l
    <3>1. surfaces + 1 \in 0..MaxSurface
      BY <2>1, SourceAssumption DEF SourceTypeOK, SourceAssumption
    <3>2. l \in Lack
      BY DEF Lack
    <3>3. osd.seq \in 0..MaxSequence
      BY DEF SourceTypeOK, Payload
    <3> HIDE DEF l
    <3> QED
      BY <3>1, <3>2, <3>3 DEF Payload
  <2>3. fits => l # "inside"
    OBVIOUS
  <2> HIDE DEF o, l
  <2>4. /\ osd' \in Payload
        /\ osd'.kind = k
        /\ osd'.epoch = surfaces + 1
        /\ osd'.lacks = l
        /\ osd'.complete = fits
    BY <2>1, <2>2, AdvanceTyped
  <2>5. surfaces + 1 \in 0..MaxSurface
    BY <2>1, SourceAssumption DEF SourceTypeOK, SourceAssumption
  <2>6. SourceTypeOK'
    BY <1>1, <1>2, <2>1, <2>4, <2>5 DEF SourceTypeOK
  <2> QED
    BY <1>3, <2>1, <2>3, <2>4, <2>6 DEF Moves, Opens, SourceTells
<1>5. CASE ~StartsSurface(k)
  <2> DEFINE l == IF fits THEN osd.lacks ELSE "inside"
             o == [osd EXCEPT !.complete = @ /\ fits, !.lacks = l]
  <2>1. /\ osd.seq < MaxSequence
        /\ osd' = Advance(o, broken)
        /\ surfaces' = surfaces /\ broken' = broken
    BY <1>5 DEF Update
  <2>2. osd \in Payload
    BY DEF SourceTypeOK
  <2>3. l \in Lack
    BY <2>2 DEF Lack, Payload
  <2>4. fits => l = osd.lacks
    OBVIOUS
  <2> HIDE DEF l
  <2>5. (osd.complete /\ fits) \in BOOLEAN
    OBVIOUS
  <2>6. /\ o \in Payload
        /\ o.seq = osd.seq
        /\ o.kind = osd.kind
        /\ o.epoch = osd.epoch
        /\ o.lacks = l
        /\ o.complete = (osd.complete /\ fits)
    BY <2>2, <2>3, <2>5 DEF Payload
  <2> HIDE DEF o
  <2>7. broken \in BOOLEAN
    BY DEF SourceTypeOK
  <2>8. /\ osd' \in Payload
        /\ osd'.kind = osd.kind
        /\ osd'.epoch = osd.epoch
        /\ osd'.lacks = l
        /\ osd'.complete = (o.complete /\ ~broken)
    BY <2>1, <2>6, <2>7, AdvanceTyped
  <2>9. SourceTypeOK'
    BY <1>1, <1>2, <2>1, <2>8 DEF SourceTypeOK
  <2>10. SourceTells'
    BY <2>1, <2>4, <2>6, <2>8, Zenon DEF SourceTells
  <2> QED
    BY <1>3, <1>5, <2>1, <2>8, <2>9, <2>10 DEF Moves, Stays, StartsSurface
<1> QED
  BY <1>4, <1>5

LEMMA ClearMoves ==
    ASSUME SourceTypeOK, Clear
    PROVE  Moves /\ SourceTells'
<1>1. osd.seq \in 0..MaxSequence /\ osd.seq < MaxSequence
  BY DEF Clear, SourceTypeOK, Payload
<1>2. /\ osd' \in Payload
      /\ osd'.kind = "none"
      /\ osd'.epoch = 0
      /\ osd'.lacks = "nothing"
  BY <1>1, ClearedTyped DEF Clear
<1>3. screen' \in [kind : Family \cup {"none"}, dirty : BOOLEAN]
  BY DEF Clear
<1>4. broken' = FALSE /\ UNCHANGED <<dropped, surfaces, copied, upsets>>
  BY DEF Clear
<1> QED
  BY <1>2, <1>3, <1>4 DEF SourceTypeOK, Moves, Closes, SourceTells

LEMMA RestartVdrMoves ==
    ASSUME SourceTypeOK, RestartVdr
    PROVE  Moves /\ SourceTells' /\ copied' = NoCopy
<1>1. 0 \in 0..MaxSequence /\ 0 < MaxSequence
  BY SourceAssumption DEF SourceAssumption
<1>2. /\ osd' \in Payload
      /\ osd'.kind = "none"
      /\ osd'.epoch = 0
      /\ osd'.lacks = "nothing"
  BY <1>1, ClearedTyped DEF RestartVdr
<1>3. screen' \in [kind : Family \cup {"none"}, dirty : BOOLEAN]
  BY DEF RestartVdr
<1>4. /\ broken' = FALSE
      /\ dropped' \in 0..MaxDrops
      /\ surfaces' = surfaces
      /\ copied' = NoCopy
      /\ upsets' \in 0..MaxUpsets
  BY SourceAssumption DEF RestartVdr, Upset, SourceTypeOK, SourceAssumption
<1> QED
  BY <1>2, <1>3, <1>4 DEF SourceTypeOK, Moves, Closes, SourceTells

LEMMA DropMoves ==
    ASSUME SourceTypeOK, MarkDropped,
           screen' \in [kind : Family \cup {"none"}, dirty : BOOLEAN]
    PROVE  Moves /\ SourceTells'
<1> DEFINE l == IF osd.kind = "none" THEN osd.lacks ELSE "inside"
<1>1. osd \in Payload
  BY DEF SourceTypeOK
<1>2. osd' = [osd EXCEPT !.lacks = l]
  BY DEF MarkDropped
<1>3. l \in Lack
  BY <1>1 DEF Lack, Payload
<1>4. osd.kind = "none" => l = osd.lacks
  OBVIOUS
<1> HIDE DEF l
<1>5. /\ osd' \in Payload
      /\ osd'.kind = osd.kind
      /\ osd'.epoch = osd.epoch
      /\ osd'.lacks = l
  BY <1>1, <1>2, <1>3 DEF Payload
<1>6. /\ broken' = TRUE
      /\ dropped' \in 0..MaxDrops
      /\ UNCHANGED <<surfaces, copied, upsets>>
  BY SourceAssumption DEF MarkDropped, SourceTypeOK, SourceAssumption
<1> QED
  BY <1>4, <1>5, <1>6 DEF SourceTypeOK, Moves, Stays, SourceTells

LEMMA CopyMoves ==
    ASSUME SourceTypeOK, SourceTells, Copy
    PROVE  Moves /\ SourceTells' /\ copied' = osd
<1>1. osd' = osd /\ UNCHANGED <<screen, broken, dropped, surfaces, upsets>>
      /\ copied' = osd
  BY DEF Copy
<1> QED
  BY <1>1 DEF SourceTypeOK, Moves, Stays, SourceTells

\* Every step of the plugin moves the payload so; it keeps what is copied, makes
\* a copy, or forgets it.
LEMMA SourceMoves ==
    ASSUME SourceTypeOK, SourceTells, SourceNext
    PROVE  /\ Moves
           /\ SourceTells'
           /\ Copy \/ copied' \in {copied, NoCopy}
<1>1. CASE \E k \in Family, fits \in BOOLEAN : Update(k, fits)
  <2>1. PICK k \in Family, fits \in BOOLEAN : Update(k, fits)
    BY <1>1
  <2>2. Moves /\ SourceTells'
    BY <2>1, UpdateMoves
  <2>3. copied' = copied
    BY <2>1 DEF Update
  <2> QED
    BY <2>2, <2>3
<1>2. CASE \E k \in Family : DropUpdate(k)
  <2>1. PICK k \in Family : DropUpdate(k)
    BY <1>2
  <2>2. screen' \in [kind : Family \cup {"none"}, dirty : BOOLEAN]
    BY <2>1 DEF DropUpdate, Draw
  <2> QED
    BY <2>1, <2>2, DropMoves DEF DropUpdate, MarkDropped
<1>3. CASE Clear
  BY <1>3, ClearMoves DEF Clear
<1>4. CASE DropClear
  <2>1. screen' \in [kind : Family \cup {"none"}, dirty : BOOLEAN]
    BY <1>4 DEF DropClear
  <2> QED
    BY <1>4, <2>1, DropMoves DEF DropClear, MarkDropped
<1>5. CASE RestartVdr
  BY <1>5, RestartVdrMoves
<1>6. CASE Copy
  BY <1>6, CopyMoves
<1> QED
  BY <1>1, <1>2, <1>3, <1>4, <1>5, <1>6 DEF SourceNext

-------------------------------------------------------------------------------
(* Types *)

LEMMA ObservationStarts == Init => TypeOK
<1> SUFFICES ASSUME Init PROVE TypeOK
  OBVIOUS
<1>1. SourceTypeOK
  BY SourceStarts DEF Init
<1>2. 1 \in Generation
  BY DEF Generation
<1>3. ObservationTypeOK
  BY <1>1, <1>2 DEF Init, ObservationInit, ObservationTypeOK
<1>4. 0 \in 0..MaxSequence
  BY SourceAssumption DEF SourceAssumption
<1>5. NewClient \in Viewer
  BY <1>4 DEF NewClient, Viewer
<1> QED
  BY <1>3, <1>5 DEF Init, ViewingInit, TypeOK

LEMMA UpsetTyped ==
    ASSUME SourceTypeOK, Upset, UNCHANGED <<screen, osd, broken, dropped, surfaces>>,
           copied' \in {copied, NoCopy}
    PROVE  SourceTypeOK'
<1>1. upsets' \in 0..MaxUpsets
  BY SourceAssumption DEF Upset, SourceTypeOK, SourceAssumption
<1> QED
  BY <1>1 DEF SourceTypeOK

LEMMA SourceFrames ==
    ASSUME SourceTypeOK, NEW received \in BOOLEAN,
           ObserveCopy(received) \/ ObserveBusy(received)
    PROVE  \E f \in Frame :
              /\ Observe(f, received)
              /\ \/ copied # NoCopy /\ f = Snapshot(copied)
                 \/ f = Unavailable
<1>1. copied # NoCopy => Snapshot(copied) \in Frame
  BY SnapshotTyped DEF SourceTypeOK
<1>2. Unavailable \in Frame
  BY UnavailableTyped
<1> QED
  BY <1>1, <1>2 DEF ObserveCopy, ObserveBusy

LEMMA ObserveTyped ==
    ASSUME ObservationTypeOK, NEW f \in Frame, NEW received \in BOOLEAN,
           Observe(f, received)
    PROVE  ObservationTypeOK'
<1>1. SourceTypeOK'
  BY DEF Observe, Ingested, ObservationTypeOK, SourceTypeOK
<1>2. buffer' \in Buffered
  BY ApplyKeeps DEF Observe, Ingested, ObservationTypeOK
<1>3. Published(buffer') \in [frame : Picture, resync : BOOLEAN]
  BY <1>2, PublishedTyped
<1>4. observed' \in [frame : Picture, resync : BOOLEAN] \cup {NoObservation}
  BY <1>3 DEF Observe, Ingested, ObservationTypeOK
<1> QED
  BY <1>1, <1>2, <1>4 DEF Observe, Ingested, ObservationTypeOK

LEMMA ObservationStepTyped ==
    ASSUME ObservationTypeOK, SourceTells, ObservationNext
    PROVE  ObservationTypeOK'
<1> USE DEF ObservationTypeOK
<1>1. CASE \E received \in BOOLEAN : ObserveCopy(received) \/ ObserveBusy(received)
  BY <1>1, SourceFrames, ObserveTyped
<1>2. CASE LoseObservation
  BY <1>2, UpsetTyped DEF LoseObservation, pluginVars
<1>3. CASE GoOffline
  BY <1>3, UpsetTyped DEF GoOffline, pluginVars
<1>4. CASE ComeBack
  BY <1>4 DEF ComeBack, SourceTypeOK, sourceVars, pluginVars
<1>5. CASE RestartAgent
  <2>1. SourceTypeOK'
    BY <1>5, UpsetTyped DEF RestartAgent
  <2>2. generation' \in Generation
    BY <1>5 DEF RestartAgent, Generation
  <2> QED
    BY <1>5, <2>1, <2>2 DEF RestartAgent
<1>6. CASE SourceNext /\ UNCHANGED observationVars
  BY <1>6, SourceMoves DEF Moves, observationVars
<1> QED
  BY <1>1, <1>2, <1>3, <1>4, <1>5, <1>6 DEF ObservationNext

-------------------------------------------------------------------------------
(* What a poll is answered *)

LEMMA ResyncedParts ==
    ASSUME NEW b \in Binding
    PROVE  /\ Resynced(b) \in Binding
           /\ Resynced(b).state = "resync"
           /\ Resynced(b).epoch = b.epoch
           /\ Resynced(b).acked = 0
           /\ Resynced(b).delivered = 0
<1>1. 0 \in 0..MaxSequence
  BY SourceAssumption DEF SourceAssumption
<1> DEFINE x == [b EXCEPT !.state = "resync"]
           y == [x EXCEPT !.acked = 0]
<1>2. Resynced(b) = [y EXCEPT !.delivered = 0]
  BY DEF Resynced
<1>3. x \in Binding /\ x.state = "resync" /\ x.epoch = b.epoch
  BY DEF Binding
<1> HIDE DEF x
<1>4. /\ y \in Binding
      /\ y.state = "resync"
      /\ y.epoch = b.epoch
      /\ y.acked = 0
  BY <1>1, <1>3 DEF Binding
<1> HIDE DEF y
<1> QED
  BY <1>1, <1>2, <1>4 DEF Binding

LEMMA AcknowledgedParts ==
    ASSUME NEW b \in Binding, NEW ack
    PROVE  /\ Acknowledged(b, ack) \in Binding
           /\ Acknowledged(b, ack).state = b.state
           /\ Acknowledged(b, ack).epoch = b.epoch
           /\ Acknowledged(b, ack).delivered = b.delivered
           /\ Acknowledged(b, ack).acked =
                 IF ack = b.delivered THEN b.delivered ELSE b.acked
<1>1. b.delivered \in 0..MaxSequence
  BY DEF Binding
<1>2. CASE ack = b.delivered
  BY <1>1, <1>2 DEF Acknowledged, Binding
<1>3. CASE ack # b.delivered
  BY <1>3 DEF Acknowledged
<1> QED
  BY <1>2, <1>3

\* The answers: the binding is suspended, gone or resynchronised, or the viewer is
\* given the observed frame, or is told that it shows it.
Suspends(b, a) ==
    /\ a.kind = "suspended"
    /\ a.binding = [b EXCEPT !.state = "suspended"]

Ends(a) ==
    /\ a.kind = "gone"
    /\ a.binding = NoBinding

Resyncs(a) ==
    /\ a.kind = "resync"
    /\ a.binding \in Binding
    /\ a.binding.state = "resync"
    /\ a.binding.epoch = observed.frame.epoch
    /\ a.binding.acked = 0
    /\ a.binding.delivered = 0

\* The binding of an answer to ack while the frame f is observed.
Follows(b, ack, f, x) ==
    /\ x \in Binding
    /\ x.state = "attached"
    /\ x.epoch = b.epoch
    /\ b.epoch = f.epoch
    /\ x.delivered = f.seq
    /\ ack \in {b.acked, b.delivered}
    /\ x.acked = IF ack = b.delivered THEN b.delivered ELSE b.acked

Delivers(b, ack, a) ==
    /\ a.kind = "frame"
    /\ observed # NoObservation
    /\ ~observed.resync
    /\ Follows(b, ack, observed.frame, a.binding)
    /\ \/ b.delivered # a.binding.acked /\ observed.frame.seq = b.delivered
       \/ b.delivered = a.binding.acked
          /\ (b.delivered = 0 \/ b.state = "resync"
              \/ observed.frame.seq = b.delivered + 1)

Confirms(b, ack, a) ==
    /\ a.kind = "unchanged"
    /\ observed # NoObservation
    /\ Follows(b, ack, observed.frame, a.binding)
    /\ a.binding.acked = observed.frame.seq
    /\ a.binding.acked = b.delivered
    /\ b.delivered # 0

LEMMA Answered ==
    ASSUME ObservationTypeOK, NEW c \in Client, NEW s \in Session,
           NEW b \in Binding, NEW ack \in 0..MaxSequence,
           NEW a, a = Answer(c, s, b, ack)
    PROVE  \/ StateOf(c, s) = "suspended" /\ Suspends(b, a)
           \/ Ends(a)
           \/ /\ Viewable(c, s)
              /\ Resyncs(a) \/ Delivers(b, ack, a) \/ Confirms(b, ack, a)
<1> DEFINE state == StateOf(c, s)
           seq == observed.frame.seq
           epoch == observed.frame.epoch
           acked == Acknowledged(b, ack)
           up == [acked EXCEPT !.state = "attached"]
<1>1. CASE state = "suspended"
  BY <1>1 DEF Answer, Suspends
<1>2. CASE state # "suspended" /\ ~Viewable(c, s)
  BY <1>2 DEF Answer, Ends
<1>3. ASSUME state # "suspended", Viewable(c, s)
      PROVE  Resyncs(a) \/ Delivers(b, ack, a) \/ Confirms(b, ack, a)
  <2>1. observed # NoObservation
    BY <1>3, Zenon DEF Viewable, StateOf
  <2>2. observed \in [frame : Picture, resync : BOOLEAN]
    BY <2>1 DEF ObservationTypeOK
  <2>3. seq \in 0..MaxSequence /\ epoch \in 0..MaxSurface
    BY <2>2 DEF Picture
  <2>4. state # "resync" => ~observed.resync
    BY <1>3 DEF Viewable, StateOf
  <2>5. /\ acked \in Binding
        /\ acked.state = b.state
        /\ acked.epoch = b.epoch
        /\ acked.delivered = b.delivered
        /\ acked.acked = IF ack = b.delivered THEN b.delivered ELSE b.acked
    BY AcknowledgedParts
  <2>6. /\ [b EXCEPT !.epoch = epoch] \in Binding
        /\ [b EXCEPT !.epoch = epoch].epoch = epoch
    BY <2>3 DEF Binding
  <2> HIDE DEF acked, seq, epoch, state
  <2>7. CASE b.epoch # epoch
    <3> DEFINE x == [b EXCEPT !.epoch = epoch]
    <3>1. a = [binding |-> Resynced(x), kind |-> "resync"]
      BY <1>3, <2>7 DEF Answer, acked, seq, epoch, state
    <3>2. x \in Binding /\ x.epoch = epoch
      BY <2>6
    <3> HIDE DEF x
    <3> QED
      BY <3>1, <3>2, ResyncedParts DEF Resyncs, epoch
  <2>8. CASE /\ b.epoch = epoch
             /\ \/ state = "resync"
                \/ b.state = "suspended"
                \/ ack \notin {b.acked, b.delivered}
    <3>1. a = [binding |-> Resynced(b), kind |-> "resync"]
      BY <1>3, <2>8, Zenon DEF Answer, acked, seq, epoch, state
    <3> QED
      BY <2>8, <3>1, ResyncedParts DEF Resyncs, epoch
  <2>9. ASSUME b.epoch = epoch, state # "resync", b.state # "suspended",
               ack \in {b.acked, b.delivered}
        PROVE  Resyncs(a) \/ Delivers(b, ack, a) \/ Confirms(b, ack, a)
    <3>1. /\ up \in Binding
          /\ up.state = "attached"
          /\ up.epoch = b.epoch
          /\ up.acked = acked.acked
          /\ up.delivered = b.delivered
      BY <2>5 DEF Binding
    <3> HIDE DEF up
    <3>2. CASE acked.delivered # acked.acked /\ seq = acked.delivered
      <4>1. a = [binding |-> up, kind |-> "frame"]
        BY <1>3, <2>9, <3>2, Zenon DEF Answer, acked, seq, epoch, state, up
      <4> QED
        BY <2>1, <2>4, <2>5, <2>9, <3>1, <3>2, <4>1
           DEF Delivers, Follows, seq, epoch
    <3>3. CASE acked.delivered # acked.acked /\ seq # acked.delivered
      <4>1. a = [binding |-> Resynced(acked), kind |-> "resync"]
        BY <1>3, <2>9, <3>3, Zenon DEF Answer, acked, seq, epoch, state, up
      <4> QED
        BY <2>5, <2>9, <4>1, ResyncedParts DEF Resyncs, epoch
    <3>4. CASE /\ acked.delivered = acked.acked
               /\ \/ acked.acked = 0
                  \/ acked.state = "resync"
                  \/ seq = acked.acked + 1
      <4> DEFINE x == [up EXCEPT !.delivered = seq]
      <4>1. a = [binding |-> x, kind |-> "frame"]
        <5>1. a = [binding |-> [acked EXCEPT !.state = "attached", !.delivered = seq],
                   kind |-> "frame"]
          BY <1>3, <2>9, <3>4, Zenon DEF Answer, acked, seq, epoch, state
        <5> QED
          BY <5>1 DEF up
      <4>2. /\ x \in Binding
            /\ x.state = "attached"
            /\ x.epoch = b.epoch
            /\ x.acked = acked.acked
            /\ x.delivered = seq
        BY <2>3, <3>1 DEF Binding
      <4> HIDE DEF x
      <4>3. a.kind = "frame" /\ a.binding = x
        BY <4>1
      <4>4. Follows(b, ack, observed.frame, x)
        BY <2>5, <2>9, <4>2 DEF Follows, seq, epoch
      <4>5. b.delivered = x.acked
        BY <2>5, <3>4, <4>2
      <4>6. b.delivered = 0 \/ b.state = "resync" \/ seq = b.delivered + 1
        BY <2>5, <3>4
      <4> QED
        BY <2>1, <2>4, <2>9, <4>3, <4>4, <4>5, <4>6, Zenon DEF Delivers, seq
    <3>5. CASE /\ acked.delivered = acked.acked
               /\ acked.acked # 0
               /\ acked.state # "resync"
               /\ seq # acked.acked + 1
               /\ seq = acked.acked
      <4>1. a = [binding |-> up, kind |-> "unchanged"]
        BY <1>3, <2>9, <3>5, Zenon DEF Answer, acked, seq, epoch, state, up
      <4> QED
        BY <2>1, <2>5, <2>9, <3>1, <3>5, <4>1
           DEF Confirms, Follows, seq, epoch
    <3>6. CASE /\ acked.delivered = acked.acked
               /\ acked.acked # 0
               /\ acked.state # "resync"
               /\ seq # acked.acked + 1
               /\ seq # acked.acked
      <4>1. a = [binding |-> Resynced(acked), kind |-> "resync"]
        BY <1>3, <2>9, <3>6, Zenon DEF Answer, acked, seq, epoch, state, up
      <4> QED
        BY <2>5, <2>9, <4>1, ResyncedParts DEF Resyncs, epoch
    <3> QED
      BY <3>2, <3>3, <3>4, <3>5, <3>6
  <2> QED
    BY <2>7, <2>8, <2>9
<1> QED
  BY <1>1, <1>2, <1>3

-------------------------------------------------------------------------------
(* Cursors *)

LEMMA ViewerParts ==
    ASSUME NEW v \in Viewer
    PROVE  /\ [v EXCEPT !.ack = 0] \in Viewer
           /\ [v EXCEPT !.ack = 0].ack = 0
           /\ [v EXCEPT !.ack = 0].shows = v.shows
<1>1. 0 \in 0..MaxSequence
  BY SourceAssumption DEF SourceAssumption
<1> QED
  BY <1>1 DEF Viewer

\* An answer keeps the cursors right, whether or not it reaches the viewer.
LEMMA AnswerAgrees ==
    ASSUME ObservationTypeOK, NEW c \in Client, NEW s \in Session,
           NEW b \in Binding, b # NoBinding, NEW v \in Viewer, Agree(v, b),
           NEW a, a = Answer(c, s, b, v.ack)
    PROVE  /\ a.binding \in Binding \cup {NoBinding}
           /\ React(v, a.kind) \in Viewer
           /\ Agree(v, a.binding)
           /\ Agree(React(v, a.kind), a.binding)
<1>1. v.ack \in 0..MaxSequence
  BY DEF Viewer
<1>2. CASE Suspends(b, a)
  <2>1. React(v, a.kind) = v
    BY <1>2 DEF Suspends, React
  <2>2. /\ a.binding \in Binding
        /\ a.binding.state = "suspended"
        /\ a.binding.epoch = b.epoch
        /\ a.binding.acked = b.acked
        /\ a.binding.delivered = b.delivered
    BY <1>2 DEF Suspends, Binding
  <2> QED
    BY <2>1, <2>2 DEF Agree
<1>3. CASE Ends(a)
  <2>1. React(v, a.kind) = v /\ a.binding = NoBinding
    BY <1>3 DEF Ends, React
  <2> QED
    BY <2>1 DEF Agree
<1>4. CASE Resyncs(a)
  <2> DEFINE w == [v EXCEPT !.ack = 0]
  <2>1. React(v, a.kind) = w
    BY <1>4 DEF Resyncs, React
  <2>2. w \in Viewer /\ w.ack = 0
    BY ViewerParts
  <2> HIDE DEF w
  <2> QED
    BY <1>4, <2>1, <2>2 DEF Agree, Resyncs
<1>5. CASE Delivers(b, v.ack, a)
  <2> DEFINE f == observed.frame
             w == [shows |-> f, ack |-> f.seq]
             x == a.binding
  <2>1. React(v, a.kind) = w
    BY <1>5 DEF Delivers, React
  <2>2. f \in Picture
    BY <1>5 DEF Delivers, ObservationTypeOK
  <2>3. w \in Viewer /\ w.shows = f /\ w.ack = f.seq
    BY <2>2 DEF Viewer, Picture
  <2>4. Follows(b, v.ack, f, x)
    BY <1>5 DEF Delivers
  <2>5. \/ b.delivered # x.acked /\ f.seq = b.delivered
        \/ b.delivered = x.acked
           /\ (b.delivered = 0 \/ b.state = "resync" \/ f.seq = b.delivered + 1)
    BY <1>5 DEF Delivers
  <2>6. f # Nothing
    BY <2>2, NothingAssumption
  <2>7. b.acked \in Nat /\ b.delivered \in Nat /\ f.seq \in Nat
    BY <2>2, SourceAssumption DEF Binding, Picture, SourceAssumption
  <2> HIDE DEF f, w, x
  <2>8. x.delivered = 0 => x.acked = 0
    BY <2>4, <2>5, <2>7 DEF Follows, Agree
  <2>9. v.ack # 0 => b.delivered # 0
    BY <2>4 DEF Follows, Agree
  <2>10. x.acked # 0 => v.ack \in {x.acked, x.delivered}
    BY <2>4 DEF Follows, Agree
  <2>11. Agree(v, x)
    BY <2>4, <2>8, <2>9, <2>10 DEF Follows, Agree
  <2>12. Agree(w, x)
    BY <2>3, <2>4, <2>6, <2>8 DEF Follows, Agree
  <2> QED
    BY <2>1, <2>3, <2>4, <2>11, <2>12 DEF Follows, x
<1>6. CASE Confirms(b, v.ack, a)
  <2>1. React(v, a.kind) = v
    BY <1>6 DEF Confirms, React
  <2>2. /\ a.binding \in Binding
        /\ a.binding.state = "attached"
        /\ a.binding.epoch = b.epoch
        /\ a.binding.delivered = a.binding.acked
        /\ a.binding.acked = b.delivered
        /\ v.ack \in {b.acked, b.delivered}
        /\ a.binding.acked = IF v.ack = b.delivered THEN b.delivered ELSE b.acked
        /\ b.delivered # 0
    BY <1>6 DEF Confirms, Follows
  <2> QED
    BY <2>1, <2>2 DEF Agree
<1> QED
  BY <1>1, <1>2, <1>3, <1>4, <1>5, <1>6, Answered

LEMMA ReadAgrees ==
    ASSUME TypeOK, CursorInv, NEW c \in Client, NEW received \in BOOLEAN,
           Read(c, received)
    PROVE  TypeOK' /\ CursorInv'
<1> DEFINE a == PollAnswer(c)
           v == IF received THEN React(client[c], a.kind) ELSE client[c]
<1>1. session[c] \in Session /\ binding[c] \in Binding /\ binding[c] # NoBinding
      /\ client[c] \in Viewer
  BY DEF Read, Polls, TypeOK
<1>2. Agree(client[c], binding[c])
  BY DEF CursorInv
<1>3. ObservationTypeOK
  BY DEF TypeOK
<1>4. a = Answer(c, session[c], binding[c], client[c].ack)
  BY DEF PollAnswer
<1>5. /\ a.binding \in Binding \cup {NoBinding}
      /\ v \in Viewer
      /\ Agree(v, a.binding)
  <2> HIDE DEF a
  <2> QED
    BY <1>1, <1>2, <1>3, <1>4, AnswerAgrees
<1>6. /\ binding' = [binding EXCEPT ![c] = a.binding]
      /\ client' = [client EXCEPT ![c] = v]
  BY DEF Read
<1>7. session' \in [Client -> Session \cup {NoSession}]
  <2>1. Looked(session[c]) \in Session \cup {NoSession}
    BY <1>1 DEF Looked
  <2> QED
    BY <2>1 DEF Read, TypeOK
<1> HIDE DEF a, v
<1>8. ObservationTypeOK' /\ granted' = granted
  BY <1>3 DEF Read, sourceVars, pluginVars, observationVars, ObservationTypeOK,
              SourceTypeOK
<1>9. TypeOK'
  BY <1>5, <1>6, <1>7, <1>8 DEF TypeOK
<1>10. \A d \in Client : Agree(client'[d], binding'[d])
  BY <1>5, <1>6 DEF TypeOK, CursorInv
<1> QED
  BY <1>9, <1>10 DEF CursorInv, Agree

LEMMA ViewerStepAgrees ==
    ASSUME TypeOK, CursorInv, NEW c \in Client, ViewerStep(c)
    PROVE  TypeOK' /\ CursorInv'
<1>1. CASE CreateSession(c)
  <2>1. ObservationTypeOK' /\ granted' = granted /\ client' = client
    BY <1>1 DEF CreateSession, sourceVars, pluginVars, observationVars,
                TypeOK, ObservationTypeOK, SourceTypeOK
  <2>2. [gen |-> generation, lapsed |-> FALSE] \in Session
    BY DEF Session, TypeOK, ObservationTypeOK
  <2>3. session' \in [Client -> Session \cup {NoSession}]
    BY <1>1, <2>2 DEF CreateSession, TypeOK
  <2>4. binding' = [binding EXCEPT ![c] = NoBinding]
    BY <1>1 DEF CreateSession
  <2>5. TypeOK'
    BY <2>1, <2>3, <2>4 DEF TypeOK
  <2>6. \A d \in Client : Agree(client'[d], binding'[d])
    BY <2>1, <2>4 DEF TypeOK, CursorInv, Agree
  <2> QED
    BY <2>5, <2>6 DEF CursorInv, Agree
<1>2. CASE Attach(c)
  <2>1. ObservationTypeOK' /\ granted' = granted
    BY <1>2 DEF Attach, sourceVars, pluginVars, observationVars,
                TypeOK, ObservationTypeOK, SourceTypeOK
  <2>2. session' \in [Client -> Session \cup {NoSession}]
    <3>1. Looked(session[c]) \in Session \cup {NoSession}
      BY DEF Looked, TypeOK
    <3> QED
      BY <1>2, <3>1 DEF Attach, TypeOK
  <2>3. CASE Viewable(c, session[c])
    <3> DEFINE b == [state |-> "resync", epoch |-> observed.frame.epoch,
                     acked |-> 0, delivered |-> 0]
               v == [client[c] EXCEPT !.ack = 0]
    <3>1. observed # NoObservation
      BY <2>3, Zenon DEF Viewable, StateOf
    <3>2. observed.frame.epoch \in 0..MaxSurface
      BY <3>1 DEF TypeOK, ObservationTypeOK, Picture
    <3>3. 0 \in 0..MaxSequence
      BY SourceAssumption DEF SourceAssumption
    <3>4. /\ b \in Binding
          /\ b.state = "resync"
          /\ b.acked = 0
          /\ b.delivered = 0
      BY <3>2, <3>3 DEF Binding
    <3>5. client[c] \in Viewer
      BY DEF TypeOK
    <3>6. v \in Viewer /\ v.ack = 0
      BY <3>5, ViewerParts
    <3>7. binding' = [binding EXCEPT ![c] = b]
      BY <1>2, <2>3 DEF Attach
    <3>8. client' = [client EXCEPT ![c] = v]
      BY <1>2, <2>3 DEF Attach
    <3> HIDE DEF b, v
    <3>9. Agree(v, b)
      BY <3>4, <3>6 DEF Agree
    <3>10. TypeOK'
      BY <2>1, <2>2, <3>4, <3>6, <3>7, <3>8 DEF TypeOK
    <3>11. \A d \in Client : Agree(client'[d], binding'[d])
      BY <3>7, <3>8, <3>9 DEF TypeOK, CursorInv
    <3> QED
      BY <3>10, <3>11 DEF CursorInv, Agree
  <2>4. CASE ~Viewable(c, session[c])
    <3>1. UNCHANGED <<binding, client>>
      BY <1>2, <2>4 DEF Attach
    <3> QED
      BY <2>1, <2>2, <3>1 DEF TypeOK, CursorInv, Agree
  <2> QED
    BY <2>3, <2>4
<1>3. CASE Detach(c)
  <2>1. ObservationTypeOK' /\ UNCHANGED <<granted, session, client>>
    BY <1>3, UpsetTyped DEF Detach, pluginVars, observationVars, TypeOK,
                            ObservationTypeOK
  <2>2. binding' = [binding EXCEPT ![c] = NoBinding]
    BY <1>3 DEF Detach
  <2>3. TypeOK'
    BY <2>1, <2>2 DEF TypeOK
  <2>4. \A d \in Client : Agree(client'[d], binding'[d])
    BY <2>1, <2>2 DEF TypeOK, CursorInv, Agree
  <2> QED
    BY <2>3, <2>4 DEF CursorInv, Agree
<1>4. CASE \E received \in BOOLEAN : Read(c, received)
  BY <1>4, ReadAgrees
<1>5. CASE Lapse(c)
  <2>1. ObservationTypeOK' /\ UNCHANGED <<granted, binding, client>>
    BY <1>5, UpsetTyped DEF Lapse, pluginVars, observationVars, TypeOK,
                            ObservationTypeOK
  <2>2. session' \in [Client -> Session \cup {NoSession}]
    <3>1. session[c] \in Session
      BY <1>5 DEF Lapse, TypeOK
    <3>2. [session[c] EXCEPT !.lapsed = TRUE] \in Session
      BY <3>1 DEF Session
    <3> QED
      BY <1>5, <3>2 DEF Lapse, TypeOK
  <2> QED
    BY <2>1, <2>2 DEF TypeOK, CursorInv, Agree
<1>6. CASE Revoke(c)
  <2>1. ObservationTypeOK' /\ UNCHANGED <<session, binding, client>>
    BY <1>6, UpsetTyped DEF Revoke, pluginVars, observationVars, TypeOK,
                            ObservationTypeOK
  <2>2. granted' \subseteq Client
    BY <1>6 DEF Revoke, TypeOK
  <2> QED
    BY <2>1, <2>2 DEF TypeOK, CursorInv, Agree
<1>7. CASE Grant(c)
  <2>1. ObservationTypeOK' /\ UNCHANGED <<session, binding, client>>
    BY <1>7 DEF Grant, sourceVars, pluginVars, observationVars, TypeOK,
                ObservationTypeOK, SourceTypeOK
  <2>2. granted' \subseteq Client
    BY <1>7 DEF Grant, TypeOK
  <2> QED
    BY <2>1, <2>2 DEF TypeOK, CursorInv, Agree
<1> QED
  BY <1>1, <1>2, <1>3, <1>4, <1>5, <1>6, <1>7 DEF ViewerStep

-------------------------------------------------------------------------------
(* Losses *)

\* A frame that is known and has no gap stays so while the payload moves on.
LEMMA NoGapStays ==
    ASSUME SourceTypeOK, Moves, NEW f, Known(f), f.epoch \in Nat
    PROVE  /\ f.epoch <= surfaces'
           /\ NoGap(f) \/ ~Stays => (f.lacks = "inside" => f.epoch # osd'.epoch)
<1>1. surfaces \in Nat
  BY SourceAssumption DEF SourceTypeOK, SourceAssumption
<1> QED
  BY <1>1 DEF Moves, Stays, Opens, Closes, Known, NoGap

LEMMA SourceStepLoss ==
    ASSUME TypeOK, LossInv, SourceNext, UNCHANGED observationVars,
           UNCHANGED viewingVars
    PROVE  LossInv'
<1> USE DEF observationVars, viewingVars
<1>1. SourceTypeOK /\ SourceTells
  BY DEF TypeOK, ObservationTypeOK, LossInv
<1>2. Moves /\ SourceTells' /\ (Copy \/ copied' \in {copied, NoCopy})
  BY <1>1, SourceMoves
<1>3. surfaces \in Nat /\ osd \in Payload /\ osd' \in Payload
  BY <1>1, <1>2, SourceAssumption DEF Moves, SourceTypeOK, SourceAssumption
<1>4. Known(osd)' /\ (osd'.kind = "none" <=> osd'.epoch = 0)
  BY <1>2, <1>3, SourceAssumption
     DEF Moves, Stays, Opens, Closes, LossInv, Known
<1>5. ASSUME copied' # NoCopy
      PROVE  Known(copied)' /\ (broken' \/ ~copied'.complete \/ NoGap(copied)')
  <2>1. CASE Copy
    <3>1. UNCHANGED <<osd, broken, surfaces>> /\ copied' = osd
      BY <2>1 DEF Copy
    <3> QED
      BY <3>1 DEF LossInv, SourceTells, Known, NoGap
  <2>2. CASE copied' = copied /\ copied # NoCopy
    <3>1. copied.epoch \in Nat
      BY <1>1, <2>2, SourceAssumption DEF SourceTypeOK, Payload, SourceAssumption
    <3>2. Known(copied)
          /\ (broken \/ ~copied.complete \/ NoGap(copied))
      BY <2>2 DEF LossInv
    <3>3. Known(copied)'
      BY <1>1, <1>2, <2>2, <3>1, <3>2, NoGapStays DEF Known
    <3>4. CASE Stays /\ broken
      BY <3>3, <3>4 DEF Stays
    <3>5. CASE ~Stays \/ ~broken
      BY <1>1, <1>2, <2>2, <3>1, <3>2, <3>3, <3>5, NoGapStays DEF NoGap
    <3> QED
      BY <3>4, <3>5
  <2> QED
    BY <1>2, <1>5, <2>1, <2>2
<1>6. ASSUME buffer # NoFrame
      PROVE  Known(buffer.frame)'
             /\ (~buffer.frame.complete \/ NoGap(buffer.frame)')
  <2>1. buffer.frame.epoch \in Nat
    BY <1>6, SourceAssumption DEF TypeOK, ObservationTypeOK, Buffered, Frame,
                                  SourceAssumption
  <2> QED
    BY <1>1, <1>2, <1>6, <2>1, NoGapStays DEF LossInv, Known, NoGap
<1>7. ASSUME observed # NoObservation
      PROVE  Known(observed.frame)' /\ (observed.resync \/ NoGap(observed.frame)')
  <2>1. observed.frame.epoch \in Nat
    BY <1>7, SourceAssumption DEF TypeOK, ObservationTypeOK, Picture,
                                  SourceAssumption
  <2> QED
    BY <1>1, <1>2, <1>7, <2>1, NoGapStays DEF LossInv, Known, NoGap
<1>8. ASSUME NEW c \in Client, client[c].shows # Nothing
      PROVE  Known(client[c].shows)' /\ NoGap(client[c].shows)'
  <2>1. client[c].shows.epoch \in Nat
    BY <1>8, SourceAssumption DEF TypeOK, Viewer, Picture, SourceAssumption
  <2> QED
    BY <1>1, <1>2, <1>8, <2>1, NoGapStays DEF LossInv, GapsAreSeen, Known, NoGap
<1> QED
  BY <1>2, <1>4, <1>5, <1>6, <1>7, <1>8 DEF LossInv, GapsAreSeen, Known, NoGap

LEMMA ObserveLoss ==
    ASSUME TypeOK, LossInv, UNCHANGED viewingVars, NEW received \in BOOLEAN,
           ObserveCopy(received) \/ ObserveBusy(received)
    PROVE  LossInv'
<1> USE DEF viewingVars
<1>1. SourceTypeOK /\ buffer \in Buffered \cup {NoFrame}
  BY DEF TypeOK, ObservationTypeOK
<1>2. PICK f \in Frame : /\ Observe(f, received)
                         /\ \/ copied # NoCopy /\ f = Snapshot(copied)
                            \/ f = Unavailable
  BY <1>1, SourceFrames
<1>3. UNCHANGED <<screen, osd, broken, dropped, surfaces>> /\ copied' = NoCopy
  BY <1>2 DEF Observe, Ingested
<1>4. Known(f) /\ (~f.complete \/ NoGap(f))
  <2>1. CASE copied # NoCopy /\ f = Snapshot(copied)
    <3>1. copied \in Payload
      BY <1>1, <2>1 DEF SourceTypeOK
    <3>2. /\ f.epoch = copied.epoch
          /\ f.lacks = copied.lacks
          /\ f.complete = (copied.complete /\ ~broken)
      BY <1>1, <2>1, <3>1, SnapshotTyped
    <3> QED
      BY <2>1, <3>2 DEF LossInv, Known, NoGap
  <2>2. CASE f = Unavailable
    <3>1. surfaces \in Nat
      BY <1>1, SourceAssumption DEF SourceTypeOK, SourceAssumption
    <3> QED
      BY <1>1, <2>2, <3>1, UnavailableTyped DEF Known, NoGap
  <2> QED
    BY <1>2, <2>1, <2>2
<1>5. /\ buffer' \in Buffered
      /\ Known(buffer'.frame)
      /\ ~buffer'.frame.complete \/ NoGap(buffer'.frame)
  <2>1. /\ buffer' \in Buffered
        /\ \/ buffer'.frame = f
           \/ buffer # NoFrame /\ buffer'.frame = buffer.frame
    BY <1>1, <1>2, ApplyKeeps DEF Observe, Ingested
  <2> QED
    BY <1>4, <2>1 DEF LossInv
<1>6. observed' # NoObservation =>
         Known(observed'.frame) /\ (observed'.resync \/ NoGap(observed'.frame))
  <2>1. CASE observed' = observed
    BY <2>1 DEF LossInv
  <2>2. CASE observed' # observed
    <3>1. Publishable(buffer') /\ observed' = Published(buffer')
      BY <1>2, <2>2 DEF Observe, Ingested
    <3>2. /\ observed'.frame.epoch = buffer'.frame.epoch
          /\ observed'.frame.lacks = buffer'.frame.lacks
          /\ observed'.resync = buffer'.resync
      BY <1>5, <3>1, PublishedTyped
    <3>3. observed'.resync \/ buffer'.frame.complete
      BY <3>1, <3>2 DEF Publishable, Degraded
    <3> QED
      BY <1>5, <3>2, <3>3 DEF Known, NoGap
  <2> QED
    BY <2>1, <2>2
<1> QED
  BY <1>3, <1>5, <1>6 DEF LossInv, SourceTells, GapsAreSeen, Known, NoGap

LEMMA ObservationStepLoss ==
    ASSUME TypeOK, LossInv, ObservationNext, UNCHANGED viewingVars
    PROVE  LossInv'
<1> USE DEF LossInv, SourceTells, GapsAreSeen, Known, NoGap, viewingVars
<1>1. CASE \E received \in BOOLEAN : ObserveCopy(received) \/ ObserveBusy(received)
  BY <1>1, ObserveLoss
<1>2. CASE LoseObservation
  BY <1>2 DEF LoseObservation, pluginVars
<1>3. CASE GoOffline
  BY <1>3 DEF GoOffline, pluginVars
<1>4. CASE ComeBack
  BY <1>4 DEF ComeBack, sourceVars, pluginVars
<1>5. CASE RestartAgent
  BY <1>5 DEF RestartAgent
<1>6. CASE SourceNext /\ UNCHANGED observationVars
  BY <1>6, SourceStepLoss
<1> QED
  BY <1>1, <1>2, <1>3, <1>4, <1>5, <1>6 DEF ObservationNext

\* A viewer step moves nothing but what the viewer itself is given.
LEMMA ViewerStepLoss ==
    ASSUME TypeOK, LossInv, NEW c \in Client, ViewerStep(c)
    PROVE  LossInv'
<1>1. UNCHANGED <<pluginVars, observationVars>>
  BY DEF ViewerStep, CreateSession, Attach, Detach, Read, Lapse, Revoke, Grant,
         sourceVars
<1>2. ASSUME NEW d \in Client, client'[d].shows # client[d].shows
      PROVE  /\ observed # NoObservation
             /\ ~observed.resync
             /\ client'[d].shows = observed.frame
  <2>1. PICK received \in BOOLEAN : Read(c, received)
    <3>1. CASE Attach(c)
      <4>1. client[c] \in Viewer
        BY DEF TypeOK
      <4>2. client'[d].shows = client[d].shows
        BY <3>1, <4>1, ViewerParts DEF Attach, TypeOK
      <4> QED
        BY <1>2, <4>2
    <3> QED
      BY <1>2, <3>1 DEF ViewerStep, CreateSession, Detach, Lapse, Revoke, Grant
  <2> DEFINE a == PollAnswer(c)
             v == IF received THEN React(client[c], a.kind) ELSE client[c]
  <2>2. client' = [client EXCEPT ![c] = v]
    BY <2>1 DEF Read
  <2>3. session[c] \in Session /\ binding[c] \in Binding /\ client[c] \in Viewer
    BY <2>1 DEF Read, Polls, TypeOK
  <2> HIDE DEF a, v
  <2>4. d = c /\ client'[d] = v
    BY <1>2, <2>2 DEF TypeOK
  <2>5. received /\ v = React(client[c], a.kind)
    BY <1>2, <2>4 DEF v
  <2>6. a.kind = "frame"
    <3>1. CASE a.kind = "resync"
      BY <1>2, <2>3, <2>4, <2>5, <3>1, ViewerParts DEF React
    <3>2. CASE a.kind \notin {"frame", "resync"}
      BY <1>2, <2>4, <2>5, <3>2 DEF React
    <3> QED
      BY <3>1, <3>2
  <2>7. Delivers(binding[c], client[c].ack, a)
    <3>1. client[c].ack \in 0..MaxSequence
      BY <2>3 DEF Viewer
    <3>2. a = Answer(c, session[c], binding[c], client[c].ack)
      BY DEF a, PollAnswer
    <3> QED
      BY <2>3, <2>6, <3>1, <3>2, Answered
         DEF TypeOK, Suspends, Ends, Resyncs, Confirms
  <2> QED
    BY <2>4, <2>5, <2>6, <2>7 DEF Delivers, React
<1>3. \A d \in Client :
         client'[d].shows # Nothing =>
            Known(client'[d].shows) /\ NoGap(client'[d].shows)
  BY <1>2 DEF LossInv, GapsAreSeen
<1> QED
  BY <1>1, <1>3 DEF LossInv, SourceTells, GapsAreSeen, Known, NoGap, pluginVars,
                    observationVars

-------------------------------------------------------------------------------
(* The theorems *)

IInv == TypeOK /\ ViewInv

LEMMA Starts == Init => IInv
<1> SUFFICES ASSUME Init PROVE IInv
  OBVIOUS
<1>1. TypeOK
  BY ObservationStarts
<1>2. /\ osd.kind = "none" /\ osd.epoch = 0 /\ osd.lacks = "nothing"
      /\ surfaces = 0
  BY SourceStarts DEF Init, SourceInit
<1>3. /\ copied = NoCopy
      /\ buffer = NoFrame
      /\ observed = NoObservation
      /\ \A c \in Client : /\ client[c].shows = Nothing
                           /\ client[c].ack = 0
                           /\ binding[c] = NoBinding
  BY DEF Init, SourceInit, ObservationInit, ViewingInit, NewClient
<1>4. LossInv
  BY <1>2, <1>3 DEF LossInv, SourceTells, GapsAreSeen, Known
<1>5. CursorInv
  BY <1>3 DEF CursorInv, Agree
<1> QED
  BY <1>1, <1>4, <1>5 DEF IInv, ViewInv

LEMMA Inductive == IInv /\ [Next]_vars => IInv'
<1> SUFFICES ASSUME IInv, [Next]_vars PROVE IInv'
  OBVIOUS
<1> USE DEF IInv, ViewInv
<1>1. ASSUME NEW c \in Client, ViewerStep(c) PROVE IInv'
  BY <1>1, ViewerStepAgrees, ViewerStepLoss
<1>2. CASE ObservationNext /\ UNCHANGED viewingVars
  <2>1. ObservationTypeOK'
    BY <1>2, ObservationStepTyped DEF TypeOK, LossInv
  <2>2. TypeOK' /\ CursorInv'
    BY <1>2, <2>1 DEF TypeOK, CursorInv, Agree, viewingVars
  <2> QED
    BY <1>2, <2>2, ObservationStepLoss
<1>3. CASE UNCHANGED vars
  BY <1>3 DEF vars, sourceVars, pluginVars, observationVars, viewingVars,
              TypeOK, ObservationTypeOK, SourceTypeOK, LossInv, SourceTells,
              GapsAreSeen, Known, NoGap, CursorInv, Agree
<1> QED
  BY <1>1, <1>2, <1>3 DEF Next

\* What viewers rely on holds in every reachable state, for any number of
\* clients, surfaces, frames, dropped calls and restarts.
THEOREM ViewInvHolds == Spec => [](TypeOK /\ ViewInv)
<1>1. Spec => []IInv
  BY Starts, Inductive, PTL DEF Spec
<1> QED
  BY <1>1, PTL DEF IInv

\* Every variable keeps its type.
THEOREM TypeCorrect == Spec => []TypeOK
BY ViewInvHolds, PTL

\* No viewer is given a frame with a gap of a surface that is still up.
THEOREM GapsSeen == Spec => []GapsAreSeen
<1>1. ViewInv => GapsAreSeen
  BY DEF ViewInv, LossInv
<1> QED
  BY <1>1, ViewInvHolds, PTL

\* A viewer told that nothing changed shows the frame the Core observes.
THEOREM UnchangedShown == Spec => []UnchangedIsShown
<1>1. TypeOK /\ ViewInv => UnchangedIsShown
  <2> SUFFICES ASSUME TypeOK, ViewInv, NEW c \in Client, Polls(c),
                      PollAnswer(c).kind = "unchanged"
               PROVE  Shows(c, observed.frame)
    BY DEF UnchangedIsShown
  <2> DEFINE a == PollAnswer(c)
  <2>1. session[c] \in Session /\ binding[c] \in Binding /\ client[c] \in Viewer
        /\ binding[c] # NoBinding
    BY DEF Polls, TypeOK
  <2>2. client[c].ack \in 0..MaxSequence
    BY <2>1 DEF Viewer
  <2>3. a = Answer(c, session[c], binding[c], client[c].ack)
    BY DEF PollAnswer
  <2>4. a.kind = "unchanged"
    OBVIOUS
  <2> HIDE DEF a
  <2>5. Confirms(binding[c], client[c].ack, a)
    BY <2>1, <2>2, <2>3, <2>4, Answered
       DEF TypeOK, Suspends, Ends, Resyncs, Delivers
  <2>6. Agree(client[c], binding[c])
    BY DEF ViewInv, CursorInv
  <2>7. /\ client[c].ack = observed.frame.seq
        /\ client[c].ack # 0
        /\ binding[c].epoch = observed.frame.epoch
        /\ binding[c].delivered # 0
    BY <2>5, <2>6 DEF Confirms, Follows, Agree
  <2> QED
    BY <2>1, <2>6, <2>7 DEF Agree, Shows
<1> QED
  BY <1>1, ViewInvHolds, PTL

-------------------------------------------------------------------------------
(* What controllers see of viewing *)

\* There is a surface to see for whom the service would show one.
LEMMA ViewableSees ==
    ASSUME ObservationTypeOK, NEW c \in Client, NEW s \in Session, Viewable(c, s)
    PROVE  /\ c \in granted
           /\ s.gen = generation
           /\ ~s.lapsed
           /\ SurfaceObserved = <<s.gen, observed.frame.epoch>>
           /\ SurfaceObserved # NoObservation
           /\ SurfaceObserved \in Generation \X (1..MaxSurface)
<1>1. /\ c \in granted
      /\ s.gen = generation
      /\ ~s.lapsed
      /\ online
      /\ observed # NoObservation
      /\ observed.frame.epoch # 0
  BY Zenon DEF Viewable, StateOf
<1>2. observed.frame.epoch \in 1..MaxSurface /\ generation \in Generation
  BY <1>1, SourceAssumption DEF ObservationTypeOK, Picture, SourceAssumption
<1> QED
  BY <1>1, <1>2, AbsenceAssumption DEF SurfaceObserved

\* No viewer binding moves but that of client c.
LEMMA OthersKept ==
    ASSUME NEW c \in Client,
           \A d \in Client \ {c} :
              session'[d] = session[d] /\ binding'[d] = binding[d]
    PROVE  views' = [views EXCEPT ![c] = ViewOf(c)']
BY DEF views, ViewOf

LEMMA SameViews ==
    ASSUME NEW c \in Client,
           \A d \in Client \ {c} :
              session'[d] = session[d] /\ binding'[d] = binding[d],
           ViewOf(c)' = ViewOf(c)
    PROVE  views' = views
<1>1. views' = [views EXCEPT ![c] = views[c]]
  BY OthersKept DEF views
<1> QED
  BY <1>1 DEF views

LEMMA UnusableView ==
    ASSUME NEW S, NEW v \in [surface : S, usable : BOOLEAN]
    PROVE  [v EXCEPT !.usable = FALSE] = [surface |-> v.surface, usable |-> FALSE]
<1> DEFINE x == [v EXCEPT !.usable = FALSE]
           y == [surface |-> v.surface, usable |-> FALSE]
<1>1. /\ x \in [surface : S, usable : BOOLEAN]
      /\ x.surface = v.surface
      /\ x.usable = FALSE
  OBVIOUS
<1>2. /\ y \in [surface : S, usable : BOOLEAN]
      /\ y.surface = v.surface
      /\ y.usable = FALSE
  OBVIOUS
<1> HIDE DEF x, y
<1>3. x = y
  BY <1>1, <1>2
<1> QED
  BY <1>3 DEF x, y

LEMMA AnswerAccess ==
    ASSUME TypeOK, NEW c \in Client, NEW received \in BOOLEAN, Read(c, received)
    PROVE  [Access!Next]_(Access!accessVars)
<1> DEFINE s == session[c]
           b == binding[c]
           a == PollAnswer(c)
<1>1. s \in Session /\ b \in Binding /\ s # NoSession /\ b # NoBinding
  BY DEF Read, Polls, TypeOK
<1>2. ObservationTypeOK /\ client[c].ack \in 0..MaxSequence
  BY DEF TypeOK, Viewer
<1>3. a = Answer(c, s, b, client[c].ack)
  BY DEF PollAnswer
<1>4. UNCHANGED <<granted, SurfaceObserved>>
  BY DEF Read, observationVars, SurfaceObserved
<1>5. binding'[c] = a.binding
  BY DEF Read, TypeOK
<1>6. session'[c] = IF s.lapsed THEN s ELSE Looked(s)
  BY DEF Read, TypeOK
<1>7. \A d \in Client \ {c} : session'[d] = session[d] /\ binding'[d] = binding[d]
  BY DEF Read, TypeOK
<1>8. views' = [views EXCEPT ![c] = ViewOf(c)']
  BY <1>7, OthersKept
<1> HIDE DEF a
<1>9. CASE StateOf(c, s) = "suspended" /\ Suspends(b, a)
  <2>1. /\ ~s.lapsed
        /\ ~online \/ observed = NoObservation
    BY <1>9, Zenon DEF StateOf
  <2>2. SurfaceObserved = NoObservation
    BY <2>1 DEF SurfaceObserved
  <2>3. session'[c] = s
    <3>1. s.gen = generation
      BY <1>9, Zenon DEF StateOf
    <3> QED
      BY <1>6, <2>1, <3>1 DEF Looked
  <2>4. /\ binding'[c] \in Binding
        /\ binding'[c].epoch = b.epoch
        /\ binding'[c].state = "suspended"
    BY <1>1, <1>5, <1>9 DEF Suspends, Binding
  <2>5. ViewOf(c) = [surface |-> <<s.gen, b.epoch>>, usable |-> b.state # "suspended"]
    BY <1>1, <2>1 DEF ViewOf
  <2>6. ViewOf(c)' = [surface |-> <<s.gen, b.epoch>>, usable |-> FALSE]
    BY <1>1, <2>1, <2>3, <2>4, AbsenceAssumption DEF ViewOf
  <2>7. ViewOf(c) \in [surface : Generation \X (0..MaxSurface), usable : BOOLEAN]
    BY <1>1, <2>5 DEF Session, Binding
  <2>8. ViewOf(c)' = [ViewOf(c) EXCEPT !.usable = FALSE]
    <3> DEFINE w == ViewOf(c)
    <3>1. [w EXCEPT !.usable = FALSE] = [surface |-> w.surface, usable |-> FALSE]
      <4> HIDE DEF w
      <4> QED
        BY <2>7, UnusableView DEF w
    <3>2. w.surface = <<s.gen, b.epoch>>
      BY <2>5
    <3> QED
      BY <2>6, <3>1, <3>2
  <2>9. ViewOf(c) # NoBinding
    BY <2>7, AbsenceAssumption
  <2>10. Access!Suspend(c)
    BY <1>4, <1>8, <2>2, <2>8, <2>9 DEF Access!Suspend, views
  <2> QED
    BY <2>10 DEF Access!Next
<1>10. CASE Ends(a)
  <2>1. ViewOf(c)' = NoBinding
    BY <1>5, <1>10 DEF ViewOf, Ends
  <2>2. Access!Unbind(c)
    BY <1>4, <1>8, <2>1 DEF Access!Unbind
  <2> QED
    BY <2>2 DEF Access!Next
<1>11. ASSUME Viewable(c, s),
              Resyncs(a) \/ Delivers(b, client[c].ack, a)
                \/ Confirms(b, client[c].ack, a)
       PROVE  [Access!Next]_(Access!accessVars)
  <2>1. /\ a.binding \in Binding
        /\ a.binding.epoch = observed.frame.epoch
        /\ a.binding.state # "suspended"
    BY <1>11 DEF Resyncs, Delivers, Confirms, Follows
  <2>2. /\ c \in granted
        /\ ~s.lapsed
        /\ SurfaceObserved = <<s.gen, observed.frame.epoch>>
        /\ SurfaceObserved # NoObservation
    BY <1>1, <1>2, <1>11, ViewableSees
  <2>3. session'[c] = s
    <3>1. s.gen = generation
      BY <1>11, Zenon DEF Viewable, StateOf
    <3> QED
      BY <1>6, <2>2, <3>1 DEF Looked
  <2>4. ViewOf(c)' = [surface |-> SurfaceObserved, usable |-> TRUE]
    BY <1>1, <1>5, <2>1, <2>2, <2>3, AbsenceAssumption DEF ViewOf
  <2>5. Access!Bind(c)
    BY <1>4, <1>8, <2>2, <2>4 DEF Access!Bind
  <2> QED
    BY <2>5 DEF Access!Next
<1> QED
  BY <1>1, <1>2, <1>3, <1>9, <1>10, <1>11, Answered

LEMMA AttachAccess ==
    ASSUME TypeOK, NEW c \in Client, Attach(c)
    PROVE  [Access!Next]_(Access!accessVars)
<1>1. session[c] \in Session /\ binding[c] = NoBinding /\ ObservationTypeOK
  BY DEF Attach, TypeOK
<1>2. UNCHANGED <<granted, SurfaceObserved>>
  BY DEF Attach, observationVars, SurfaceObserved
<1>3. session'[c] = Looked(session[c])
  BY DEF Attach, TypeOK
<1>4. \A d \in Client \ {c} : session'[d] = session[d] /\ binding'[d] = binding[d]
  BY DEF Attach, TypeOK
<1>5. CASE Viewable(c, session[c])
  <2> DEFINE b == [state |-> "resync", epoch |-> observed.frame.epoch,
                   acked |-> 0, delivered |-> 0]
  <2>1. /\ c \in granted
        /\ ~session[c].lapsed
        /\ SurfaceObserved = <<session[c].gen, observed.frame.epoch>>
        /\ SurfaceObserved # NoObservation
    BY <1>1, <1>5, ViewableSees
  <2>2. session'[c] = session[c]
    <3>1. session[c].gen = generation
      BY <1>5, Zenon DEF Viewable, StateOf
    <3> QED
      BY <1>3, <2>1, <3>1 DEF Looked
  <2>3. binding'[c] = b
    BY <1>5 DEF Attach, TypeOK
  <2>4. b \in Binding
    <3>1. observed # NoObservation
      BY <1>5, Zenon DEF Viewable, StateOf
    <3>2. observed.frame.epoch \in 0..MaxSurface
      BY <1>1, <3>1 DEF ObservationTypeOK, Picture
    <3>3. 0 \in 0..MaxSequence
      BY SourceAssumption DEF SourceAssumption
    <3> QED
      BY <3>2, <3>3 DEF Binding
  <2>5. session[c] # NoSession
    BY DEF Attach
  <2> HIDE DEF b
  <2>6. ViewOf(c)' = [surface |-> SurfaceObserved, usable |-> TRUE]
    <3>1. b.epoch = observed.frame.epoch /\ b.state # "suspended"
      BY DEF b
    <3> QED
      BY <2>1, <2>2, <2>3, <2>4, <2>5, <3>1, AbsenceAssumption DEF ViewOf
  <2>7. Access!Bind(c)
    BY <1>2, <1>4, <2>1, <2>6, OthersKept DEF Access!Bind
  <2> QED
    BY <2>7 DEF Access!Next
<1>6. CASE ~Viewable(c, session[c])
  <2>1. binding' = binding
    BY <1>6 DEF Attach
  <2>2. ViewOf(c)' = ViewOf(c)
    BY <1>1, <2>1 DEF ViewOf
  <2>3. views' = views
    BY <1>4, <2>2, SameViews
  <2> QED
    BY <1>2, <2>3 DEF Access!accessVars
<1> QED
  BY <1>5, <1>6

LEMMA ViewerStepAccess ==
    ASSUME TypeOK, NEW c \in Client, ViewerStep(c)
    PROVE  [Access!Next]_(Access!accessVars)
<1>1. SurfaceObserved' = SurfaceObserved
  BY DEF ViewerStep, CreateSession, Attach, Detach, Read, Lapse, Revoke, Grant,
         observationVars, SurfaceObserved
<1>2. CASE CreateSession(c)
  <2>1. \A d \in Client \ {c} : session'[d] = session[d] /\ binding'[d] = binding[d]
    BY <1>2 DEF CreateSession, TypeOK
  <2>2. binding'[c] = NoBinding
    BY <1>2 DEF CreateSession, TypeOK
  <2>3. ViewOf(c)' = ViewOf(c)
    BY <1>2, <2>2 DEF CreateSession, ViewOf
  <2>4. views' = views
    BY <2>1, <2>3, SameViews
  <2> QED
    BY <1>1, <1>2, <2>4 DEF CreateSession, Access!accessVars
<1>3. CASE Attach(c)
  BY <1>3, AttachAccess
<1>4. CASE Detach(c)
  <2>1. \A d \in Client \ {c} : session'[d] = session[d] /\ binding'[d] = binding[d]
    BY <1>4 DEF Detach, TypeOK
  <2>2. binding'[c] = NoBinding
    BY <1>4 DEF Detach, TypeOK
  <2>3. ViewOf(c)' = NoBinding
    BY <2>2 DEF ViewOf
  <2>4. Access!Unbind(c)
    BY <1>1, <1>4, <2>1, <2>3, OthersKept DEF Detach, Access!Unbind
  <2> QED
    BY <2>4 DEF Access!Next
<1>5. CASE \E received \in BOOLEAN : Read(c, received)
  BY <1>5, AnswerAccess
<1>6. CASE Lapse(c)
  <2>1. \A d \in Client \ {c} : session'[d] = session[d] /\ binding'[d] = binding[d]
    BY <1>6 DEF Lapse, TypeOK
  <2>2. session[c] \in Session
    BY <1>6 DEF Lapse, TypeOK
  <2>3. session'[c].lapsed
    BY <1>6, <2>2 DEF Lapse, TypeOK, Session
  <2>4. ViewOf(c)' = NoBinding
    BY <2>3 DEF ViewOf
  <2>5. Access!Unbind(c)
    BY <1>1, <1>6, <2>1, <2>4, OthersKept DEF Lapse, Access!Unbind
  <2> QED
    BY <2>5 DEF Access!Next
<1>7. CASE Revoke(c) \/ Grant(c)
  <2>1. views' = views
    BY <1>7 DEF Revoke, Grant, views, ViewOf
  <2>2. Access!Revoke(c) \/ Access!Grant(c)
    BY <1>1, <1>7, <2>1 DEF Revoke, Grant, Access!Revoke, Access!Grant
  <2> QED
    BY <2>2 DEF Access!Next
<1> QED
  BY <1>2, <1>3, <1>4, <1>5, <1>6, <1>7 DEF ViewerStep

\* Controllers see no more of viewing than OsdAccess tells.
THEOREM AccessRefined == Spec => ImplementsAccess
<1>1. Init => Access!Init
  BY DEF Init, ObservationInit, ViewingInit, Access!Init, SurfaceObserved, views,
         ViewOf
<1>2. IInv /\ IInv' /\ [Next]_vars => [Access!Next]_(Access!accessVars)
  <2> SUFFICES ASSUME IInv, IInv', [Next]_vars
               PROVE  [Access!Next]_(Access!accessVars)
    OBVIOUS
  <2>1. ASSUME NEW c \in Client, ViewerStep(c)
        PROVE  [Access!Next]_(Access!accessVars)
    BY <2>1, ViewerStepAccess DEF IInv
  <2>2. CASE ObservationNext /\ UNCHANGED viewingVars
    <3>1. UNCHANGED <<granted, views>>
      BY <2>2 DEF viewingVars, views, ViewOf
    <3>2. SurfaceObserved' \in (Generation \X (1..MaxSurface)) \cup {NoObservation}
      <4>1. ObservationTypeOK'
        BY DEF IInv, TypeOK
      <4> QED
        BY <4>1, SourceAssumption
           DEF SurfaceObserved, ObservationTypeOK, Picture, SourceAssumption
    <3>3. Access!ObserveSurface
      BY <3>1, <3>2 DEF Access!ObserveSurface
    <3> QED
      BY <3>3 DEF Access!Next
  <2>3. CASE UNCHANGED vars
    BY <2>3 DEF vars, observationVars, viewingVars, Access!accessVars,
                SurfaceObserved, views, ViewOf
  <2> QED
    BY <2>1, <2>2, <2>3 DEF Next
<1>3. Spec => []IInv
  BY ViewInvHolds, PTL DEF IInv
<1> QED
  BY <1>1, <1>2, <1>3, PTL DEF Spec, ImplementsAccess, Access!Spec
===============================================================================
