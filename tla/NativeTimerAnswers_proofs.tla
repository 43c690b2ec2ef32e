---------------------- MODULE NativeTimerAnswers_proofs ----------------------
(***************************************************************************)
(* The timer runtime keeps AnswerInv: what a content that was read, bound  *)
(* or admitted tells of the timer, although contents come back.  Hence no  *)
(* two timers record one intent unless one was renamed, and the operations *)
(* keep the promise of TimerPromise, for any number of operations,         *)
(* backends, epochs, contents, generations and upsets.                     *)
(***************************************************************************)
EXTENDS NativeTimerOwnership_proofs

-------------------------------------------------------------------------------
(***************************************************************************)
(* What was done to a timer was done.                                      *)
(***************************************************************************)
LEMMA UpdateStays ==
    ASSUME TypeOK, CommandsAgree, Next, NEW o \in Operation, NEW e, Updates(o, e)
    PROVE  Updates(o, e)' /\ request'[o] = request[o]
  BY RecordsStay DEF Updates

\* The edits are a history, to which an edit adds itself.
LEMMA EditsStay ==
    ASSUME TypeOK, Next
    PROVE  edits \subseteq edits'
<1>1. CASE Ask \/ Poll
  <2>1. UNCHANGED edits
    BY <1>1, PollKeepsRequests DEF Ask, Schedule, Reassign, AdmitCreate, PrepareDelete,
            PrepareModify, Prepare, AdmitDraft, DropDraft, nativeVars
  <2> QED BY <2>1
<1> QED BY <1>1 DEF Next, Outside, Permit, Run, Settle, NewGeneration, RemoveTimer, EditTimer

LEMMA GivenStays ==
    ASSUME TypeOK, CommandsAgree, Next, NEW x, NEW e, Given(x, e)
    PROVE  Given(x, e)'
<1>1. CASE \E d \in edits : d.epoch = e /\ d.to = x
  BY <1>1, EditsStay DEF Given
<1>2. ASSUME NEW p \in Operation, ran[p], Updates(p, e), request[p].wish = x
      PROVE  Given(x, e)'
  BY <1>2, UpdateStays, RanStays DEF Given
<1> QED BY <1>1, <1>2 DEF Given

LEMMA OthersGaveStays ==
    ASSUME TypeOK, CommandsAgree, Next, NEW o \in Operation, NEW x, NEW e, OthersGave(o, x, e)
    PROVE  OthersGave(o, x, e)'
<1>1. CASE \E d \in edits : d.epoch = e /\ d.to = x
  BY <1>1, EditsStay DEF OthersGave
<1>2. ASSUME NEW p \in Operation \ {o}, ran[p], Updates(p, e), request[p].wish = x
      PROVE  OthersGave(o, x, e)'
  BY <1>2, UpdateStays, RanStays DEF OthersGave
<1> QED BY <1>1, <1>2 DEF OthersGave

LEMMA RenamedStays ==
    ASSUME TypeOK, CommandsAgree, Next, NEW e, Renamed(e)
    PROVE  Renamed(e)'
<1>1. CASE \E d \in edits : d.epoch = e /\ Id[d.to] # Id[d.from]
  BY <1>1, EditsStay DEF Renamed
<1>2. ASSUME NEW p \in Operation, ran[p], Updates(p, e), Id[request[p].wish] # Id[request[p].content]
      PROVE  Renamed(e)'
  BY <1>2, UpdateStays, RanStays DEF Renamed
<1> QED BY <1>1, <1>2 DEF Renamed

-------------------------------------------------------------------------------
(***************************************************************************)
(* What becomes of the timer of an assignment.                             *)
(***************************************************************************)

\* A CREATE that has not had its effect has no timer, and nothing is noted of one.
LEMMA UnmadeUnknown ==
    ASSUME TypeOK, OneTimer, TimersMade, BasesKnown,
           NEW e \in Epoch, NEW o \in Operation, Creates(o, e), ~ran[o]
    PROVE  /\ ~Made(e)
           /\ \A t \in native : t.epoch # e
           /\ Noted(e) = {}
<1>1. ~Made(e)
  BY DEF OneTimer, Made
<1>2. ~Known(e) /\ \A t \in native : t.epoch # e
  BY <1>1 DEF TimersMade
<1>3. ~Idle => \A t \in visit.seen : t.epoch # e
  BY <1>1 DEF TimersMade
<1>4. draft # NoRequest => draft.epoch # e
  BY <1>2 DEF BasesKnown, Rests
<1>5. \A p \in Operation : Reserved(p) /\ request[p].family # "create" => request[p].epoch # e
  BY <1>2 DEF BasesKnown, Rests
<1>6. Noted(e) = {}
  BY <1>2, <1>3, <1>4, <1>5 DEF Noted
<1> QED BY <1>1, <1>2, <1>6

\* A timer there is was there, or was put in the place of another one by an
\* UPDATE or an edit, or is the one of a CREATE.
Replaces(t, s) ==
    /\ s.epoch = t.epoch
    /\ Given(t.content, t.epoch)'
    /\ Id[s.content] = Id[t.content] \/ Renamed(t.epoch)'

LEMMA TimersCome ==
    ASSUME TypeOK, CommandsAgree, Next, NEW t \in native'
    PROVE  \/ t \in native
           \/ \E s \in native : Replaces(t, s)
           \/ \E o \in Operation : ~ran[o] /\ Creates(o, t.epoch)
<1>0. ASSUME UNCHANGED native PROVE t \in native
  BY <1>0
<1>1. ASSUME NEW o \in Operation, Run(o), t \notin native
      PROVE  \/ \E s \in native : Replaces(t, s)
             \/ ~ran[o] /\ Creates(o, t.epoch)
  <2>1. /\ Reserved(o) /\ ~ran[o] /\ ran' = [ran EXCEPT ![o] = TRUE]
        /\ request[o].family # "delete"
        /\ t.epoch = request[o].epoch /\ t.content = request[o].wish
        /\ request[o].family # "create" => Target(o) # {}
    BY <1>1, RunEffect
  <2>2. CASE request[o].family = "create"
    BY <2>1, <2>2 DEF Creates
  <2>3. CASE request[o].family = "modify"
    <3>1. PICK s \in Target(o) : TRUE
      BY <2>1, <2>3
    <3>2. s \in native /\ s.epoch = t.epoch /\ s.content = request[o].content
      BY <2>1 DEF Target
    <3>3. ran'[o] /\ Updates(o, t.epoch)' /\ request'[o] = request[o]
      BY <2>1, <2>3, UpdateStays DEF Updates, TypeOK
    <3>4. Given(t.content, t.epoch)'
      BY <2>1, <3>3 DEF Given
    <3>5. Id[s.content] = Id[t.content] \/ Renamed(t.epoch)'
      BY <2>1, <3>2, <3>3 DEF Renamed
    <3> QED BY <3>2, <3>4, <3>5 DEF Replaces
  <2>4. request[o].family \in Family
    BY <2>1 DEF TypeOK, RequestType
  <2> QED BY <2>1, <2>2, <2>3, <2>4 DEF Family
<1>2. ASSUME NEW s \in native, NEW x \in Content, EditTimer(s, x), t \notin native
      PROVE  Replaces(t, s)
  <2>1. s.epoch = t.epoch /\ t.content = x
    BY <1>2, EditInPlace
  <2> DEFINE d == [epoch |-> s.epoch, from |-> s.content, to |-> x]
  <2>2. d \in edits' /\ d.epoch = t.epoch /\ d.from = s.content /\ d.to = t.content
    BY <1>2, <2>1 DEF EditTimer
  <2> HIDE DEF d
  <2>3. Given(t.content, t.epoch)' /\ (Id[s.content] = Id[t.content] \/ Renamed(t.epoch)')
    BY <2>2 DEF Given, Renamed
  <2> QED BY <2>1, <2>3 DEF Replaces
<1>3. CASE Ask \/ Poll
  BY <1>0, <1>3, PollKeepsRequests DEF Ask, Schedule, Reassign, AdmitCreate, PrepareDelete,
          PrepareModify, Prepare, AdmitDraft, DropDraft, nativeVars
<1>4. CASE Outside
  BY <1>0, <1>1, <1>2, <1>4 DEF Outside, Permit, Settle, NewGeneration, RemoveTimer
<1> QED BY <1>3, <1>4 DEF Next

\* An operation has had its effect by its own native call only.
LEMMA RanByRun ==
    ASSUME TypeOK, CommandsAgree, Next, NEW o \in Operation, ~ran[o], ran'[o]
    PROVE  Outside /\ Run(o)
<1>1. CASE Ask \/ Poll
  BY <1>1, PollKeepsRequests DEF Ask, Schedule, Reassign, AdmitCreate, PrepareDelete,
          PrepareModify, Prepare, AdmitDraft, DropDraft, nativeVars
<1>2. CASE Outside
  <2>1. ASSUME NEW p \in Operation, Run(p) PROVE p = o
    BY <2>1, RunEffect DEF TypeOK
  <2> QED BY <1>2, <2>1 DEF Outside, Permit, Settle, NewGeneration, RemoveTimer, EditTimer
<1> QED BY <1>1, <1>2 DEF Next

\* A result stands, once it is in: there is no effect after it.
LEMMA NoneAfterReport ==
    ASSUME TypeOK, CommandsAgree, Next, NEW o \in Operation, ran'[o], report[o] # "none"
    PROVE  ran[o]
  BY RanByRun, RunEffect

-------------------------------------------------------------------------------
(***************************************************************************)
(* What is noted.                                                          *)
(***************************************************************************)

\* A content is noted of a timer there is, or was noted already.
LEMMA NotesCome ==
    ASSUME TypeOK, TypeOK', CommandsAgree, OneTimer, TimersMade, BasesKnown, Next,
           NEW e \in Epoch, NEW x \in Noted(e)'
    PROVE  x \in Noted(e) \/ \E s \in native : s.epoch = e /\ s.content = x
<1> DEFINE Goal == x \in Noted(e) \/ \E s \in native : s.epoch = e /\ s.content = x
<1>1. ASSUME Known(e)', x = binding'[e].content PROVE Goal
  <2>1. CASE binding'[e] = binding[e] \/ Refreshed(e)
    BY <1>1, <2>1 DEF Known, Refreshed, Noted
  <2>2. ASSUME NEW o \in Operation, Rebound(e, o) PROVE Goal
    <3>1. Reserved(o) /\ request[o].epoch = e /\ ~Idle /\ visit.op = o
      BY <2>2 DEF Rebound, At
    <3>2. CASE request[o].family # "delete"
      <4>1. PICK t \in visit.seen : binding'[e].content = t.content
        BY <2>2, <3>2 DEF Rebound
      <4>2. t.epoch = e
        BY <3>1, <4>1 DEF TimersMade
      <4> QED BY <1>1, <3>1, <4>1, <4>2 DEF Noted
    <3>3. CASE request[o].family = "delete"
      <4>1. Known(e) /\ binding'[e].content = binding[e].content
        BY <2>2, <3>3 DEF Rebound
      <4> QED BY <1>1, <4>1 DEF Noted
    <3> QED BY <3>2, <3>3
  <2> QED BY <2>1, <2>2, NextBindings
<1>2. ASSUME ~Idle', NEW t \in visit'.seen, t.epoch = e, x = t.content PROVE Goal
  <2>1. CASE Poll
    <3>1. PICK o \in Operation : GoesOn(o)
      BY <1>2, <2>1, PollVisits
    <3> QED BY <1>2, <3>1 DEF GoesOn
  <2>2. CASE UNCHANGED visit
    BY <1>2, <2>2 DEF Noted, Idle
  <2> QED BY <2>1, <2>2 DEF Next, Outside, Ask, Schedule, Reassign, AdmitCreate, PrepareDelete,
                            PrepareModify, Prepare, AdmitDraft, DropDraft
<1>3. ASSUME draft' # NoRequest, draft'.epoch = e, x = draft'.content PROVE Goal
  <2>1. CASE UNCHANGED draft
    BY <1>3, <2>1 DEF Noted
  <2>2. ASSUME NEW f \in Epoch, NEW family, NEW w, Prepare(f, family, w) PROVE Goal
    <3>1. f = e /\ Known(e) /\ x = binding[e].content
      BY <1>3, <2>2 DEF Prepare, Steady
    <3> QED BY <3>1 DEF Noted
  <2> QED BY <1>3, <2>1, <2>2, PollKeepsRequests
      DEF Next, Outside, Ask, Schedule, Reassign, AdmitCreate, PrepareDelete,
          PrepareModify, AdmitDraft, DropDraft
<1>4. ASSUME NEW o \in Operation, Reserved(o)', request'[o].family # "create",
             request'[o].epoch = e, x = request'[o].content
      PROVE  Goal
  <2>1. CASE Reserved(o)
    BY <1>4, <2>1, RecordsStay DEF Noted
  <2>2. CASE ~Reserved(o)
    <3>1. Ask
      BY <1>4, <2>2, PollKeepsRequests DEF Next, Outside, journalVars, Reserved
    <3>2. draft # NoRequest /\ request'[o] = draft
      BY <1>4, <2>2, <3>1, AskJournal DEF journalVars, Reserved
    <3> QED BY <1>4, <3>2 DEF Noted
  <2> QED BY <2>1, <2>2
<1>5. \/ Known(e)' /\ x = binding'[e].content
      \/ ~Idle' /\ \E t \in visit'.seen : t.epoch = e /\ x = t.content
      \/ draft' # NoRequest /\ draft'.epoch = e /\ x = draft'.content
      \/ \E o \in Operation : /\ Reserved(o)' /\ request'[o].family # "create"
                              /\ request'[o].epoch = e /\ x = request'[o].content
  BY DEF Noted
<1> QED BY <1>1, <1>2, <1>3, <1>4, <1>5

LEMMA NotesKeepStem ==
    ASSUME TypeOK, TypeOK', CommandsAgree, OneTimer, TimersMade, BasesKnown, NotesStem, Next
    PROVE  NotesStem'
<1> SUFFICES ASSUME NEW t \in native', NEW x \in Noted(t.epoch)'
             PROVE  /\ x = t.content \/ Given(t.content, t.epoch)'
                    /\ Id[x] = Id[t.content] \/ Renamed(t.epoch)'
  BY DEF NotesStem
<1>1. t.epoch \in Epoch
  BY DEF TypeOK, NativeType
<1>2. x \in Noted(t.epoch) \/ \E s \in native : s.epoch = t.epoch /\ s.content = x
  BY <1>1, NotesCome
<1>3. ASSUME NEW s \in native, s.epoch = t.epoch
      PROVE  /\ x = s.content \/ Given(s.content, t.epoch)
             /\ Id[x] = Id[s.content] \/ Renamed(t.epoch)
  BY <1>2, <1>3 DEF NotesStem, OneTimer
<1>4. CASE t \in native
  BY <1>3, <1>4, GivenStays, RenamedStays
<1>5. ASSUME NEW s \in native, Replaces(t, s)
      PROVE  /\ x = t.content \/ Given(t.content, t.epoch)'
             /\ Id[x] = Id[t.content] \/ Renamed(t.epoch)'
  <2>1. /\ s.epoch = t.epoch /\ Given(t.content, t.epoch)'
        /\ Id[s.content] = Id[t.content] \/ Renamed(t.epoch)'
    BY <1>5 DEF Replaces
  <2>2. Id[x] = Id[s.content] \/ Renamed(t.epoch)'
    BY <1>3, <2>1, RenamedStays
  <2> QED BY <2>1, <2>2
<1>6. ASSUME NEW o \in Operation, ~ran[o], Creates(o, t.epoch) PROVE FALSE
  BY <1>1, <1>2, <1>6, UnmadeUnknown
<1> QED BY <1>4, <1>5, <1>6, TimersCome

-------------------------------------------------------------------------------
(***************************************************************************)
(* What an answer tells.                                                   *)
(***************************************************************************)

\* A DELETE or MODIFY was admitted on a content that is noted, and its timer was
\* made.
LEMMA AdmittedOnNote ==
    ASSUME TypeOK, TimersMade, BasesKnown,
           NEW o \in Operation, Reserved(o), request[o].family # "create"
    PROVE  /\ request[o] \in RequestType /\ request[o].epoch \in Epoch
           /\ request[o].content \in Noted(request[o].epoch)
           /\ Made(request[o].epoch)
<1>1. request[o] \in RequestType /\ request[o].epoch \in Epoch
  BY DEF TypeOK, RequestType
<1>2. Known(request[o].epoch)
  BY DEF BasesKnown, Rests
<1>3. request[o].content \in Noted(request[o].epoch)
  BY DEF Noted
<1> QED BY <1>1, <1>2, <1>3 DEF TimersMade

LEMMA NoUnmadeCreate ==
    ASSUME OneTimer, NEW e \in Epoch, Made(e), NEW o \in Operation, Creates(o, e)
    PROVE  ran[o]
  BY DEF OneTimer, Made

LEMMA RestoredStays ==
    ASSUME TypeOK, CommandsAgree, OneTimer, TimersMade, BasesKnown, Restored, Next
    PROVE  Restored'
<1> SUFFICES ASSUME NEW o \in Operation, Reserved(o)', request'[o].family = "modify", ran'[o],
                    NEW t \in native', t.epoch = request'[o].epoch,
                    t.content = request'[o].content
             PROVE  OthersGave(o, t.content, t.epoch)'
  BY DEF Restored
<1>1. Reserved(o) /\ request'[o] = request[o]
  <2>1. ran[o] => Reserved(o)
    BY DEF CommandsAgree
  <2>2. Reserved(o)
    BY <2>1, RanByRun, RunEffect
  <2> QED BY <2>2, RecordsStay
<1>2. /\ request[o].epoch \in Epoch /\ Made(request[o].epoch)
      /\ request[o].wish # request[o].content
  BY <1>1, AdmittedOnNote DEF RequestType
<1>3. CASE ran[o]
  <2>1. CASE t \in native
    <3>1. OthersGave(o, t.content, t.epoch)
      BY <1>1, <1>3, <2>1 DEF Restored
    <3> QED BY <3>1, OthersGaveStays
  <2>2. ASSUME NEW s \in native, Replaces(t, s) PROVE OthersGave(o, t.content, t.epoch)'
    <3>1. Given(t.content, t.epoch)'
      BY <2>2 DEF Replaces
    <3>2. request'[o].wish # t.content
      BY <1>1, <1>2
    <3> QED BY <3>1, <3>2 DEF Given, OthersGave
  <2>3. ASSUME NEW p \in Operation, ~ran[p], Creates(p, t.epoch) PROVE FALSE
    BY <1>1, <1>2, <2>3, NoUnmadeCreate
  <2> QED BY <2>1, <2>2, <2>3, TimersCome
<1>4. CASE ~ran[o]
  <2>1. Run(o)
    BY <1>4, RanByRun
  <2>2. t \in native \ Target(o)
    BY <1>1, <1>2, <2>1, RunEffect
  <2>3. t \in Target(o)
    BY <1>1, <2>2 DEF Target
  <2> QED BY <2>2, <2>3
<1> QED BY <1>3, <1>4

\* What a visit says of a MODIFY: it is at a step it was at before, or it has
\* just read the timer.
LEMMA VisitsModify ==
    ASSUME TypeOK, TypeOK', CommandsAgree, OneTimer, TimersMade, VisitsStand, BasesKnown, AnswerInv,
           Next, NEW o \in Operation, Reserved(o), request[o].family = "modify"
    PROVE  /\ At(o, "verify")' => \A t \in visit'.seen :
                t.content = request[o].content \/ Given(t.content, request[o].epoch)
           /\ At(o, "close")' /\ ran'[o] =>
                /\ ran[o]
                /\ OthersGave(o, request[o].content, request[o].epoch)
<1> DEFINE e == request[o].epoch
<1>0. e \in Epoch /\ request[o].content \in Noted(e)
  BY AdmittedOnNote
<1>1. CASE Poll
  <2>1. CASE Idle'
    BY <2>1 DEF At
  <2>2. ASSUME NEW p \in Operation, GoesOn(p)
        PROVE  /\ At(o, "verify")' => \A t \in visit'.seen :
                    t.content = request[o].content \/ Given(t.content, e)
               /\ At(o, "close")' /\ ran'[o] => ran[o] /\ OthersGave(o, request[o].content, e)
    <3>1. At(o, "verify")' \/ At(o, "close")' => p = o
      BY <2>2 DEF GoesOn, At
    <3>2. ASSUME p = o, NEW t \in visit'.seen
          PROVE  t.content = request[o].content \/ Given(t.content, e)
      BY <1>0, <2>2, <3>2 DEF GoesOn, AnswerInv, NotesStem
    <3>3. ASSUME p = o, At(o, "close")', ran'[o]
          PROVE  ran[o] /\ OthersGave(o, request[o].content, e)
      <4>1. ran[o]
        BY <1>1, <3>3, PollKeepsRequests
      <4>2. PICK t \in native : t.epoch = e /\ t.content = request[o].content
        BY <2>2, <3>3 DEF GoesOn, At
      <4> QED BY <4>1, <4>2 DEF AnswerInv, Restored
    <3> QED BY <3>1, <3>2, <3>3
  <2> QED BY <1>1, <2>1, <2>2, PollVisits
<1>2. CASE UNCHANGED visit
  <2>1. At(o, "close") => report[o] # "none"
    BY DEF VisitsStand, CommandsAgree
  <2>2. At(o, "close") /\ ran'[o] => ran[o]
    BY <2>1, NoneAfterReport
  <2> QED BY <1>2, <2>2 DEF AnswerInv, ModifyFinds, At, Idle
<1> QED BY <1>1, <1>2 DEF Next, Outside, Ask, Schedule, Reassign, AdmitCreate, PrepareDelete,
                          PrepareModify, Prepare, AdmitDraft, DropDraft

\* Who verified a binding is an operation on record, and it verified it before or
\* has just seen the timer, or missed it.
LEMMA VerifiedCome ==
    ASSUME TypeOK, TypeOK', CommandsAgree, BindingsOwn, Next,
           NEW o \in Operation, NEW e \in Epoch, Known(e)', binding'[e].verifiedBy = o
    PROVE  /\ Reserved(o) /\ request[o].epoch = e
           /\ (Known(e) /\ VerifiedBy(o)) \/ Rebound(e, o)
<1>1. CASE binding'[e] = binding[e] \/ Refreshed(e)
  <2>1. Known(e) /\ binding[e].verifiedBy = o
    BY <1>1 DEF Known, Refreshed
  <2>2. Reserved(o) /\ request[o].epoch = e
    BY <2>1 DEF BindingsOwn
  <2> QED BY <2>1, <2>2 DEF VerifiedBy, BindingOf
<1>2. ASSUME NEW p \in Operation, Rebound(e, p)
      PROVE  p = o /\ Reserved(o) /\ request[o].epoch = e
  BY <1>2 DEF Rebound
<1> QED BY <1>1, <1>2, NextBindings

\* How an operation comes to an end that it had not come to.
LEMMA EndsCome ==
    ASSUME TypeOK, CommandsAgree, Next, NEW o \in Operation,
           state'[o] \in {"succeeded", "failed_verified"}, state'[o] # state[o]
    PROVE  /\ Reserved(o)
           /\ state'[o] = "succeeded" => Known(request[o].epoch) /\ VerifiedBy(o)
           /\ state'[o] = "failed_verified" =>
                \/ ~ran'[o]
                \/ At(o, "close") /\ request[o].family = "modify"
<1>1. CASE Ask
  BY <1>1, AskJournal DEF journalVars
<1>2. CASE Poll
  BY <1>2, PollStates, PollKeepsRequests DEF Moves, Reserved
<1>3. CASE Outside
  BY <1>3 DEF Outside, journalVars
<1> QED BY <1>1, <1>2, <1>3 DEF Next

LEMMA ModifyFindsStays ==
    ASSUME TypeOK, TypeOK', CommandsAgree, OwnershipInv, AnswerInv, Next
    PROVE  ModifyFinds'
<1> USE DEF OwnershipInv
<1> SUFFICES ASSUME NEW o \in Operation, Reserved(o)', request'[o].family = "modify",
                    NEW e, e = request'[o].epoch, NEW x, x = request'[o].content,
                    NEW w, w = request'[o].wish
             PROVE  /\ At(o, "verify")' => \A t \in visit'.seen :
                            t.content = x \/ Given(t.content, e)'
                    /\ Known(e)' /\ VerifiedBy(o)' => Given(w, e)'
                    /\ state'[o] = "succeeded" => Given(w, e)'
                    /\ (At(o, "close")' \/ state'[o] = "failed_verified") /\ ran'[o] =>
                            OthersGave(o, x, e)'
  BY DEF ModifyFinds
<1>1. CASE ~Reserved(o)
  <2>1. ~At(o, "verify")' /\ ~At(o, "close")'
    <3>1. Ask
      BY <1>1, PollKeepsRequests DEF Next, Outside, journalVars, Reserved
    <3>2. UNCHANGED visit
      BY <3>1 DEF Ask, Schedule, Reassign, AdmitCreate, PrepareDelete, PrepareModify, Prepare,
                  AdmitDraft, DropDraft
    <3> QED BY <1>1, <3>2 DEF At, Idle, TypeOK
  <2>2. state'[o] \notin {"succeeded", "failed_verified"}
    BY <1>1, EndsCome DEF Reserved
  <2>3. e \in Epoch
    BY DEF TypeOK, RequestType
  <2>4. ~(Known(e)' /\ VerifiedBy(o)')
    BY <1>1, <2>3, VerifiedCome DEF VerifiedBy, BindingOf
  <2> QED BY <2>1, <2>2, <2>4
<1>2. CASE Reserved(o)
  <2>1. /\ request'[o] = request[o] /\ request[o].family = "modify"
        /\ e = request[o].epoch /\ x = request[o].content /\ w = request[o].wish
        /\ e \in Epoch /\ w # x
    BY <1>2, RecordsStay, AdmittedOnNote DEF RequestType
  <2>2. /\ At(o, "verify") => \A t \in visit.seen : t.content = x \/ Given(t.content, e)
        /\ Known(e) /\ VerifiedBy(o) => Given(w, e)
        /\ state[o] = "succeeded" => Given(w, e)
        /\ (At(o, "close") \/ state[o] = "failed_verified") /\ ran[o] => OthersGave(o, x, e)
    BY <1>2, <2>1 DEF AnswerInv, ModifyFinds
  <2>3. At(o, "verify")' => \A t \in visit'.seen : t.content = x \/ Given(t.content, e)'
    BY <1>2, <2>1, VisitsModify, GivenStays
  <2>4. ASSUME Known(e)', VerifiedBy(o)' PROVE Given(w, e)'
    <3>1. CASE Known(e) /\ VerifiedBy(o)
      BY <2>2, <3>1, GivenStays
    <3>2. CASE Rebound(e, o)
      <4>1. At(o, "verify") /\ \E t \in visit.seen : t.content = w
        BY <2>1, <3>2 DEF Rebound
      <4> QED BY <2>1, <2>2, <4>1, GivenStays
    <3>3. binding'[e].verifiedBy = o
      BY <2>1, <2>4 DEF VerifiedBy, BindingOf
    <3> QED BY <2>1, <2>4, <3>1, <3>2, <3>3, VerifiedCome
  <2>5. ASSUME state'[o] = "succeeded" PROVE Given(w, e)'
    <3>1. Given(w, e)
      BY <2>1, <2>2, <2>5, EndsCome
    <3> QED BY <3>1, GivenStays
  <2>6. ASSUME At(o, "close")', ran'[o] PROVE OthersGave(o, x, e)'
    <3>1. OthersGave(o, x, e)
      BY <1>2, <2>1, <2>6, VisitsModify
    <3> QED BY <3>1, OthersGaveStays
  <2>7. ASSUME state'[o] = "failed_verified", ran'[o] PROVE OthersGave(o, x, e)'
    <3>1. At(o, "close") \/ state[o] = "failed_verified"
      BY <2>7, EndsCome
    <3>2. report[o] # "none"
      BY <3>1 DEF CommandsAgree, VisitsStand
    <3>3. ran[o]
      BY <2>7, <3>2, NoneAfterReport
    <3> QED BY <2>2, <3>1, <3>3, OthersGaveStays
  <2> QED BY <2>3, <2>4, <2>5, <2>6, <2>7
<1> QED BY <1>1, <1>2

LEMMA CreateFindsStays ==
    ASSUME TypeOK, CommandsAgree, OneTimer, TimersMade, CreateFinds, Next
    PROVE  CreateFinds'
<1> SUFFICES ASSUME NEW o \in Operation, state'[o] = "succeeded", request'[o].family = "create"
             PROVE  ran'[o]
  BY DEF CreateFinds, Is
<1>1. Reserved(o) /\ request'[o] = request[o]
  <2>1. Reserved(o)
    BY EndsCome DEF Reserved
  <2> QED BY <2>1, RecordsStay
<1>2. CASE state[o] = "succeeded"
  BY <1>1, <1>2, RanStays DEF CreateFinds, Is
<1>3. CASE state[o] # "succeeded"
  <2>1. Known(request[o].epoch)
    BY <1>3, EndsCome
  <2>2. request[o].epoch \in Epoch /\ Creates(o, request[o].epoch)
    BY <1>1 DEF TypeOK, RequestType, Creates
  <2>3. ran[o]
    BY <2>1, <2>2, NoUnmadeCreate DEF TimersMade
  <2> QED BY <2>3, RanStays
<1> QED BY <1>2, <1>3

\* A DELETE has not found its timer: it had not, or it has just looked for it.
LEMMA NotFoundComes ==
    ASSUME TypeOK, CommandsAgree, TypeOK', OneTimer, TimersMade, BindingsOwn, Next,
           NEW o \in Operation, Reserved(o)', request'[o].family = "delete", NotFound(o)'
    PROVE  /\ Reserved(o) /\ request'[o] = request[o]
           /\ \/ NotFound(o)
              \/ \A s \in native : s.epoch = request[o].epoch => ~SameId(s.content, o)
<1> DEFINE Goal == /\ Reserved(o)
                   /\ \/ NotFound(o)
                      \/ \A s \in native : s.epoch = request[o].epoch => ~SameId(s.content, o)
<1>0. Reserved(o) => request'[o] = request[o]
  BY RecordsStay
<1>1. ASSUME At(o, "verify")', visit'.seen = {} PROVE Goal
  <2>1. CASE Poll
    <3>1. Reserved(o)
      BY <2>1, PollKeepsRequests
    <3>2. PICK p \in Operation : GoesOn(p)
      BY <1>1, <2>1, PollVisits DEF At
    <3>3. p = o
      BY <1>1, <3>2 DEF GoesOn, At
    <3>4. visit'.seen = {t \in native : t.epoch = request[o].epoch /\ SameId(t.content, o)}
      BY <1>0, <1>1, <3>1, <3>2, <3>3 DEF GoesOn, At
    <3> QED BY <1>1, <3>1, <3>4
  <2>2. CASE UNCHANGED visit
    <3>1. At(o, "verify") /\ visit.seen = {}
      BY <1>1, <2>2 DEF At, Idle
    <3>2. Reserved(o)
      BY <3>1 DEF At, TypeOK
    <3> QED BY <3>1, <3>2 DEF NotFound
  <2> QED BY <2>1, <2>2 DEF Next, Outside, Ask, Schedule, Reassign, AdmitCreate, PrepareDelete,
                            PrepareModify, Prepare, AdmitDraft, DropDraft
<1>2. ASSUME NEW e, e = request'[o].epoch, Known(e)', binding'[e].verifiedBy = o PROVE Goal
  <2>1. e \in Epoch
    BY <1>2 DEF TypeOK, RequestType
  <2>2. /\ Reserved(o) /\ request[o].epoch = e
        /\ (Known(e) /\ VerifiedBy(o)) \/ Rebound(e, o)
    BY <1>2, <2>1, VerifiedCome
  <2>3. CASE Known(e) /\ VerifiedBy(o)
    BY <2>2, <2>3 DEF NotFound
  <2>4. CASE Rebound(e, o)
    <3>1. request[o].family = "delete"
      BY <1>0, <2>2
    <3> QED BY <2>2, <2>4, <3>1 DEF Rebound, NotFound
  <2> QED BY <2>2, <2>3, <2>4
<1>3. ASSUME state'[o] = "succeeded" PROVE Goal
  <2>1. CASE state[o] = "succeeded"
    BY <2>1 DEF NotFound, Reserved
  <2>2. CASE state[o] # "succeeded"
    BY <1>3, <2>2, EndsCome DEF NotFound
  <2> QED BY <2>1, <2>2
<1>4. Goal
  BY <1>1, <1>2, <1>3 DEF NotFound, Known, VerifiedBy, BindingOf
<1> QED BY <1>0, <1>4

LEMMA AbsenceTellsStays ==
    ASSUME TypeOK, CommandsAgree, TypeOK', OwnershipInv, AnswerInv, Next
    PROVE  AbsenceTells'
<1> USE DEF OwnershipInv
<1> SUFFICES ASSUME NEW o \in Operation, Reserved(o)', request'[o].family = "delete", NotFound(o)',
                    NEW t \in native', t.epoch = request'[o].epoch
             PROVE  Renamed(t.epoch)'
  BY DEF AbsenceTells
<1>1. /\ Reserved(o) /\ request'[o] = request[o]
      /\ \/ NotFound(o)
         \/ \A s \in native : s.epoch = request[o].epoch => ~SameId(s.content, o)
  BY NotFoundComes
<1>2. /\ t.epoch \in Epoch /\ Made(t.epoch)
      /\ request[o].content \in Noted(t.epoch)
  BY <1>1, AdmittedOnNote
<1>3. ASSUME NEW s \in native, s.epoch = t.epoch PROVE Renamed(t.epoch)
  <2>1. CASE NotFound(o)
    BY <1>1, <1>3, <2>1 DEF AnswerInv, AbsenceTells
  <2>2. CASE ~SameId(s.content, o)
    BY <1>2, <1>3, <2>2 DEF AnswerInv, NotesStem, SameId
  <2> QED BY <1>1, <1>3, <2>1, <2>2
<1>4. CASE t \in native
  BY <1>3, <1>4, RenamedStays
<1>5. ASSUME NEW s \in native, Replaces(t, s) PROVE Renamed(t.epoch)'
  BY <1>3, <1>5, RenamedStays DEF Replaces
<1>6. ASSUME NEW p \in Operation, ~ran[p], Creates(p, t.epoch) PROVE FALSE
  BY <1>2, <1>6, NoUnmadeCreate
<1> QED BY <1>4, <1>5, <1>6, TimersCome

-------------------------------------------------------------------------------
(***************************************************************************)
(* The invariant of the answers.                                           *)
(***************************************************************************)
LEMMA InitAnswers == Init => AnswerInv
<1> SUFFICES ASSUME Init PROVE AnswerInv
  OBVIOUS
<1>1. native = {} /\ \A o \in Operation : state[o] = "none" /\ ~Reserved(o)
  BY DEF Init, JournalInit, NativeInit, Reserved
<1> QED BY <1>1 DEF AnswerInv, NotesStem, Restored, ModifyFinds, CreateFinds, Is, AbsenceTells

LEMMA NextAnswers ==
    TimerInv /\ TimerInv' /\ OwnershipInv /\ AnswerInv /\ [Next]_vars => AnswerInv'
<1> SUFFICES ASSUME TimerInv, TimerInv', OwnershipInv, AnswerInv, [Next]_vars PROVE AnswerInv'
  OBVIOUS
<1>1. TypeOK /\ TypeOK' /\ CommandsAgree
  BY DEF TimerInv
<1>2. CASE Next
  <2>1. NotesStem' /\ Restored'
    BY <1>1, <1>2, NotesKeepStem, RestoredStays DEF OwnershipInv, AnswerInv
  <2>2. ModifyFinds'
    BY <1>1, <1>2, ModifyFindsStays
  <2>3. CreateFinds'
    BY <1>1, <1>2, CreateFindsStays DEF OwnershipInv, AnswerInv
  <2>4. AbsenceTells'
    BY <1>1, <1>2, AbsenceTellsStays
  <2> QED BY <2>1, <2>2, <2>3, <2>4 DEF AnswerInv
<1>3. CASE UNCHANGED vars
  <2>0. /\ UNCHANGED <<request, state, binding, ran, native, edits, draft, visit>>
        /\ NotesStem /\ Restored /\ ModifyFinds /\ CreateFinds /\ AbsenceTells
    BY <1>3 DEF vars, journalVars, ownershipVars, nativeVars, AnswerInv
  <2>1. NotesStem'
    BY <2>0 DEF NotesStem, Noted, Known, Idle, Reserved, Given, Updates, Renamed
  <2>2. Restored'
    BY <2>0 DEF Restored, Reserved, OthersGave, Updates
  <2>3. ModifyFinds'
    BY <2>0 DEF ModifyFinds, Reserved, At, Idle, Given, Updates, OthersGave, Known, VerifiedBy,
                BindingOf
  <2>4. CreateFinds' /\ AbsenceTells'
    BY <2>0 DEF CreateFinds, Is, AbsenceTells, NotFound, Reserved, At, Idle, Known, VerifiedBy,
                BindingOf, Renamed, Updates
  <2> QED BY <2>1, <2>2, <2>3, <2>4 DEF AnswerInv
<1> QED BY <1>2, <1>3

\* The invariant of the answers holds throughout: what a content on record tells
\* of the timer, a MODIFY that found it as asked for or as it was, a DELETE that
\* did not find it, although contents come back (the readbacks of the three
\* productive runtimes).
THEOREM AnswersHold == Spec => []AnswerInv
  BY InvariantHolds, OwnershipHolds, InitAnswers, NextAnswers, PTL DEF Spec

\* What a verified DELETE leaves was renamed, by an UPDATE or outside: the absence
\* readback looks for the identity the binding had.
THEOREM SurvivorsRenamed == Spec => []SurvivorWasRenamed
<1>1. AnswerInv => SurvivorWasRenamed
  BY DEF AnswerInv, AbsenceTells, NotFound, SurvivorWasRenamed, Is, Reserved
<1> QED BY <1>1, AnswersHold, PTL

\* No two managed timers record one intent, unless the older one was renamed and
\* its DELETE verified all the same (the reassignment trigger relies on the
\* verified absence).
THEOREM TimersExclusive == Spec => []ExclusiveTimer
<1>1. TimerInv /\ OwnershipInv /\ AnswerInv => ExclusiveTimer
  <2> SUFFICES ASSUME TimerInv, OwnershipInv, AnswerInv, NEW s \in native, NEW t \in native
               PROVE  /\ s.epoch = t.epoch => s = t
                      /\ s.epoch < t.epoch => Renamed(s.epoch) /\ Deleted(s.epoch)
    BY DEF ExclusiveTimer, Deleted
  <2>1. s.epoch = t.epoch => s = t
    BY DEF OwnershipInv, OneTimer
  <2>2. ASSUME s.epoch < t.epoch PROVE Renamed(s.epoch) /\ Deleted(s.epoch)
    <3>1. s.epoch \in Epoch /\ t.epoch \in Epoch
      BY DEF TimerInv, TypeOK, NativeType
    <3>2. Made(s.epoch) /\ Made(t.epoch)
      BY DEF OwnershipInv, TimersMade
    <3>3. Assigned(t.epoch) /\ \E o \in Operation : Creates(o, s.epoch)
      BY <3>1, <3>2 DEF OwnershipInv, OneTimer, Made
    <3>4. Assigned(s.epoch) /\ assignment[s.epoch].state = "superseded"
      BY <2>2, <3>1, <3>3 DEF OwnershipInv, Succession
    <3>5. Deleted(s.epoch)
      BY <3>1, <3>3, <3>4 DEF OwnershipInv, Succession
    <3>6. PICK o \in Operation : Is(o, "delete", {"succeeded"}) /\ request[o].epoch = s.epoch
      BY <3>5 DEF Deleted
    <3>7. Renamed(s.epoch)
      BY <3>6 DEF AnswerInv, AbsenceTells, NotFound, Is, Reserved
    <3> QED BY <3>5, <3>7
  <2> QED BY <2>1, <2>2
<1> QED BY <1>1, InvariantHolds, OwnershipHolds, AnswersHold, PTL
===============================================================================
