--------------------- MODULE NativeTimerOwnership_proofs ---------------------
(***************************************************************************)
(* The timer runtime keeps OwnershipInv: of the assignments of an intent   *)
(* one is the owner, and timers, bindings and operations belong to the     *)
(* assignment they name, for any number of operations, backends, epochs,   *)
(* contents and upsets.  Hence no assignment is bound to a timer of        *)
(* someone else, and no admitted operation loses its binding to the        *)
(* passive refresh.                                                        *)
(***************************************************************************)
EXTENDS NativeTimerRuntime_proofs

-------------------------------------------------------------------------------
(***************************************************************************)
(* What the steps do to journal and visit.                                 *)
(***************************************************************************)

\* A handler leaves what is on record alone; what it adds is a CREATE on an
\* assignment it takes from selected to provisioning, or the draft.
LEMMA AskJournal ==
    ASSUME TypeOK, Ask
    PROVE  \/ UNCHANGED journalVars
           \/ \E o \in Operation :
                /\ ~Reserved(o)
                /\ state'[o] = "accepted"
                /\ \A p \in Operation \ {o} : state'[p] = state[p] /\ request'[p] = request[p]
                /\ \/ \E e \in Epoch :
                        /\ BeginProvisioning(e)
                        /\ request'[o].family = "create"
                        /\ request'[o].epoch = e
                   \/ /\ draft # NoRequest
                      /\ request'[o] = draft
                      /\ UNCHANGED assignment
<1>1. ASSUME NEW e \in Epoch, NEW o \in Operation, NEW x \in Content, AdmitCreate(o, e, x)
      PROVE  /\ ~Reserved(o) /\ state'[o] = "accepted"
             /\ \A p \in Operation \ {o} : state'[p] = state[p] /\ request'[p] = request[p]
             /\ BeginProvisioning(e)
             /\ request'[o].family = "create"
             /\ request'[o].epoch = e
  BY <1>1 DEF AdmitCreate, Reserve, TypeOK
<1>2. ASSUME NEW o \in Operation, AdmitDraft(o)
      PROVE  /\ ~Reserved(o) /\ state'[o] = "accepted"
             /\ \A p \in Operation \ {o} : state'[p] = state[p] /\ request'[p] = request[p]
             /\ draft # NoRequest
             /\ request'[o] = draft
             /\ UNCHANGED assignment
  BY <1>2 DEF AdmitDraft, Reserve, TypeOK, ownershipVars
<1>3. \/ UNCHANGED journalVars
      \/ \E e \in Epoch, o \in Operation, x \in Content : AdmitCreate(o, e, x)
      \/ \E o \in Operation : AdmitDraft(o)
  BY DEF Ask, Schedule, Reassign, PrepareDelete, PrepareModify, Prepare, DropDraft
<1> QED BY <1>1, <1>2, <1>3

\* The polling thread moves an operation at the end of a visit or outside one,
\* to success with the binding it has verified, and to failed_verified if its
\* command was refused or it is a MODIFY that a visit closes.
Moves(o) ==
    /\ Idle'
    /\ state[o] \notin {"none", "succeeded"}
    /\ state[o] \in Unresolved => state'[o] \in {"succeeded", "failed_verified"}
    /\ state'[o] = "succeeded" => Known(request[o].epoch) /\ VerifiedBy(o)
    /\ state'[o] = "failed_verified" =>
            \/ state[o] = "dispatching" /\ ~ran[o]
            \/ At(o, "close") /\ request[o].family = "modify"

LEMMA PollStates ==
    ASSUME TypeOK, CommandsAgree, Poll, NEW o \in Operation
    PROVE  state'[o] = state[o] \/ Moves(o)
<1> DEFINE Goal == state'[o] = state[o] \/ Moves(o)
<1>1. ASSUME NEW p \in Operation, NEW from, NEW to, Move(p, from, to), Idle',
             from \in {"accepted", "dispatching"} \cup Unresolved,
             from \in Unresolved => to \in {"succeeded", "failed_verified"},
             to = "succeeded" => Known(request[p].epoch) /\ VerifiedBy(p),
             to = "failed_verified" =>
                    \/ (from = "dispatching" /\ ~ran[p])
                    \/ (At(p, "close") /\ request[p].family = "modify")
      PROVE  Goal
  <2>1. CASE p = o
    BY <1>1, <2>1, MoveType DEF Move, Moves, Unresolved
  <2>2. CASE p # o
    BY <1>1, <2>2, MoveType
  <2> QED BY <2>1, <2>2
<1>2. ASSUME UNCHANGED journalVars PROVE Goal
  BY <1>2 DEF journalVars
<1>3. (visit' = NoVisit => Idle') /\ (Idle /\ UNCHANGED visit => Idle')
  BY DEF Idle
<1>4. ASSUME NEW p \in Operation, Move(p, "dispatching", Outcome(p)), report[p] # "none", Idle'
      PROVE  Goal
  <2>1. /\ Outcome(p) \in {"failed_verified"} \cup Unresolved
        /\ Outcome(p) = "failed_verified" => ~ran[p]
    BY <1>4, OutcomeRange DEF CommandsAgree
  <2> QED BY <1>1, <1>4, <2>1 DEF Unresolved
<1>5. ASSUME NEW p \in Operation, CreateStep(p) PROVE Goal
  <2>1. CASE ClaimCreate(p)
    BY <1>1, <1>3, <2>1 DEF ClaimCreate, Leave, Unresolved
  <2>2. CASE ApplyCreateResult(p)
    BY <1>3, <1>4, <2>2 DEF ApplyCreateResult
  <2>3. CASE CompleteCreate(p)
    BY <1>1, <1>3, <2>3 DEF CompleteCreate, Steady, Leave
  <2> QED BY <1>2, <1>5, <2>1, <2>2, <2>3
      DEF CreateStep, ReserveCommand, Activate, ReadCreated, VerifyCreated, BindCreated
<1>6. ASSUME NEW p \in Operation, DeleteStep(p) PROVE Goal
  <2>1. CASE ClaimDelete(p)
    BY <1>1, <1>3, <2>1 DEF ClaimDelete, Leave, Unresolved
  <2>2. CASE ApplyDeleteResult(p)
    BY <1>3, <1>4, <2>2 DEF ApplyDeleteResult
  <2>3. CASE CompleteDelete(p)
    BY <1>1, <1>3, <2>3 DEF CompleteDelete, Steady, Leave
  <2> QED BY <1>2, <1>6, <2>1, <2>2, <2>3
      DEF DeleteStep, AssignDelete, ReadDeleted, VerifyDeleted
<1>7. ASSUME NEW p \in Operation, ModifyStep(p) PROVE Goal
  <2>1. CASE ExpireModify(p)
    BY <1>1, <1>3, <2>1 DEF ExpireModify, Unresolved
  <2>2. CASE ClaimModify(p)
    BY <1>1, <1>3, <2>2 DEF ClaimModify, Leave, Unresolved
  <2>3. CASE ApplyModifyResult(p)
    BY <1>3, <1>4, <2>3 DEF ApplyModifyResult
  <2>4. CASE CloseUnchanged(p)
    BY <1>1, <1>3, <2>4 DEF CloseUnchanged, Leave, Unresolved
  <2>5. CASE CompleteModify(p)
    BY <1>1, <1>3, <2>5 DEF CompleteModify, Steady, Leave
  <2> QED BY <1>2, <1>7, <2>1, <2>2, <2>3, <2>4, <2>5
      DEF ModifyStep, AssignModify, ReadModified, VerifyModified
<1> QED BY <1>2, <1>5, <1>6, <1>7 DEF Poll, Refresh, Abandon

\* A visit that goes on reads the timers of an unresolved operation, goes on to
\* bind with one its CREATE made, and closes a MODIFY whose timer is as it was.
GoesOn(o) ==
    /\ visit'.op = o
    /\ UNCHANGED state
    /\ \A t \in visit'.seen : t \in native /\ t.epoch = request[o].epoch
    /\ visit'.at \in {"verify", "close"} => state[o] \in Unresolved
    /\ visit'.at = "verify" /\ request[o].family = "delete" =>
            visit'.seen = {t \in native : t.epoch = request[o].epoch /\ SameId(t.content, o)}
    /\ visit'.at = "bind" => At(o, "verify") /\ request[o].family = "create" /\ ran[o]
    /\ visit'.at = "close" =>
            \E t \in native : t.epoch = request[o].epoch /\ t.content = request[o].content

LEMMA PollVisits ==
    ASSUME TypeOK, OneTimer, TimersMade, Poll
    PROVE  Idle' \/ \E o \in Operation : GoesOn(o)
<1> DEFINE Goal == Idle' \/ \E o \in Operation : GoesOn(o)
<1>1. ASSUME NEW o \in Operation, NEW at, NEW seen, Continue(o, at, seen), UNCHANGED journalVars,
             \A t \in seen : t \in native /\ t.epoch = request[o].epoch,
             at \in {"verify", "close"} => state[o] \in Unresolved,
             at = "verify" /\ request[o].family = "delete" =>
                    seen = {t \in native : t.epoch = request[o].epoch /\ SameId(t.content, o)},
             at = "bind" => At(o, "verify") /\ request[o].family = "create" /\ ran[o],
             at = "close" =>
                \E t \in native : t.epoch = request[o].epoch /\ t.content = request[o].content
      PROVE  Goal
  <2>1. visit'.op = o /\ visit'.at = at /\ visit'.seen = seen /\ UNCHANGED state
    BY <1>1 DEF Continue, journalVars
  <2> QED BY <1>1, <2>1 DEF GoesOn
<1>2. (visit' = NoVisit => Idle') /\ (Idle /\ UNCHANGED visit => Idle')
  BY DEF Idle
<1>3. ASSUME NEW o \in Operation, CreateStep(o) PROVE Goal
  <2>1. CASE ReserveCommand(o)
    BY <1>1, <2>1 DEF ReserveCommand
  <2>2. CASE ReadCreated(o)
    BY <1>1, <2>2 DEF ReadCreated, Is
  <2>3. CASE VerifyCreated(o)
    <3>1. PICK t \in visit.seen : TRUE
      BY <2>3 DEF VerifyCreated
    <3>2. /\ Reserved(o) /\ request[o].family = "create" /\ request[o].epoch \in Epoch
          /\ t.epoch = request[o].epoch /\ Made(t.epoch)
      BY <2>3, <3>1 DEF VerifyCreated, At, TypeOK, RequestType, TimersMade
    <3>3. PICK p \in Operation : Creates(p, request[o].epoch) /\ ran[p]
      BY <3>2 DEF Made
    <3>4. ran[o]
      BY <3>2, <3>3 DEF OneTimer, Creates
    <3> QED BY <1>1, <2>3, <3>4 DEF VerifyCreated
  <2>4. CASE BindCreated(o)
    BY <1>1, <2>4 DEF BindCreated
  <2>5. CASE ClaimCreate(o) \/ Activate(o) \/ ApplyCreateResult(o) \/ CompleteCreate(o)
    BY <1>2, <2>5 DEF ClaimCreate, Activate, ApplyCreateResult, CompleteCreate, Leave
  <2> QED BY <1>3, <2>1, <2>2, <2>3, <2>4, <2>5 DEF CreateStep
<1>4. ASSUME NEW o \in Operation, DeleteStep(o) PROVE Goal
  <2>1. CASE AssignDelete(o)
    BY <1>1, <2>1 DEF AssignDelete
  <2>2. CASE ReadDeleted(o)
    BY <1>1, <2>2 DEF ReadDeleted, Is
  <2>3. CASE VerifyDeleted(o)
    BY <1>1, <2>3 DEF VerifyDeleted
  <2>4. CASE ClaimDelete(o) \/ ApplyDeleteResult(o) \/ CompleteDelete(o)
    BY <1>2, <2>4 DEF ClaimDelete, ApplyDeleteResult, CompleteDelete, Leave
  <2> QED BY <1>4, <2>1, <2>2, <2>3, <2>4 DEF DeleteStep
<1>5. ASSUME NEW o \in Operation, ModifyStep(o) PROVE Goal
  <2>1. CASE AssignModify(o)
    BY <1>1, <2>1 DEF AssignModify
  <2>2. CASE ReadModified(o)
    <3>1. /\ UNCHANGED journalVars
          /\ state[o] \in Unresolved /\ request[o].family = "modify"
      BY <2>2 DEF ReadModified, Is
    <3>2. PICK t \in Observed(o) :
            \/ Continue(o, "verify", {t})
            \/ (t.content = request[o].content /\ Continue(o, "close", {}))
      BY <2>2 DEF ReadModified
    <3>3. t \in native /\ t.epoch = request[o].epoch
      BY DEF Observed
    <3> QED BY <1>1, <3>1, <3>2, <3>3
  <2>3. CASE VerifyModified(o)
    BY <1>1, <2>3 DEF VerifyModified
  <2>4. CASE \/ ExpireModify(o) \/ ClaimModify(o) \/ ApplyModifyResult(o)
             \/ CloseUnchanged(o) \/ CompleteModify(o)
    BY <1>2, <2>4 DEF ExpireModify, ClaimModify, ApplyModifyResult, CloseUnchanged,
                      CompleteModify, Leave
  <2> QED BY <1>5, <2>1, <2>2, <2>3, <2>4 DEF ModifyStep
<1> QED BY <1>2, <1>3, <1>4, <1>5 DEF Poll, Refresh, Abandon, Leave

\* What is on record stays so, and success is final.
LEMMA RecordsStay ==
    ASSUME TypeOK, CommandsAgree, Next, NEW o \in Operation, Reserved(o)
    PROVE  /\ Reserved(o)'
           /\ request'[o] = request[o]
           /\ state[o] = "succeeded" => state'[o] = "succeeded"
<1>1. CASE Ask
  <2>1. state'[o] = state[o] /\ request'[o] = request[o]
    BY <1>1, AskJournal DEF journalVars
  <2> QED BY <2>1 DEF Reserved
<1>2. CASE Poll
  BY <1>2, PollKeepsRequests, PollStates DEF Moves
<1>3. CASE Outside
  BY <1>3 DEF Outside, journalVars, Reserved
<1> QED BY <1>1, <1>2, <1>3 DEF Next

-------------------------------------------------------------------------------
(***************************************************************************)
(* What the steps do to assignments and bindings.                          *)
(***************************************************************************)

\* Work on a binding: it is as it was, or refreshed while no operation of its
\* assignment is open, or made, replaced or marked absent by an operation of this
\* assignment that was admitted on no binding or on this revision of it, and has
\* seen the timer as it asked for it, or none.
Refreshed(e) ==
    /\ Known(e) /\ Known(e)'
    /\ binding'[e].rev = binding[e].rev + 1
    /\ binding'[e].content = binding[e].content
    /\ binding'[e].missing = binding[e].missing
    /\ binding'[e].verifiedBy = binding[e].verifiedBy
    /\ \A o \in Operation : Open(o) => request[o].epoch # e

Rebound(e, o) ==
    /\ Reserved(o)
    /\ request[o].epoch = e
    /\ At(o, "verify")
    /\ Known(e)'
    /\ binding'[e].verifiedBy = o
    /\ \/ /\ request[o].family # "delete"
          /\ \E t \in visit.seen :
                t.content = request[o].wish /\ binding'[e].content = t.content
       \/ /\ request[o].family = "delete"
          /\ visit.seen = {}
          /\ binding'[e].missing
          /\ binding'[e].content = binding[e].content
    /\ \/ request[o].family = "create" /\ ~Known(e)
       \/ /\ request[o].family # "create" /\ Known(e)
          /\ binding[e].rev = request[o].rev
          /\ binding'[e].rev = request[o].rev + 1

\* A binding stays one when it is refreshed.
LEMMA RefreshedType ==
    ASSUME NEW b \in BindingType, NEW gen \in Generation
    PROVE  [b EXCEPT !.rev = @ + 1, !.gen = gen] \in BindingType
<1> DEFINE b1 == [b EXCEPT !.rev = b.rev + 1]
<1>1. b1 \in BindingType
  BY DEF BindingType
<1>2. [b1 EXCEPT !.gen = gen] \in BindingType
  <2> HIDE DEF b1
  <2> QED BY <1>1 DEF BindingType
<1> QED BY <1>2

LEMMA PollBindings ==
    ASSUME TypeOK, Poll, NEW e \in Epoch
    PROVE  \/ binding'[e] = binding[e]
           \/ Refreshed(e)
           \/ \E o \in Operation : Rebound(e, o)
<1> USE OwnershipAssumption, NativeAssumption
<1> DEFINE Goal == \/ binding'[e] = binding[e]
                   \/ Refreshed(e)
                   \/ \E o \in Operation : Rebound(e, o)
<1>0. ASSUME UNCHANGED ownershipVars PROVE Goal
  BY <1>0 DEF ownershipVars
<1>1. ASSUME NEW o \in Operation, VerifyCreated(o) PROVE Goal
  <2>1. /\ Reserved(o) /\ request[o].family = "create" /\ At(o, "verify")
        /\ request[o].epoch \in Epoch /\ request[o].gen \in Generation
        /\ visit \in VisitType
    BY <1>1 DEF VerifyCreated, At, TypeOK, RequestType
  <2>2. PICK t \in visit.seen :
            /\ t.content = request[o].wish
            /\ CreateBinding(request[o].epoch, request[o].gen, t, o) \/ UNCHANGED ownershipVars
    BY <1>1 DEF VerifyCreated
  <2>3. CASE CreateBinding(request[o].epoch, request[o].gen, t, o)
    <3> DEFINE b == [rev |-> 1, gen |-> request[o].gen, content |-> t.content,
                     missing |-> FALSE, verifiedBy |-> o]
    <3>1. ~Known(request[o].epoch) /\ binding' = [binding EXCEPT ![request[o].epoch] = b]
      BY <2>3 DEF CreateBinding
    <3>2. b.verifiedBy = o /\ b.content = t.content
      BY <2>2
    <3>3. b # NoBinding
      <4>1. t.content \in Content
        BY <2>1, <2>2 DEF VisitType, NativeType
      <4>2. b \in BindingType
        BY <2>1, <2>2, <4>1 DEF BindingType
      <4> QED BY <4>2, AbsentRowAssumption
    <3> HIDE DEF b
    <3>4. CASE e = request[o].epoch
      BY <2>1, <2>2, <3>1, <3>2, <3>3, <3>4 DEF Rebound, Known, TypeOK
    <3>5. CASE e # request[o].epoch
      BY <3>1, <3>5 DEF TypeOK
    <3> QED BY <3>4, <3>5
  <2> QED BY <1>0, <2>2, <2>3
<1>2. ASSUME NEW o \in Operation, VerifyDeleted(o) PROVE Goal
  <2> DEFINE f == request[o].epoch
  <2>1. /\ Reserved(o) /\ request[o].family = "delete"
        /\ At(o, "verify") /\ visit.seen = {}
        /\ f \in Epoch /\ request[o].gen \in Generation
    BY <1>2 DEF VerifyDeleted, At, TypeOK, RequestType
  <2>2. CASE MarkAbsent(f, request[o].gen, request[o].rev, o)
    <3>1. Known(f) /\ binding[f] \in BindingType /\ binding[f].rev = request[o].rev
      BY <2>1, <2>2 DEF MarkAbsent, Known, TypeOK
    <3>2. /\ binding'[f] = [binding[f] EXCEPT !.rev = @ + 1, !.gen = request[o].gen,
                                              !.missing = TRUE, !.verifiedBy = o]
          /\ \A g \in Epoch \ {f} : binding'[g] = binding[g]
      BY <2>1, <2>2 DEF MarkAbsent, TypeOK
    <3>3. /\ binding'[f] \in BindingType
          /\ binding'[f].rev = binding[f].rev + 1
          /\ binding'[f].missing
          /\ binding'[f].content = binding[f].content
          /\ binding'[f].verifiedBy = o
      <4>1. [binding[f] EXCEPT !.rev = @ + 1, !.gen = request[o].gen,
                               !.missing = TRUE, !.verifiedBy = o] \in BindingType
        BY <2>1, <3>1, BindingMarked, Zenon
      <4> QED BY <3>1, <3>2, <4>1 DEF BindingType
    <3>4. CASE e = f
      <4>1. Known(e)'
        BY <3>3, <3>4, AbsentRowAssumption DEF Known
      <4> QED BY <2>1, <3>1, <3>3, <3>4, <4>1 DEF Rebound
    <3> QED BY <3>2, <3>4
  <2> QED BY <1>0, <1>2, <2>2 DEF VerifyDeleted
<1>3. ASSUME NEW o \in Operation, VerifyModified(o) PROVE Goal
  <2> DEFINE f == request[o].epoch
  <2>1. /\ Reserved(o) /\ request[o].family = "modify" /\ At(o, "verify")
        /\ f \in Epoch /\ request[o].gen \in Generation /\ request[o].rev \in Nat
        /\ visit \in VisitType
    BY <1>3 DEF VerifyModified, At, TypeOK, RequestType
  <2>2. PICK t \in visit.seen :
            /\ t.content = request[o].wish
            /\ RecordChange(f, request[o].gen, request[o].rev, t, o) \/ UNCHANGED ownershipVars
    BY <1>3 DEF VerifyModified
  <2>3. CASE RecordChange(f, request[o].gen, request[o].rev, t, o)
    <3> DEFINE b == [rev |-> request[o].rev + 1, gen |-> request[o].gen,
                     content |-> t.content, missing |-> FALSE, verifiedBy |-> o]
    <3>1. /\ Known(f) /\ binding[f].rev = request[o].rev
          /\ binding' = [binding EXCEPT ![f] = b]
      BY <2>3 DEF RecordChange
    <3>2. b.verifiedBy = o /\ b.content = t.content /\ b.rev = request[o].rev + 1
      BY <2>2
    <3>3. b # NoBinding
      <4>1. t.content \in Content
        BY <2>1, <2>2 DEF VisitType, NativeType
      <4>2. b \in BindingType
        BY <2>1, <2>2, <4>1 DEF BindingType
      <4> QED BY <4>2, AbsentRowAssumption
    <3> HIDE DEF b
    <3>4. CASE e = f
      BY <2>1, <2>2, <3>1, <3>2, <3>3, <3>4 DEF Rebound, Known, TypeOK
    <3>5. CASE e # f
      BY <3>1, <3>5 DEF TypeOK
    <3> QED BY <3>4, <3>5
  <2> QED BY <1>0, <2>2, <2>3
<1>4. ASSUME NEW f \in Epoch, Refresh(f) PROVE Goal
  <2> DEFINE gen == agentGen[assignment[f].backend]
  <2>1. /\ Known(f) /\ binding[f] \in BindingType /\ assignment[f] \in AssignmentType
        /\ \A o \in Operation : Open(o) => request[o].epoch # f
    BY <1>4 DEF Refresh, Steady, Known, Assigned, TypeOK
  <2>2. /\ binding'[f] = [binding[f] EXCEPT !.rev = @ + 1, !.gen = gen]
        /\ \A g \in Epoch \ {f} : binding'[g] = binding[g]
    BY <1>4 DEF Refresh, PassiveRefresh, TypeOK
  <2>3. /\ binding'[f].rev = binding[f].rev + 1
        /\ binding'[f].content = binding[f].content
        /\ binding'[f].missing = binding[f].missing
        /\ binding'[f].verifiedBy = binding[f].verifiedBy
    <3> HIDE DEF gen
    <3> QED BY <2>1, <2>2 DEF BindingType
  <2>4. Known(f)'
    <3>2. gen \in Generation
      BY <2>1 DEF AssignmentType, TypeOK, Generation
    <3>3. [binding[f] EXCEPT !.rev = @ + 1, !.gen = gen] \in BindingType
      <4> HIDE DEF gen
      <4> QED BY <2>1, <3>2, RefreshedType, Zenon
    <3> QED BY <2>2, <3>3, AbsentRowAssumption DEF Known
  <2>5. CASE e = f
    BY <2>1, <2>3, <2>4, <2>5 DEF Refreshed
  <2> QED BY <2>2, <2>5
<1>5. ASSUME NEW o \in Operation, CreateStep(o), ~VerifyCreated(o) PROVE Goal
  BY <1>5 DEF CreateStep, ReserveCommand, ClaimCreate, Activate, ApplyCreateResult,
              ReadCreated, BindCreated, BindAssignment, CompleteCreate, ownershipVars
<1>6. ASSUME NEW o \in Operation, DeleteStep(o), ~VerifyDeleted(o) PROVE Goal
  BY <1>0, <1>6 DEF DeleteStep, AssignDelete, ClaimDelete, ApplyDeleteResult, ReadDeleted,
              CompleteDelete
<1>7. ASSUME NEW o \in Operation, ModifyStep(o), ~VerifyModified(o) PROVE Goal
  BY <1>0, <1>7 DEF ModifyStep, ExpireModify, AssignModify, ClaimModify, ApplyModifyResult,
              ReadModified, CloseUnchanged, CompleteModify
<1>8. CASE Abandon
  BY <1>0, <1>8 DEF Abandon
<1> QED BY <1>1, <1>2, <1>3, <1>4, <1>5, <1>6, <1>7, <1>8 DEF Poll

\* Neither handlers nor Agents touch a binding.
LEMMA NextBindings ==
    ASSUME TypeOK, Next, NEW e \in Epoch
    PROVE  \/ binding'[e] = binding[e]
           \/ Refreshed(e)
           \/ \E o \in Operation : Rebound(e, o)
<1>1. CASE Ask
  BY <1>1 DEF Ask, Schedule, SchedulePrimary, Reassign, Replace, AdmitCreate, BeginProvisioning,
              PrepareDelete, PrepareModify, Prepare, AdmitDraft, DropDraft, ownershipVars
<1>2. CASE Poll
  BY <1>2, PollBindings
<1>3. CASE Outside
  BY <1>3 DEF Outside, ownershipVars
<1> QED BY <1>1, <1>2, <1>3 DEF Next

\* An assignment that is moved on is one still, in its new state.
LEMMA AssignmentMoved ==
    ASSUME TypeOK, NEW e \in Epoch, Assigned(e), NEW s \in AssignmentState,
           assignment'[e] = [assignment[e] EXCEPT !.state = s, !.rev = @ + 1]
    PROVE  Assigned(e)' /\ assignment'[e].state = s
<1>1. assignment[e] \in AssignmentType
  BY DEF Assigned, TypeOK
<1>2. [assignment[e] EXCEPT !.state = s, !.rev = @ + 1] \in AssignmentType
  BY <1>1, AssignmentMoves, Zenon
<1>3. assignment'[e].state = s
  BY <1>1 DEF AssignmentType
<1> QED BY <1>2, <1>3, AbsentRowAssumption DEF Assigned

LEMMA SelectedAssigned ==
    ASSUME NEW b \in Backend, NEW gen \in Generation
    PROVE  Selected(b, gen) # NoAssignment /\ Selected(b, gen).state = "selected"
<1>1. Selected(b, gen) \in AssignmentType
  BY DEF Selected, AssignmentType, AssignmentState
<1> QED BY <1>1, AbsentRowAssumption DEF Selected

\* The first assignment of the intent, its replacement by the next, and its way
\* from selected to provisioning.
FirstSelected ==
    /\ \A e \in Epoch : ~Assigned(e)
    /\ \A e \in Epoch : Assigned(e)' => e = 1 /\ assignment'[e].state = "selected"

Replaced(e) ==
    /\ e + 1 \in Epoch
    /\ Assigned(e) /\ Assigned(e)' /\ assignment'[e].state = "superseded"
    /\ assignment[e].state # "superseded"
    /\ ~Assigned(e + 1) /\ Assigned(e + 1)' /\ assignment'[e + 1].state = "selected"
    /\ \A f \in Epoch \ {e, e + 1} : assignment'[f] = assignment[f]

Provisioned(e) ==
    /\ Assigned(e) /\ assignment[e].state = "selected"
    /\ Assigned(e)' /\ assignment'[e].state = "provisioning"
    /\ \A f \in Epoch \ {e} : assignment'[f] = assignment[f]

LEMMA BeginProvisioned ==
    ASSUME TypeOK, NEW e \in Epoch, BeginProvisioning(e)
    PROVE  Provisioned(e)
<1>1. /\ Assigned(e) /\ assignment[e].state = "selected"
      /\ assignment'[e] = [assignment[e] EXCEPT !.state = "provisioning", !.rev = @ + 1]
      /\ \A f \in Epoch \ {e} : assignment'[f] = assignment[f]
  BY DEF BeginProvisioning, TypeOK
<1>2. Assigned(e)' /\ assignment'[e].state = "provisioning"
  BY <1>1, AssignmentMoved DEF AssignmentState
<1> QED BY <1>1, <1>2 DEF Provisioned

LEMMA ReassignReplaced ==
    ASSUME TypeOK, NEW e \in Epoch, NEW b \in Backend, Reassign(e, b)
    PROVE  Replaced(e)
<1>1. Replace(e, b, agentGen[b])
  BY DEF Reassign
<1>2. /\ e + 1 \in Epoch /\ e + 1 # e
      /\ Assigned(e) /\ ~Assigned(e + 1) /\ assignment[e].state # "superseded"
      /\ assignment' = [assignment EXCEPT
            ![e].state = "superseded", ![e].rev = @ + 1, ![e + 1] = Selected(b, agentGen[b])]
  BY <1>1, OwnershipAssumption DEF Replace, Epoch
<1>3. /\ assignment'[e] = [assignment[e] EXCEPT !.state = "superseded", !.rev = @ + 1]
      /\ assignment'[e + 1] = Selected(b, agentGen[b])
      /\ \A f \in Epoch \ {e, e + 1} : assignment'[f] = assignment[f]
  BY <1>2 DEF TypeOK
<1>4. Assigned(e)' /\ assignment'[e].state = "superseded"
  BY <1>2, <1>3, AssignmentMoved DEF AssignmentState
<1>5. agentGen[b] \in Generation
  BY NativeAssumption DEF TypeOK, Generation
<1>6. Assigned(e + 1)' /\ assignment'[e + 1].state = "selected"
  BY <1>3, <1>5, SelectedAssigned DEF Assigned
<1> QED BY <1>2, <1>3, <1>4, <1>6 DEF Replaced

LEMMA AskAssignments ==
    ASSUME TypeOK, Ask
    PROVE  \/ UNCHANGED assignment
           \/ FirstSelected /\ UNCHANGED journalVars
           \/ \E e \in Epoch, b \in Backend :
                Reassign(e, b) /\ Replaced(e) /\ UNCHANGED journalVars
           \/ \E e \in Epoch : Provisioned(e)
<1>1. ASSUME NEW b \in Backend, Schedule(b) PROVE FirstSelected /\ UNCHANGED journalVars
  <2>1. /\ \A e \in Epoch : ~Assigned(e)
        /\ assignment' = [assignment EXCEPT ![1] = Selected(b, agentGen[b])]
    BY <1>1 DEF Schedule, SchedulePrimary
  <2>2. agentGen[b] \in Generation
    BY NativeAssumption DEF TypeOK, Generation
  <2> QED BY <1>1, <2>1, <2>2, SelectedAssigned DEF FirstSelected, Assigned, TypeOK, Schedule
<1>2. ASSUME NEW e \in Epoch, NEW b \in Backend, Reassign(e, b)
      PROVE  Replaced(e) /\ UNCHANGED journalVars
  BY <1>2, ReassignReplaced DEF Reassign
<1>3. ASSUME NEW e \in Epoch, NEW o \in Operation, NEW x \in Content, AdmitCreate(o, e, x)
      PROVE  Provisioned(e)
  BY <1>3, BeginProvisioned DEF AdmitCreate
<1> QED BY <1>1, <1>2, <1>3
    DEF Ask, PrepareDelete, PrepareModify, Prepare, AdmitDraft, DropDraft, ownershipVars

\* The polling thread takes an assignment to bound, in the visit that has seen
\* its timer; the passive refresh leaves its state alone.
LEMMA PollAssignments ==
    ASSUME TypeOK, Poll, NEW e \in Epoch
    PROVE  \/ /\ Assigned(e)' <=> Assigned(e)
              /\ Assigned(e) => assignment'[e].state = assignment[e].state
           \/ /\ Assigned(e) /\ assignment[e].state = "provisioning"
              /\ Assigned(e)' /\ assignment'[e].state = "bound"
              /\ Known(e)
              /\ \E o \in Operation : At(o, "bind") /\ request[o].epoch = e
<1> DEFINE Same == /\ Assigned(e)' <=> Assigned(e)
                   /\ Assigned(e) => assignment'[e].state = assignment[e].state
           Bound == /\ Assigned(e) /\ assignment[e].state = "provisioning"
                    /\ Assigned(e)' /\ assignment'[e].state = "bound"
                    /\ Known(e)
                    /\ \E o \in Operation : At(o, "bind") /\ request[o].epoch = e
<1>1. ASSUME UNCHANGED assignment PROVE Same
  BY <1>1 DEF Assigned
<1>2. ASSUME NEW o \in Operation, BindCreated(o) PROVE Same \/ Bound
  <2> DEFINE f == request[o].epoch
  <2>1. CASE BindAssignment(f, request[o].gen, request[o].arev)
    <3>1. Reserved(o) /\ f \in Epoch
      BY <1>2 DEF BindCreated, At, TypeOK, RequestType
    <3>2. /\ Assigned(f) /\ assignment[f].state = "provisioning" /\ Known(f)
          /\ assignment'[f] = [assignment[f] EXCEPT !.state = "bound", !.rev = @ + 1]
          /\ \A g \in Epoch \ {f} : assignment'[g] = assignment[g]
      BY <2>1, <3>1 DEF BindAssignment, Steady, TypeOK
    <3>3. CASE e = f
      <4>1. assignment'[e] = [assignment[e] EXCEPT !.state = "bound", !.rev = @ + 1]
        BY <3>2, <3>3
      <4>2. Assigned(e)' /\ assignment'[e].state = "bound"
        BY <3>2, <3>3, <4>1, AssignmentMoved DEF AssignmentState
      <4> QED BY <1>2, <3>2, <3>3, <4>2 DEF BindCreated
    <3> QED BY <3>2, <3>3 DEF Assigned
  <2> QED BY <1>1, <1>2, <2>1 DEF BindCreated, ownershipVars
<1>3. ASSUME NEW f \in Epoch, Refresh(f) PROVE Same
  <2> DEFINE gen == agentGen[assignment[f].backend]
  <2>1. assignment[f] \in AssignmentType
    BY <1>3 DEF Refresh, Assigned, TypeOK
  <2>2. gen \in Generation
    BY <2>1, NativeAssumption DEF AssignmentType, TypeOK, Generation
  <2>3. CASE assignment' = [assignment EXCEPT ![f].gen = gen, ![f].rev = @ + 1]
    <3>1. /\ assignment'[f] = [assignment[f] EXCEPT !.gen = gen, !.rev = @ + 1]
          /\ \A g \in Epoch \ {f} : assignment'[g] = assignment[g]
      BY <2>3 DEF TypeOK
    <3>2. assignment'[f].state = assignment[f].state
      <4> HIDE DEF gen
      <4> QED BY <2>1, <3>1 DEF AssignmentType
    <3>3. assignment'[f] # NoAssignment
      <4> DEFINE a1 == [assignment[f] EXCEPT !.gen = gen]
      <4>1. a1 \in AssignmentType /\ assignment[f].rev \in Nat
        BY <2>1, <2>2 DEF AssignmentType
      <4>2. [a1 EXCEPT !.rev = assignment[f].rev + 1] \in AssignmentType
        <5> HIDE DEF a1, gen
        <5> QED BY <4>1 DEF AssignmentType
      <4> QED BY <3>1, <4>2, AbsentRowAssumption
    <3> QED BY <1>3, <3>1, <3>2, <3>3 DEF Refresh, Assigned
  <2> QED BY <1>1, <1>3, <2>3 DEF Refresh, PassiveRefresh
<1>4. ASSUME NEW o \in Operation, CreateStep(o), ~BindCreated(o) PROVE UNCHANGED assignment
  BY <1>4 DEF CreateStep, ReserveCommand, ClaimCreate, Activate, ApplyCreateResult,
              ReadCreated, VerifyCreated, CreateBinding, CompleteCreate, ownershipVars
<1>5. ASSUME NEW o \in Operation, DeleteStep(o) PROVE UNCHANGED assignment
  BY <1>5 DEF DeleteStep, AssignDelete, ClaimDelete, ApplyDeleteResult, ReadDeleted,
              VerifyDeleted, MarkAbsent, CompleteDelete, ownershipVars
<1>6. ASSUME NEW o \in Operation, ModifyStep(o) PROVE UNCHANGED assignment
  BY <1>6 DEF ModifyStep, ExpireModify, AssignModify, ClaimModify, ApplyModifyResult,
              ReadModified, CloseUnchanged, VerifyModified, RecordChange, CompleteModify,
              ownershipVars
<1>7. CASE Abandon
  BY <1>1, <1>7 DEF Abandon, ownershipVars
<1> QED BY <1>1, <1>2, <1>3, <1>4, <1>5, <1>6, <1>7 DEF Poll

-------------------------------------------------------------------------------
(***************************************************************************)
(* The owner of the intent.                                                *)
(***************************************************************************)

\* An assignment gets a CREATE only as it leaves the state selected.
LEMMA NewCreates ==
    ASSUME TypeOK, CommandsAgree, BasesKnown, Next,
           NEW o \in Operation, NEW e \in Epoch, Creates(o, e)'
    PROVE  \/ Creates(o, e)
           \/ /\ ~Reserved(o)
              /\ Provisioned(e)
              /\ \A p \in Operation \ {o} : Creates(p, e)' => Creates(p, e)
<1>1. CASE Reserved(o)
  BY <1>1, RecordsStay DEF Creates
<1>2. CASE ~Reserved(o)
  <2>1. CASE Poll \/ Outside
    BY <1>2, <2>1, PollKeepsRequests DEF Creates, Outside, journalVars, Reserved
  <2>2. CASE Ask
    <3>1. PICK q \in Operation :
            /\ ~Reserved(q)
            /\ state'[q] = "accepted"
            /\ \A p \in Operation \ {q} : state'[p] = state[p] /\ request'[p] = request[p]
            /\ \/ \E f \in Epoch : BeginProvisioning(f) /\ request'[q].epoch = f
               \/ request'[q].family # "create"
      <4>1. ~UNCHANGED journalVars
        BY <1>2 DEF Creates, Reserved, journalVars
      <4>2. draft # NoRequest => draft.family # "create"
        BY DEF BasesKnown
      <4> QED BY <2>2, <4>1, <4>2, AskJournal
    <3>2. q = o
      BY <1>2, <3>1 DEF Creates, Reserved
    <3>3. BeginProvisioning(e)
      BY <3>1, <3>2 DEF Creates
    <3>4. \A p \in Operation \ {o} : Creates(p, e)' => Creates(p, e)
      BY <3>1, <3>2 DEF Creates, Reserved
    <3> QED BY <1>2, <3>3, <3>4, BeginProvisioned
  <2> QED BY <2>1, <2>2 DEF Next
<1> QED BY <1>1, <1>2

\* A completed DELETE stays on record.
LEMMA DeletedStays ==
    ASSUME TypeOK, CommandsAgree, Next, NEW e \in Epoch, Deleted(e)
    PROVE  Deleted(e)'
<1>1. PICK o \in Operation : Is(o, "delete", {"succeeded"}) /\ request[o].epoch = e
  BY DEF Deleted
<1>2. Reserved(o) /\ state[o] = "succeeded"
  BY <1>1 DEF Is, Reserved
<1>3. state'[o] = "succeeded" /\ request'[o] = request[o]
  BY <1>2, RecordsStay
<1> QED BY <1>1, <1>3 DEF Deleted, Is

\* An assignment that a successor replaces was untouched, or is deleted.
LEMMA ReplacedFree ==
    ASSUME TypeOK, OneTimer, BindingsOwn, BoundByCreate,
           NEW e \in Epoch, NEW b \in Backend, Reassign(e, b)
    PROVE  (\A o \in Operation : ~Creates(o, e)) \/ Deleted(e)
<1>1. CASE assignment[e].state = "selected"
  BY <1>1 DEF OneTimer
<1>2. CASE assignment[e].state = "bound"
  <2>1. PICK o \in Operation : /\ binding[e].verifiedBy = o
                               /\ state[o] = "succeeded"
                               /\ request[o].family = "delete"
    BY <1>2 DEF Reassign
  <2>2. Known(e)
    BY <1>2 DEF BoundByCreate, Reassign
  <2>3. request[o].epoch = e
    BY <2>1, <2>2 DEF BindingsOwn
  <2> QED BY <2>1, <2>3 DEF Deleted, Is
<1> QED BY <1>1, <1>2 DEF Reassign

LEMMA SuccessionLasts ==
    ASSUME TypeOK, CommandsAgree, OwnershipInv, Next
    PROVE  Succession'
<1> USE DEF OwnershipInv
<1> DEFINE Line == \A e, f \in Epoch : e < f /\ Assigned(f)' =>
                        Assigned(e)' /\ assignment'[e].state = "superseded"
           Left(e) == (\A o \in Operation : ~Creates(o, e)') \/ Deleted(e)'
<1>1. ASSUME NEW e \in Epoch, (\A o \in Operation : ~Creates(o, e)) \/ Deleted(e), ~Provisioned(e)
      PROVE  Left(e)
  BY <1>1, NewCreates, DeletedStays
<1>2. ASSUME UNCHANGED assignment PROVE Line /\ \A e \in Epoch : ~Provisioned(e)
  BY <1>2 DEF Succession, Assigned, Provisioned
<1>3. ASSUME Ask
      PROVE  Line /\ \A e \in Epoch : Assigned(e)' /\ assignment'[e].state = "superseded" => Left(e)
  <2>1. CASE UNCHANGED assignment
    BY <1>1, <1>2, <2>1 DEF Succession, Assigned
  <2>2. CASE FirstSelected
    BY <2>2 DEF FirstSelected, Epoch
  <2>3. ASSUME NEW e \in Epoch, NEW b \in Backend, Reassign(e, b), Replaced(e),
               UNCHANGED journalVars
        PROVE  Line /\ \A g \in Epoch : Assigned(g)' /\ assignment'[g].state = "superseded" => Left(g)
    <3>1. Line
      <4> SUFFICES ASSUME NEW c \in Epoch, NEW d \in Epoch, c < d, Assigned(d)'
                   PROVE  Assigned(c)' /\ assignment'[c].state = "superseded"
        OBVIOUS
      <4>1. CASE d = e + 1
        <5>1. c = e \/ c < e
          BY <4>1 DEF Epoch
        <5>2. CASE c < e
          BY <2>3, <4>1, <5>2 DEF Succession, Replaced, Assigned, Epoch
        <5> QED BY <2>3, <5>1, <5>2 DEF Replaced
      <4>2. CASE d # e + 1
        <5>1. Assigned(d)
          BY <2>3, <4>2 DEF Replaced, Assigned
        <5>2. Assigned(c) /\ assignment[c].state = "superseded"
          BY <5>1 DEF Succession
        <5> QED BY <2>3, <5>2 DEF Replaced, Assigned
      <4> QED BY <4>1, <4>2
    <3>2. ASSUME NEW g \in Epoch, Assigned(g)', assignment'[g].state = "superseded"
          PROVE  Left(g)
      <4>1. g # e + 1
        BY <2>3, <3>2 DEF Replaced
      <4>2. ~Provisioned(g)
        BY <3>2 DEF Provisioned
      <4>3. CASE g = e
        BY <1>1, <2>3, <4>2, <4>3, ReplacedFree
      <4>4. CASE g # e
        BY <1>1, <2>3, <3>2, <4>1, <4>2, <4>4 DEF Replaced, Succession, Assigned
      <4> QED BY <4>3, <4>4
    <3> QED BY <3>1, <3>2
  <2>4. ASSUME NEW e \in Epoch, Provisioned(e)
        PROVE  Line /\ \A g \in Epoch : Assigned(g)' /\ assignment'[g].state = "superseded" => Left(g)
    <3>1. \A g \in Epoch : Assigned(g)' <=> Assigned(g)
      BY <2>4 DEF Provisioned, Assigned
    <3>2. \A g \in Epoch : Assigned(g) =>
            (assignment'[g].state = "superseded" <=> assignment[g].state = "superseded")
      BY <2>4 DEF Provisioned
    <3>3. Line
      BY <3>1, <3>2 DEF Succession
    <3>4. ASSUME NEW g \in Epoch, Assigned(g)', assignment'[g].state = "superseded"
          PROVE  Left(g)
      BY <1>1, <3>1, <3>2, <3>4 DEF Succession, Provisioned
    <3> QED BY <3>3, <3>4
  <2> QED BY <1>3, <2>1, <2>2, <2>3, <2>4, AskAssignments
<1>4. ASSUME Poll
      PROVE  Line /\ \A e \in Epoch : Assigned(e)' /\ assignment'[e].state = "superseded" => Left(e)
  <2>1. \A g \in Epoch : /\ Assigned(g)' <=> Assigned(g)
                         /\ Assigned(g) =>
                              (assignment'[g].state = "superseded" <=> assignment[g].state = "superseded")
    BY <1>4, PollAssignments
  <2>2. Line
    BY <2>1 DEF Succession
  <2>3. ASSUME NEW g \in Epoch, Assigned(g)', assignment'[g].state = "superseded"
        PROVE  Left(g)
    BY <1>1, <2>1, <2>3 DEF Succession, Provisioned
  <2> QED BY <2>2, <2>3
<1>5. ASSUME Outside
      PROVE  Line /\ \A e \in Epoch : Assigned(e)' /\ assignment'[e].state = "superseded" => Left(e)
  <2>1. UNCHANGED assignment
    BY <1>5 DEF Outside, ownershipVars
  <2> QED BY <1>1, <1>2, <2>1 DEF Succession, Assigned
<1> QED BY <1>3, <1>4, <1>5 DEF Next, Succession

-------------------------------------------------------------------------------
(***************************************************************************)
(* One CREATE, one timer.                                                  *)
(***************************************************************************)

\* What a native call does: it was not done before, and it puts the timer that
\* the operation wants, if any, in the place of what there was.
LEMMA RunEffect ==
    ASSUME TypeOK, CommandsAgree, NEW o \in Operation, Run(o)
    PROVE  /\ Reserved(o) /\ ~ran[o] /\ report[o] = "none"
           /\ ran' = [ran EXCEPT ![o] = TRUE]
           /\ \A p \in Operation : ran[p] => ran'[p]
           /\ \A t \in native' : \/ t \in native \ Target(o)
                                 \/ /\ request[o].family # "delete"
                                    /\ t = Desired(o)
           /\ Desired(o).epoch = request[o].epoch
           /\ Desired(o).content = request[o].wish
           /\ request[o].family # "create" => Target(o) # {}
<1>1. Reserved(o)
  BY DEF Run, CommandsAgree
<1>2. ~ran[o] /\ report[o] = "none"
  BY DEF Run, Delivery!Run, VerdictOf, TypeOK, Report
<1>3. Desired(o).epoch = request[o].epoch /\ Desired(o).content = request[o].wish
  BY DEF Desired
<1> QED BY <1>1, <1>2, <1>3 DEF Run, Produced, TypeOK

\* An edit puts another timer of the same epoch in the place of one.
LEMMA EditInPlace ==
    ASSUME TypeOK, NEW t \in native, NEW x \in Content, EditTimer(t, x)
    PROVE  \E r : /\ r.epoch = t.epoch
                 /\ r.content = x
                 /\ \A s \in native' : s \in native \ {t} \/ s = r
<1>1. t \in NativeType
  BY DEF TypeOK
<1> DEFINE r == [t EXCEPT !.content = x]
<1>2. r.epoch = t.epoch /\ r.content = x
  BY <1>1 DEF NativeType
<1>3. \A s \in native' : s \in native \ {t} \/ s = r
  BY DEF EditTimer
<1> HIDE DEF r
<1> QED BY <1>2, <1>3

\* What had its effect had it.
LEMMA RanStays ==
    ASSUME TypeOK, CommandsAgree, Next, NEW o \in Operation, ran[o]
    PROVE  ran'[o]
<1>1. CASE Ask \/ Poll
  <2>1. UNCHANGED ran
    BY <1>1, PollKeepsRequests DEF Ask, Schedule, Reassign, AdmitCreate, PrepareDelete,
            PrepareModify, Prepare, AdmitDraft, DropDraft, nativeVars
  <2> QED BY <2>1
<1>2. ASSUME NEW p \in Operation, Run(p) PROVE ran'[o]
  BY <1>2, RunEffect
<1> QED BY <1>1, <1>2 DEF Next, Outside, Permit, Settle, NewGeneration, RemoveTimer, EditTimer

LEMMA OneTimerLasts ==
    ASSUME TypeOK, CommandsAgree, OneTimer, TimersMade, BasesKnown, Next
    PROVE  OneTimer' /\ \A t \in native' : Made(t.epoch)'
<1> DEFINE Own(t) == \E o \in Operation : Creates(o, t.epoch) /\ ran'[o]
           Timers == /\ \A t \in native' : Own(t)
                     /\ \A s, t \in native' : s.epoch = t.epoch => s = t
<1>0. native \subseteq NativeType /\ \A t \in native : t.epoch \in Epoch
  BY DEF TypeOK, NativeType
<1>1. \A o \in Operation, e \in Epoch : Creates(o, e)' =>
        Assigned(e)' /\ assignment'[e].state # "selected"
  <2> SUFFICES ASSUME NEW o \in Operation, NEW e \in Epoch, Creates(o, e)'
               PROVE  Assigned(e)' /\ assignment'[e].state # "selected"
    OBVIOUS
  <2>1. CASE Provisioned(e)
    BY <2>1 DEF Provisioned
  <2>2. CASE Creates(o, e)
    <3>1. Assigned(e) /\ assignment[e].state # "selected"
      BY <2>2 DEF OneTimer
    <3>2. CASE Ask
      <4>1. CASE UNCHANGED assignment
        BY <3>1, <4>1 DEF Assigned
      <4>2. CASE FirstSelected
        BY <3>1, <4>2 DEF FirstSelected
      <4>3. ASSUME NEW f \in Epoch, Replaced(f) PROVE Assigned(e)' /\ assignment'[e].state # "selected"
        BY <3>1, <4>3 DEF Replaced, Assigned
      <4>4. ASSUME NEW f \in Epoch, Provisioned(f) PROVE Assigned(e)' /\ assignment'[e].state # "selected"
        BY <3>1, <4>4 DEF Provisioned, Assigned
      <4> QED BY <3>2, <4>1, <4>2, <4>3, <4>4, AskAssignments
    <3>3. CASE Poll
      BY <3>1, <3>3, PollAssignments
    <3>4. CASE Outside
      BY <3>1, <3>4 DEF Outside, ownershipVars, Assigned
    <3> QED BY <3>2, <3>3, <3>4 DEF Next
  <2> QED BY <2>1, <2>2, NewCreates
<1>2. ASSUME NEW o \in Operation, NEW p \in Operation, NEW e \in Epoch, Creates(o, e)', Creates(p, e)'
      PROVE  o = p
  <2>1. CASE Creates(o, e) /\ Creates(p, e)
    BY <2>1 DEF OneTimer
  <2>2. CASE Provisioned(e)
    <3>1. \A q \in Operation : ~Creates(q, e)
      BY <2>2 DEF Provisioned, OneTimer
    <3> QED BY <1>2, <3>1, NewCreates
  <2> QED BY <1>2, <2>1, <2>2, NewCreates
<1>3. \A o \in Operation : Reserved(o) => Reserved(o)' /\ request'[o] = request[o]
  BY RecordsStay
<1>4. ASSUME UNCHANGED <<native, ran>> PROVE Timers
  BY <1>4 DEF OneTimer, TimersMade, Made
<1>5. ASSUME NEW o \in Operation, Run(o) PROVE Timers
  <2>1. /\ Reserved(o) /\ ~ran[o]
        /\ ran' = [ran EXCEPT ![o] = TRUE]
        /\ \A p \in Operation : ran[p] => ran'[p]
        /\ \A t \in native' : t \in native \ Target(o) \/ t = Desired(o)
        /\ request[o].family # "create" => Target(o) # {}
    BY <1>5, RunEffect
  <2>2. Desired(o).epoch = request[o].epoch /\ request[o].epoch \in Epoch
    BY <2>1 DEF Desired, TypeOK, RequestType
  <2>3. ran'[o]
    BY <2>1 DEF TypeOK
  <2>4. \A t \in native : Own(t)
    BY <2>1 DEF TimersMade, Made
  <2>5. CASE request[o].family = "create"
    <3>1. Creates(o, request[o].epoch)
      BY <2>1, <2>5 DEF Creates
    <3>2. \A t \in native : t.epoch # request[o].epoch
      BY <2>1, <2>2, <3>1 DEF OneTimer, TimersMade, Made
    <3>3. Own(Desired(o))
      BY <2>2, <2>3, <3>1
    <3> HIDE DEF Own
    <3> QED BY <2>1, <2>2, <2>4, <3>2, <3>3 DEF OneTimer
  <2>6. CASE request[o].family # "create"
    <3>1. PICK s \in Target(o) : TRUE
      BY <2>1, <2>6
    <3>2. s \in native /\ s.epoch = request[o].epoch
      BY DEF Target
    <3>3. \A t \in native \ Target(o) : t.epoch # request[o].epoch
      BY <3>1, <3>2 DEF OneTimer
    <3>4. Own(Desired(o))
      BY <2>2, <2>4, <3>2
    <3> HIDE DEF Own
    <3> QED BY <2>1, <2>2, <2>4, <3>3, <3>4 DEF OneTimer
  <2> QED BY <2>5, <2>6
<1>6. ASSUME NEW t \in native, NEW x \in Content, EditTimer(t, x) PROVE Timers
  <2>1. \A s \in native : Own(s)
    BY <1>6 DEF TimersMade, Made, EditTimer
  <2>2. PICK r : r.epoch = t.epoch /\ \A s \in native' : s \in native \ {t} \/ s = r
    BY <1>6, EditInPlace
  <2>3. Own(r)
    BY <2>1, <2>2
  <2>4. \A s \in native \ {t} : s.epoch # t.epoch
    BY DEF OneTimer
  <2> HIDE DEF Own
  <2> QED BY <2>1, <2>2, <2>3, <2>4 DEF OneTimer
<1>7. ASSUME NEW t \in native, RemoveTimer(t) PROVE Timers
  BY <1>7 DEF OneTimer, TimersMade, Made, RemoveTimer
<1>8. Timers
  <2>1. CASE Ask
    BY <1>4, <2>1 DEF Ask, Schedule, Reassign, AdmitCreate, PrepareDelete, PrepareModify,
                      Prepare, AdmitDraft, DropDraft, nativeVars
  <2>2. CASE Poll
    BY <1>4, <2>2, PollKeepsRequests
  <2>3. CASE Outside
    BY <1>4, <1>5, <1>6, <1>7, <2>3 DEF Outside, Permit, Settle, NewGeneration
  <2> QED BY <2>1, <2>2, <2>3 DEF Next
<1>9. \A t \in native' : \E o \in Operation : Creates(o, t.epoch)' /\ ran'[o]
  BY <1>3, <1>8 DEF Creates
<1> QED BY <1>1, <1>2, <1>8, <1>9 DEF OneTimer, Made

\* What a CREATE made was made.
LEMMA MadeStays ==
    ASSUME TypeOK, CommandsAgree, Next, NEW e, Made(e)
    PROVE  Made(e)'
<1>1. PICK o \in Operation : Creates(o, e) /\ ran[o]
  BY DEF Made
<1>2. Creates(o, e)'
  BY <1>1, RecordsStay DEF Creates
<1>3. ran'[o]
  BY <1>1, RanStays
<1> QED BY <1>2, <1>3 DEF Made

\* What is seen was there, and what is bound was seen.
LEMMA TimersMadeLast ==
    ASSUME TypeOK, CommandsAgree, OneTimer, TimersMade, BasesKnown, Next
    PROVE  TimersMade'
<1> DEFINE Seen == ~Idle' => \A t \in visit'.seen :
                        t.epoch = request'[visit'.op].epoch /\ Made(t.epoch)
<1>1. \A t \in native' : Made(t.epoch)'
  BY OneTimerLasts
<1>2. Seen
  <2>1. CASE Poll
    <3>1. CASE Idle'
      BY <3>1
    <3>2. ASSUME NEW o \in Operation, GoesOn(o) PROVE Seen
      BY <2>1, <3>2, PollKeepsRequests DEF GoesOn, TimersMade
    <3> QED BY <2>1, <3>1, <3>2, PollVisits
  <2>2. CASE UNCHANGED visit
    <3>1. ~Idle => request'[visit.op] = request[visit.op]
      BY RecordsStay DEF TypeOK, VisitType
    <3> QED BY <2>2, <3>1 DEF TimersMade, Idle
  <2> QED BY <2>1, <2>2 DEF Next, Outside, Ask, Schedule, Reassign, AdmitCreate, PrepareDelete,
                            PrepareModify, Prepare, AdmitDraft, DropDraft
<1>3. ASSUME NEW e \in Epoch, Known(e)' PROVE Made(e)
  <2>1. CASE Known(e)
    BY <2>1 DEF TimersMade
  <2>2. ASSUME NEW o \in Operation, Rebound(e, o), ~Known(e) PROVE Made(e)
    <3>1. PICK t \in visit.seen : TRUE
      BY <2>2 DEF Rebound
    <3>2. ~Idle /\ visit.op = o /\ request[o].epoch = e
      BY <2>2 DEF Rebound, At
    <3> QED BY <3>1, <3>2 DEF TimersMade
  <2> QED BY <1>3, <2>1, <2>2, NextBindings DEF Known, Refreshed
<1> QED BY <1>1, <1>2, <1>3, MadeStays DEF TimersMade

-------------------------------------------------------------------------------
(***************************************************************************)
(* Visits and bindings.                                                    *)
(***************************************************************************)
LEMMA VisitsStay ==
    ASSUME TypeOK, CommandsAgree, OneTimer, TimersMade, VisitsStand, Next
    PROVE  VisitsStand'
<1> DEFINE Stands(o) == /\ At(o, "verify")' \/ At(o, "close")' => state'[o] \in Unresolved
                        /\ At(o, "bind")' => Is(o, "create", Unresolved)' /\ ran'[o]
<1> SUFFICES ASSUME NEW o \in Operation PROVE Stands(o)
  BY DEF VisitsStand
<1>1. CASE Ask
  <2>1. UNCHANGED <<visit, ran>>
    BY <1>1 DEF Ask, Schedule, Reassign, AdmitCreate, PrepareDelete, PrepareModify, Prepare,
                AdmitDraft, DropDraft, nativeVars
  <2>2. CASE Reserved(o)
    <3>1. state'[o] = state[o] /\ request'[o] = request[o]
      BY <1>1, <2>2, AskJournal DEF journalVars
    <3> QED BY <2>1, <3>1 DEF VisitsStand, At, Idle, Is
  <2>3. CASE ~Reserved(o)
    BY <2>1, <2>3 DEF TypeOK, At, Idle
  <2> QED BY <2>2, <2>3
<1>2. CASE Poll
  <2>1. UNCHANGED <<request, ran>>
    BY <1>2, PollKeepsRequests
  <2>2. CASE Idle'
    BY <2>2 DEF At
  <2>3. ASSUME NEW p \in Operation, GoesOn(p) PROVE Stands(o)
    <3>1. At(o, "bind")' => state[o] \in Unresolved
      BY <2>3 DEF At, VisitsStand, GoesOn
    <3> QED BY <2>1, <2>3, <3>1 DEF At, Is, GoesOn
  <2> QED BY <1>2, <2>2, <2>3, PollVisits
<1>3. CASE Outside
  <2>1. UNCHANGED <<visit, state, request>>
    BY <1>3 DEF Outside, journalVars
  <2>2. ran[o] => ran'[o]
    BY RanStays
  <2> QED BY <2>1, <2>2 DEF VisitsStand, At, Idle, Is
<1> QED BY <1>1, <1>2, <1>3 DEF Next

LEMMA BindingsStayOwn ==
    ASSUME TypeOK, TypeOK', CommandsAgree, BindingsOwn, Next
    PROVE  BindingsOwn'
<1> SUFFICES ASSUME NEW e \in Epoch, Known(e)', NEW o, o = binding'[e].verifiedBy
             PROVE  /\ Reserved(o)'
                    /\ request'[o].epoch = e
                    /\ binding'[e].missing \/ binding'[e].content = request'[o].wish
                    /\ request'[o].family # "create" => request'[o].rev < binding'[e].rev
  BY DEF BindingsOwn
<1>1. binding'[e] \in BindingType
  BY DEF TypeOK, Known
<1>2. o \in Operation /\ binding'[e].rev \in Nat
  BY <1>1 DEF BindingType
<1>3. CASE binding'[e] = binding[e]
  <2>1. Known(e) /\ o = binding[e].verifiedBy
    BY <1>3 DEF Known
  <2>2. Reserved(o)
    BY <2>1 DEF BindingsOwn
  <2>3. Reserved(o)' /\ request'[o] = request[o]
    BY <1>2, <2>2, RecordsStay
  <2> QED BY <1>3, <2>1, <2>3 DEF BindingsOwn
<1>4. CASE Refreshed(e)
  <2>1. Known(e) /\ o = binding[e].verifiedBy
    BY <1>4 DEF Refreshed
  <2>2. /\ Reserved(o) /\ request[o].epoch = e
        /\ binding[e].missing \/ binding[e].content = request[o].wish
        /\ request[o].family # "create" => request[o].rev < binding[e].rev
    BY <2>1 DEF BindingsOwn
  <2>3. Reserved(o)' /\ request'[o] = request[o]
    BY <1>2, <2>2, RecordsStay
  <2>4. request[o].rev \in Nat /\ binding[e].rev \in Nat
    BY <1>2, <2>1, <2>2 DEF TypeOK, RequestType, BindingType, Known
  <2> QED BY <1>4, <2>2, <2>3, <2>4 DEF Refreshed
<1>5. ASSUME NEW p \in Operation, Rebound(e, p)
      PROVE  /\ Reserved(o)'
             /\ request'[o].epoch = e
             /\ binding'[e].missing \/ binding'[e].content = request'[o].wish
             /\ request'[o].family # "create" => request'[o].rev < binding'[e].rev
  <2>1. o = p /\ Reserved(o)
    BY <1>5 DEF Rebound
  <2>2. Reserved(o)' /\ request'[o] = request[o]
    BY <1>2, <2>1, RecordsStay
  <2>3. request[o].rev \in Nat
    BY <1>2, <2>1 DEF TypeOK, RequestType
  <2> QED BY <1>5, <2>1, <2>2, <2>3 DEF Rebound
<1> QED BY <1>3, <1>4, <1>5, NextBindings

\* A binding never goes away, and its revision only goes up.
LEMMA BindingGrows ==
    ASSUME TypeOK, Next, NEW e \in Epoch, Known(e)
    PROVE  Known(e)' /\ binding[e].rev <= binding'[e].rev
<1>1. binding[e].rev \in Nat
  BY DEF TypeOK, Known, BindingType
<1>2. CASE binding'[e] = binding[e]
  BY <1>1, <1>2 DEF Known
<1>3. CASE Refreshed(e)
  BY <1>1, <1>3 DEF Refreshed
<1>4. ASSUME NEW o \in Operation, Rebound(e, o)
      PROVE  Known(e)' /\ binding[e].rev <= binding'[e].rev
  BY <1>1, <1>4 DEF Rebound
<1> QED BY <1>2, <1>3, <1>4, NextBindings

LEMMA RestsStays ==
    ASSUME TypeOK, TypeOK', Next, NEW r \in RequestType, Rests(r)
    PROVE  binding'[r.epoch] # NoBinding /\ r.rev <= binding'[r.epoch].rev
<1>1. r.epoch \in Epoch /\ r.rev \in Nat
  BY DEF RequestType
<1> DEFINE e == r.epoch
<1>2. Known(e) /\ r.rev <= binding[e].rev
  BY DEF Rests
<1>3. binding'[e] # NoBinding /\ binding[e].rev <= binding'[e].rev
  BY <1>1, <1>2, BindingGrows DEF Known
<1>4. binding[e].rev \in Nat /\ binding'[e].rev \in Nat
  BY <1>1, <1>2, <1>3 DEF TypeOK, Known, BindingType
<1> QED BY <1>1, <1>2, <1>3, <1>4

LEMMA BasesStayKnown ==
    ASSUME TypeOK, TypeOK', CommandsAgree, BasesKnown, Next
    PROVE  BasesKnown'
<1> DEFINE Based(r) == binding'[r.epoch] # NoBinding /\ r.rev <= binding'[r.epoch].rev
<1>1. \A r \in RequestType : Rests(r) => Based(r)
  BY RestsStays
<1>2. draft # NoRequest => draft \in RequestType /\ draft.family # "create" /\ Rests(draft)
  BY DEF TypeOK, BasesKnown
<1>3. ASSUME NEW o \in Operation, Reserved(o)', request'[o].family # "create"
      PROVE  Based(request'[o])
  <2>1. CASE Reserved(o)
    <3>1. request'[o] = request[o] /\ request[o] \in RequestType
      BY <2>1, RecordsStay DEF TypeOK
    <3>2. Rests(request[o])
      BY <1>3, <2>1, <3>1 DEF BasesKnown
    <3> QED BY <1>1, <3>1, <3>2
  <2>2. CASE ~Reserved(o)
    <3>1. Ask
      BY <1>3, <2>2, PollKeepsRequests DEF Next, Outside, journalVars, Reserved
    <3>2. draft # NoRequest /\ request'[o] = draft
      BY <1>3, <2>2, <3>1, AskJournal DEF journalVars, Reserved
    <3> QED BY <1>1, <1>2, <3>2
  <2> QED BY <2>1, <2>2
<1>4. draft' # NoRequest => draft'.family # "create" /\ Based(draft')
  <2>1. ASSUME NEW e \in Epoch, NEW family \in {"delete", "modify"}, NEW x, Prepare(e, family, x)
        PROVE  draft'.family # "create" /\ Based(draft')
    <3>1. /\ draft'.family # "create" /\ draft'.epoch = e /\ draft'.rev = binding[e].rev
          /\ Known(e) /\ binding' = binding
      BY <2>1 DEF Prepare, Steady, ownershipVars
    <3>2. binding[e].rev \in Nat
      BY <3>1 DEF TypeOK, Known, BindingType
    <3> QED BY <3>1, <3>2 DEF Known
  <2>2. CASE UNCHANGED draft
    BY <1>1, <1>2, <2>2
  <2>3. CASE Ask
    BY <2>1, <2>2, <2>3 DEF Ask, Schedule, Reassign, AdmitCreate, PrepareDelete, PrepareModify,
                            AdmitDraft, DropDraft
  <2> QED BY <2>2, <2>3, PollKeepsRequests DEF Next, Outside
<1> QED BY <1>3, <1>4 DEF BasesKnown, Rests, Known

\* An operation that could have bound its assignment is unresolved until it has
\* succeeded: a CREATE is never closed as without effect.
LEMMA CreateStands ==
    ASSUME TypeOK, CommandsAgree, Next, NEW o \in Operation, NEW e \in Epoch,
           Creates(o, e), ran[o], state[o] \in Unresolved \cup {"succeeded"}
    PROVE  Creates(o, e)' /\ ran'[o] /\ state'[o] \in Unresolved \cup {"succeeded"}
<1>1. /\ Reserved(o) /\ request[o].family = "create" /\ request[o].epoch = e
  BY DEF Creates
<1>2. Creates(o, e)'
  BY <1>1, RecordsStay DEF Creates
<1>3. ran'[o]
  BY RanStays
<1>4. CASE Ask
  BY <1>1, <1>2, <1>3, <1>4, AskJournal DEF journalVars
<1>5. CASE Poll
  <2>1. state'[o] = state[o] \/ state'[o] = "succeeded"
    BY <1>1, <1>5, PollStates DEF Moves, Unresolved
  <2> QED BY <1>2, <1>3, <2>1
<1>6. CASE Outside
  BY <1>2, <1>3, <1>6 DEF Outside, journalVars
<1> QED BY <1>4, <1>5, <1>6 DEF Next

LEMMA BoundStays ==
    ASSUME TypeOK, CommandsAgree, VisitsStand, BoundByCreate, Next
    PROVE  BoundByCreate'
<1> DEFINE Bound(e) == \E o \in Operation :
                        /\ Creates(o, e)
                        /\ ran[o]
                        /\ state[o] \in Unresolved \cup {"succeeded"}
<1> SUFFICES ASSUME NEW e \in Epoch, Assigned(e)', assignment'[e].state = "bound"
             PROVE  /\ Known(e)'
                    /\ \E o \in Operation :
                        /\ Creates(o, e)'
                        /\ ran'[o]
                        /\ state'[o] \in Unresolved \cup {"succeeded"}
  BY DEF BoundByCreate
<1>1. Known(e) /\ Bound(e)
  <2>1. CASE Assigned(e) /\ assignment[e].state = "bound"
    BY <2>1 DEF BoundByCreate
  <2>2. CASE ~(Assigned(e) /\ assignment[e].state = "bound")
    <3>1. CASE Ask
      <4>1. CASE UNCHANGED assignment
        BY <2>2, <4>1 DEF Assigned
      <4>2. CASE FirstSelected
        BY <4>2 DEF FirstSelected
      <4>3. ASSUME NEW f \in Epoch, Replaced(f) PROVE FALSE
        BY <2>2, <4>3 DEF Replaced, Assigned
      <4>4. ASSUME NEW f \in Epoch, Provisioned(f) PROVE FALSE
        BY <2>2, <4>4 DEF Provisioned, Assigned
      <4> QED BY <3>1, <4>1, <4>2, <4>3, <4>4, AskAssignments
    <3>2. CASE Poll
      <4>1. Known(e) /\ \E o \in Operation : At(o, "bind") /\ request[o].epoch = e
        BY <2>2, <3>2, PollAssignments
      <4>2. PICK o \in Operation : At(o, "bind") /\ request[o].epoch = e
        BY <4>1
      <4>3. Is(o, "create", Unresolved) /\ ran[o]
        BY <4>2 DEF VisitsStand
      <4>4. Creates(o, e)
        BY <4>2, <4>3 DEF Creates, Is, Unresolved, Reserved
      <4> QED BY <4>1, <4>3, <4>4 DEF Is
    <3>3. CASE Outside
      BY <2>2, <3>3 DEF Outside, ownershipVars, Assigned
    <3> QED BY <3>1, <3>2, <3>3 DEF Next
  <2> QED BY <2>1, <2>2
<1> QED BY <1>1, BindingGrows, CreateStands

-------------------------------------------------------------------------------
(***************************************************************************)
(* The invariant, and what follows from it.                                *)
(***************************************************************************)
LEMMA InitOwnership == Init => OwnershipInv
<1> SUFFICES ASSUME Init PROVE OwnershipInv
  OBVIOUS
<1>1. /\ native = {} /\ draft = NoRequest /\ Idle
      /\ \A o \in Operation : ~Reserved(o)
      /\ \A e \in Epoch : ~Known(e) /\ ~Assigned(e)
  BY DEF Init, JournalInit, OwnershipInit, NativeInit, Idle, Known, Reserved, Assigned
<1> QED BY <1>1 DEF OwnershipInv, Succession, OneTimer, TimersMade, VisitsStand, BindingsOwn, BasesKnown,
                    BoundByCreate, Creates, At

LEMMA NextOwnership ==
    TimerInv /\ TimerInv' /\ OwnershipInv /\ [Next]_vars => OwnershipInv'
<1> SUFFICES ASSUME TimerInv, TimerInv', OwnershipInv, [Next]_vars PROVE OwnershipInv'
  OBVIOUS
<1>1. TypeOK /\ TypeOK' /\ CommandsAgree
  BY DEF TimerInv
<1>2. CASE Next
  <2>1. Succession'
    BY <1>1, <1>2, SuccessionLasts
  <2>2. /\ OneTimer' /\ TimersMade' /\ VisitsStand'
        /\ BindingsOwn' /\ BasesKnown' /\ BoundByCreate'
    BY <1>1, <1>2, OneTimerLasts, TimersMadeLast, VisitsStay, BindingsStayOwn, BasesStayKnown, BoundStays
    DEF OwnershipInv
  <2> QED BY <2>1, <2>2 DEF OwnershipInv
<1>3. CASE UNCHANGED vars
  <2> USE <1>3 DEF vars, journalVars, ownershipVars, nativeVars, Reserved, Known, Assigned, Idle,
                   At, Is, Creates, OwnershipInv
  <2>1. Succession'
    BY DEF Succession, Deleted
  <2>2. OneTimer' /\ TimersMade'
    BY DEF OneTimer, TimersMade, Made
  <2>3. VisitsStand' /\ BindingsOwn'
    BY DEF VisitsStand, BindingsOwn
  <2>4. BasesKnown' /\ BoundByCreate'
    BY DEF BasesKnown, Rests, BoundByCreate
  <2> QED BY <2>1, <2>2, <2>3, <2>4
<1> QED BY <1>2, <1>3

\* The invariant of ownership holds throughout: one assignment owns the intent,
\* it has one CREATE and one timer, seen or bound only when that CREATE made it,
\* and its binding is the work of its operations.
THEOREM OwnershipHolds == Spec => []OwnershipInv
  BY InvariantHolds, InitOwnership, NextOwnership, PTL DEF Spec

\* A bound assignment is bound to what its own CREATE, or a later operation on it,
\* made: no readback takes another timer for it (bindVerified, reconcile).
THEOREM BoundToOwn == Spec => []BoundByOwnOperation
<1>1. OwnershipInv => BoundByOwnOperation
  BY DEF OwnershipInv, BoundByCreate, BindingsOwn, BoundByOwnOperation, Creates
<1> QED BY <1>1, OwnershipHolds, PTL

\* What an admitted DELETE or MODIFY was admitted on is taken from it by another
\* operation's verification only, never by the passive refresh.
THEOREM BasesStand == Spec => BasisStands
<1> DEFINE Stands(o) ==
        Is(o, "delete", {"accepted", "dispatching"}) \/ Is(o, "modify", {"accepted", "dispatching"}) =>
            \/ BindingOf(o)' = BindingOf(o)
            \/ BindingOf(o)'.verifiedBy # BindingOf(o).verifiedBy
<1>1. TimerInv /\ OwnershipInv /\ [Next]_vars => [\A o \in Operation : Stands(o)]_vars
  <2> SUFFICES ASSUME TimerInv, OwnershipInv, Next, NEW o \in Operation,
                      \/ Is(o, "delete", {"accepted", "dispatching"})
                      \/ Is(o, "modify", {"accepted", "dispatching"})
               PROVE  \/ BindingOf(o)' = BindingOf(o)
                      \/ BindingOf(o)'.verifiedBy # BindingOf(o).verifiedBy
    OBVIOUS
  <2>1. /\ TypeOK /\ CommandsAgree
        /\ Reserved(o) /\ Open(o) /\ request[o].family # "create"
    BY DEF TimerInv, Is, Reserved, Open, Terminal
  <2>2. request'[o] = request[o] /\ request[o].epoch \in Epoch
    BY <2>1, RecordsStay DEF TypeOK, RequestType
  <2>3. Known(request[o].epoch)
    BY <2>1 DEF OwnershipInv, BasesKnown, Rests
  <2>4. ASSUME NEW e \in Epoch, e = request[o].epoch
        PROVE  binding'[e] = binding[e] \/ binding'[e].verifiedBy # binding[e].verifiedBy
    <3>1. ~Refreshed(e)
      BY <2>1, <2>4 DEF Refreshed
    <3>2. ASSUME NEW p \in Operation, Rebound(e, p)
          PROVE  binding'[e].verifiedBy # binding[e].verifiedBy
      <4>1. /\ request[p].family # "create" /\ binding[e].rev = request[p].rev
            /\ binding'[e].verifiedBy = p /\ Reserved(p)
        BY <2>3, <2>4, <3>2 DEF Rebound
      <4>2. request[p].rev \in Nat
        BY <2>1, <4>1 DEF TypeOK, RequestType
      <4>3. binding[e].verifiedBy # p
        BY <2>3, <2>4, <4>1, <4>2 DEF OwnershipInv, BindingsOwn
      <4> QED BY <4>1, <4>3
    <3> QED BY <2>1, <3>1, <3>2, NextBindings
  <2> QED BY <2>2, <2>4 DEF BindingOf
<1> QED BY <1>1, InvariantHolds, OwnershipHolds, PTL DEF Spec, BasisStands
===============================================================================
