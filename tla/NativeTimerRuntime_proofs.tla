------------------------ MODULE NativeTimerRuntime_proofs ------------------------
(***************************************************************************)
(* The timer runtime keeps its types, and the commands, reports and states *)
(* in step, for any number of operations, backends, epochs, contents,      *)
(* generations and upsets.                                                 *)
(***************************************************************************)
EXTENDS TimerInvariant, TLAPS

-------------------------------------------------------------------------------
(***************************************************************************)
(* What the two durable records do to their types.                         *)
(***************************************************************************)

\* An assignment stays one when its state and revision move on.
LEMMA AssignmentMoves ==
    ASSUME NEW a \in AssignmentType, NEW s \in AssignmentState
    PROVE  [a EXCEPT !.state = s, !.rev = @ + 1] \in AssignmentType
<1> DEFINE b == [a EXCEPT !.state = s]
<1>1. b \in AssignmentType /\ a.rev \in Nat
  BY DEF AssignmentType
<1>2. [b EXCEPT !.rev = a.rev + 1] \in AssignmentType
  <2> HIDE DEF b
  <2> QED BY <1>1 DEF AssignmentType
<1> QED BY <1>2

\* A binding stays one when it is marked absent.
LEMMA BindingMarked ==
    ASSUME NEW b \in BindingType, NEW gen \in Generation, NEW o \in Operation
    PROVE  [b EXCEPT !.rev = @ + 1, !.gen = gen, !.missing = TRUE, !.verifiedBy = o]
                \in BindingType
<1> DEFINE b1 == [b EXCEPT !.rev = b.rev + 1]
           b2 == [b1 EXCEPT !.gen = gen]
           b3 == [b2 EXCEPT !.missing = TRUE]
<1>1. b1 \in BindingType
  BY DEF BindingType
<1>2. b2 \in BindingType
  <2> HIDE DEF b1
  <2> QED BY <1>1 DEF BindingType
<1>3. b3 \in BindingType
  <2> HIDE DEF b2
  <2> QED BY <1>2 DEF BindingType
<1>4. [b3 EXCEPT !.verifiedBy = o] \in BindingType
  <2> HIDE DEF b3
  <2> QED BY <1>3 DEF BindingType
<1> QED BY <1>4

\* A move keeps the states of the operations states, and the requests.
LEMMA MoveType ==
    ASSUME TypeOK, NEW o \in Operation, NEW from, NEW to, Move(o, from, to)
    PROVE  /\ state' \in [Operation -> OperationState \cup {"none"}]
           /\ UNCHANGED request
           /\ \A p \in Operation : Reserved(p)' <=> Reserved(p)
           /\ state'[o] = to
           /\ \A p \in Operation \ {o} : state'[p] = state[p]
<1>1. to \in OperationState /\ from # "none" /\ to # "none"
  BY DEF Move, Allowed, Successors, OperationState
<1> QED BY <1>1 DEF Move, TypeOK, Reserved

\* A reservation gives one operation a request and the state accepted.
LEMMA ReserveType ==
    ASSUME TypeOK, NEW o \in Operation, NEW r \in RequestType, Reserve(o, r)
    PROVE  /\ state' \in [Operation -> OperationState \cup {"none"}]
           /\ request' \in [Operation -> RequestType \cup {NoRequest}]
           /\ \A p \in Operation : Reserved(p)' => request'[p] \in RequestType
           /\ \A p \in Operation : Reserved(p) => Reserved(p)'
           /\ state'[o] = "accepted" /\ request'[o] = r /\ ~Reserved(o)
           /\ \A p \in Operation \ {o} : state'[p] = state[p] /\ request'[p] = request[p]
  BY DEF Reserve, TypeOK, Reserved, OperationState

\* A visit of a reserved operation that goes on is well typed.
LEMMA ContinueType ==
    ASSUME NEW o \in Operation, Reserved(o)', NEW seen \in SUBSET NativeType,
           NEW at \in {"claim", "verify", "close", "bind", "complete"},
           Continue(o, at, seen)
    PROVE  ~Idle' => visit' \in VisitType /\ Reserved(visit.op)'
  BY DEF Continue, VisitType, Reserved

-------------------------------------------------------------------------------
(***************************************************************************)
(* Types.                                                                  *)
(***************************************************************************)
LEMMA AskTypes ==
    ASSUME TypeOK, Ask
    PROVE  TypeOK'
<1> USE OwnershipAssumption, NativeAssumption
<1>1. ASSUME NEW b \in Backend, Schedule(b) PROVE TypeOK'
  <2>1. assignment' \in [Epoch -> AssignmentType \cup {NoAssignment}]
    <3>1. Selected(b, agentGen[b]) \in AssignmentType
      BY <1>1 DEF Schedule, SchedulePrimary, TypeOK, Selected, AssignmentType, AssignmentState, Generation
    <3> QED BY <1>1, <3>1 DEF Schedule, SchedulePrimary, TypeOK
  <2> QED BY <1>1, <2>1 DEF Schedule, SchedulePrimary, TypeOK, journalVars, nativeVars, Reserved, Idle, VisitType
<1>2. ASSUME NEW e \in Epoch, NEW b \in Backend, Reassign(e, b) PROVE TypeOK'
  <2>1. assignment' \in [Epoch -> AssignmentType \cup {NoAssignment}]
    <3>1. Selected(b, agentGen[b]) \in AssignmentType
      BY <1>2 DEF Reassign, TypeOK, Selected, AssignmentType, AssignmentState, Generation
    <3>2. [assignment[e] EXCEPT !.state = "superseded", !.rev = @ + 1] \in AssignmentType
      <4>1. assignment[e] \in AssignmentType /\ "superseded" \in AssignmentState
        BY <1>2 DEF Reassign, TypeOK, Assigned, AssignmentState
      <4> QED BY <4>1, AssignmentMoves, Zenon
    <3> QED BY <1>2, <3>1, <3>2 DEF Reassign, Replace, TypeOK
  <2> QED BY <1>2, <2>1 DEF Reassign, Replace, TypeOK, journalVars, nativeVars, Reserved, Idle, VisitType
<1>3. ASSUME NEW e \in Epoch, NEW o \in Operation, NEW x \in Content, AdmitCreate(o, e, x)
      PROVE  TypeOK'
  <2> DEFINE r == [family |-> "create", epoch |-> e,
                   backend |-> assignment[e].backend, gen |-> assignment[e].gen,
                   rev |-> assignment'[e].rev, arev |-> assignment'[e].rev,
                   content |-> NoContent, wish |-> x]
  <2>1. /\ assignment' \in [Epoch -> AssignmentType \cup {NoAssignment}]
        /\ assignment'[e].rev \in Nat
    <3>1. [assignment[e] EXCEPT !.state = "provisioning", !.rev = @ + 1] \in AssignmentType
      BY <1>3 DEF AdmitCreate, BeginProvisioning, TypeOK, Assigned, AssignmentType, AssignmentState
    <3> QED BY <1>3, <3>1 DEF AdmitCreate, BeginProvisioning, TypeOK, AssignmentType
  <2>2. r \in RequestType
    BY <1>3, <2>1 DEF AdmitCreate, BeginProvisioning, TypeOK, Assigned, AssignmentType, RequestType, Family
  <2>3. Reserve(o, r)
    BY <1>3 DEF AdmitCreate
  <2> HIDE DEF r
  <2> QED
    BY <1>3, <2>1, <2>2, <2>3, ReserveType
    DEF AdmitCreate, BeginProvisioning, TypeOK, nativeVars, Idle, VisitType
<1>4. ASSUME NEW e \in Epoch, NEW family \in {"delete", "modify"},
             NEW x \in Content \cup {NoContent}, Prepare(e, family, x),
             family = "modify" => x \in Content /\ binding[e].content # x
      PROVE  TypeOK'
  <2>1. draft' \in RequestType
    BY <1>4 DEF Prepare, TypeOK, Assigned, Steady, Known, AssignmentType, BindingType, RequestType, Family
  <2> QED BY <1>4, <2>1 DEF Prepare, TypeOK, journalVars, ownershipVars, nativeVars, Reserved, Idle, VisitType
<1>5. ASSUME NEW o \in Operation, AdmitDraft(o) PROVE TypeOK'
  <2>1. draft \in RequestType
    BY <1>5 DEF AdmitDraft, TypeOK
  <2> QED
    BY <1>5, <2>1, ReserveType
    DEF AdmitDraft, TypeOK, ownershipVars, nativeVars, Idle, VisitType
<1>6. CASE DropDraft
  BY <1>6 DEF DropDraft, TypeOK, journalVars, ownershipVars, nativeVars, Reserved, Idle, VisitType
<1> QED
  BY <1>1, <1>2, <1>3, <1>4, <1>5, <1>6 DEF Ask, PrepareDelete, PrepareModify
\* The steps of one visit: three families of the same kinds of step.
LEMMA CreateTypes ==
    ASSUME TypeOK, NEW o \in Operation, CreateStep(o)
    PROVE  TypeOK'
<1> USE OwnershipAssumption, NativeAssumption
<1> DEFINE e == request[o].epoch
<1>0. ASSUME Reserved(o) PROVE e \in Epoch /\ request[o].gen \in Generation
  BY <1>0 DEF TypeOK, RequestType
<1>1. CASE ReserveCommand(o)
  <2>1. Reserved(o)' /\ {} \in SUBSET NativeType
    BY <1>1 DEF ReserveCommand, Is, Reserved, journalVars
  <2> QED
    BY <1>1, <2>1, ContinueType
    DEF ReserveCommand, TypeOK, journalVars, ownershipVars, Reserved, CommandStatus
<1>2. CASE ClaimCreate(o)
  <2> QED BY <1>2, MoveType DEF ClaimCreate, TypeOK, ownershipVars, nativeVars, Leave, Idle
<1>3. CASE Activate(o)
  BY <1>3 DEF Activate, TypeOK, journalVars, ownershipVars, Reserved, CommandStatus, Idle, VisitType
<1>4. CASE ApplyCreateResult(o)
  BY <1>4, MoveType DEF ApplyCreateResult, TypeOK, ownershipVars, nativeVars, Idle, VisitType
<1>5. CASE ReadCreated(o)
  <2>1. /\ Reserved(o)'
        /\ {t \in native : t.epoch = request[o].epoch} \in SUBSET NativeType
    BY <1>5 DEF ReadCreated, Is, Reserved, journalVars, TypeOK, Unresolved
  <2> QED
    BY <1>5, <2>1, ContinueType
    DEF ReadCreated, TypeOK, journalVars, ownershipVars, nativeVars, Reserved
<1>6. CASE VerifyCreated(o)
  <2>1. Reserved(o) /\ visit \in VisitType
    BY <1>6 DEF VerifyCreated, At, TypeOK
  <2>2. Reserved(o)' /\ {} \in SUBSET NativeType
    BY <1>6, <2>1 DEF VerifyCreated, Reserved, journalVars
  <2>3. binding' \in [Epoch -> BindingType \cup {NoBinding}] /\ UNCHANGED assignment
    <3>1. PICK t \in visit.seen :
            /\ t.content = request[o].wish
            /\ \/ CreateBinding(request[o].epoch, request[o].gen, t, o)
               \/ UNCHANGED ownershipVars
      BY <1>6 DEF VerifyCreated
    <3>2. t \in NativeType /\ t.content \in Content
      BY <2>1, <3>1 DEF VisitType, NativeType
    <3>3. [rev |-> 1, gen |-> request[o].gen, content |-> t.content,
           missing |-> FALSE, verifiedBy |-> o] \in BindingType
      BY <1>0, <2>1, <3>2 DEF BindingType
    <3> QED BY <1>0, <2>1, <3>1, <3>3 DEF CreateBinding, TypeOK, ownershipVars
  <2> QED
    BY <1>6, <2>2, <2>3, ContinueType
    DEF VerifyCreated, TypeOK, journalVars, nativeVars, Reserved
<1>7. CASE BindCreated(o)
  <2>1. Reserved(o) /\ Reserved(o)' /\ {} \in SUBSET NativeType
    BY <1>7 DEF BindCreated, At, TypeOK, Reserved, journalVars
  <2>2. assignment' \in [Epoch -> AssignmentType \cup {NoAssignment}] /\ UNCHANGED binding
    <3>1. CASE BindAssignment(e, request[o].gen, request[o].arev)
      <4>1. assignment[e] \in AssignmentType
        BY <1>0, <2>1, <3>1 DEF BindAssignment, Assigned, TypeOK
      <4>2. "bound" \in AssignmentState
        BY DEF AssignmentState
      <4>3. [assignment[e] EXCEPT !.state = "bound", !.rev = @ + 1] \in AssignmentType
        BY <4>1, <4>2, AssignmentMoves, Zenon
      <4> QED BY <3>1, <4>3, <1>0, <2>1 DEF BindAssignment, TypeOK
    <3>2. CASE UNCHANGED ownershipVars
      BY <3>2 DEF ownershipVars, TypeOK
    <3> QED BY <1>7, <3>1, <3>2 DEF BindCreated
  <2> QED
    BY <1>7, <2>1, <2>2, ContinueType
    DEF BindCreated, TypeOK, journalVars, nativeVars, Reserved
<1>8. CASE CompleteCreate(o)
  BY <1>8, MoveType DEF CompleteCreate, TypeOK, ownershipVars, nativeVars, Leave, Idle
<1> QED
  BY <1>1, <1>2, <1>3, <1>4, <1>5, <1>6, <1>7, <1>8 DEF CreateStep

LEMMA DeleteTypes ==
    ASSUME TypeOK, NEW o \in Operation, DeleteStep(o)
    PROVE  TypeOK'
<1> USE OwnershipAssumption, NativeAssumption
<1> DEFINE e == request[o].epoch
<1>0. ASSUME Reserved(o) PROVE e \in Epoch /\ request[o].gen \in Generation
  BY <1>0 DEF TypeOK, RequestType
<1>1. CASE AssignDelete(o)
  <2>1. Reserved(o)' /\ {} \in SUBSET NativeType
    BY <1>1 DEF AssignDelete, Is, Reserved, journalVars
  <2> QED
    BY <1>1, <2>1, ContinueType
    DEF AssignDelete, TypeOK, journalVars, ownershipVars, Reserved, CommandStatus
<1>2. CASE ClaimDelete(o)
  BY <1>2, MoveType DEF ClaimDelete, TypeOK, ownershipVars, nativeVars, Leave, Idle
<1>3. CASE ApplyDeleteResult(o)
  BY <1>3, MoveType DEF ApplyDeleteResult, TypeOK, ownershipVars, nativeVars, Idle, VisitType
<1>4. CASE ReadDeleted(o)
  <2>1. /\ Reserved(o)'
        /\ {t \in native : /\ t.epoch = request[o].epoch
                           /\ SameId(t.content, o)} \in SUBSET NativeType
    BY <1>4 DEF ReadDeleted, Is, Reserved, journalVars, TypeOK, Unresolved
  <2> QED
    BY <1>4, <2>1, ContinueType
    DEF ReadDeleted, TypeOK, journalVars, ownershipVars, nativeVars, Reserved
<1>5. CASE VerifyDeleted(o)
  <2>1. Reserved(o) /\ Reserved(o)' /\ {} \in SUBSET NativeType
    BY <1>5 DEF VerifyDeleted, At, TypeOK, Reserved, journalVars
  <2>2. binding' \in [Epoch -> BindingType \cup {NoBinding}] /\ UNCHANGED assignment
    <3>1. CASE MarkAbsent(e, request[o].gen, request[o].rev, o)
      <4>1. binding[e] \in BindingType
        BY <1>0, <2>1, <3>1 DEF MarkAbsent, Known, TypeOK
      <4>2. request[o].gen \in Generation
        BY <1>0, <2>1
      <4>3. [binding[e] EXCEPT !.rev = @ + 1, !.gen = request[o].gen,
                               !.missing = TRUE, !.verifiedBy = o] \in BindingType
        BY <4>1, <4>2, BindingMarked, Zenon
      <4> QED BY <3>1, <4>3, <1>0, <2>1 DEF MarkAbsent, TypeOK
    <3>2. CASE UNCHANGED ownershipVars
      BY <3>2 DEF ownershipVars, TypeOK
    <3> QED BY <1>5, <3>1, <3>2 DEF VerifyDeleted
  <2> QED
    BY <1>5, <2>1, <2>2, ContinueType
    DEF VerifyDeleted, TypeOK, journalVars, nativeVars, Reserved
<1>6. CASE CompleteDelete(o)
  BY <1>6, MoveType DEF CompleteDelete, TypeOK, ownershipVars, nativeVars, Leave, Idle
<1> QED
  BY <1>1, <1>2, <1>3, <1>4, <1>5, <1>6 DEF DeleteStep

LEMMA ModifyTypes ==
    ASSUME TypeOK, NEW o \in Operation, ModifyStep(o)
    PROVE  TypeOK'
<1> USE OwnershipAssumption, NativeAssumption
<1> DEFINE e == request[o].epoch
<1>0. ASSUME Reserved(o) PROVE e \in Epoch /\ request[o].gen \in Generation
  BY <1>0 DEF TypeOK, RequestType
<1>1. CASE ExpireModify(o)
  BY <1>1, MoveType DEF ExpireModify, TypeOK, ownershipVars, nativeVars, Idle, VisitType
<1>2. CASE AssignModify(o)
  <2>1. Reserved(o)' /\ {} \in SUBSET NativeType
    BY <1>2 DEF AssignModify, Is, Reserved, journalVars
  <2> QED
    BY <1>2, <2>1, ContinueType
    DEF AssignModify, TypeOK, journalVars, ownershipVars, Reserved, CommandStatus
<1>3. CASE ClaimModify(o)
  BY <1>3, MoveType DEF ClaimModify, TypeOK, ownershipVars, nativeVars, Leave, Idle
<1>4. CASE ApplyModifyResult(o)
  BY <1>4, MoveType DEF ApplyModifyResult, TypeOK, ownershipVars, nativeVars, Idle, VisitType
<1>5. CASE ReadModified(o)
  <2>1. Reserved(o)' /\ {} \in SUBSET NativeType
    BY <1>5 DEF ReadModified, Is, Reserved, journalVars, Unresolved
  <2>2. PICK t \in Observed(o) : Continue(o, "verify", {t}) \/ Continue(o, "close", {})
    BY <1>5 DEF ReadModified
  <2>3. {t} \in SUBSET NativeType
    BY <2>2 DEF Observed, TypeOK
  <2> QED
    BY <1>5, <2>1, <2>2, <2>3, ContinueType
    DEF ReadModified, TypeOK, journalVars, ownershipVars, nativeVars, Reserved
<1>6. CASE CloseUnchanged(o)
  BY <1>6, MoveType DEF CloseUnchanged, TypeOK, ownershipVars, nativeVars, Leave, Idle
<1>7. CASE VerifyModified(o)
  <2>1. Reserved(o) /\ visit \in VisitType
    BY <1>7 DEF VerifyModified, At, TypeOK
  <2>2. Reserved(o)' /\ {} \in SUBSET NativeType
    BY <1>7, <2>1 DEF VerifyModified, Reserved, journalVars
  <2>3. binding' \in [Epoch -> BindingType \cup {NoBinding}] /\ UNCHANGED assignment
    <3>1. PICK t \in visit.seen :
            /\ t.content = request[o].wish
            /\ \/ RecordChange(e, request[o].gen, request[o].rev, t, o)
               \/ UNCHANGED ownershipVars
      BY <1>7 DEF VerifyModified
    <3>2. t \in NativeType /\ t.content \in Content
      BY <2>1, <3>1 DEF VisitType, NativeType
    <3>3. [rev |-> request[o].rev + 1, gen |-> request[o].gen,
           content |-> t.content, missing |-> FALSE, verifiedBy |-> o] \in BindingType
      BY <1>0, <2>1, <3>2 DEF BindingType, TypeOK, RequestType
    <3> QED BY <1>0, <2>1, <3>1, <3>3 DEF RecordChange, TypeOK, ownershipVars
  <2> QED
    BY <1>7, <2>2, <2>3, ContinueType
    DEF VerifyModified, TypeOK, journalVars, nativeVars, Reserved
<1>8. CASE CompleteModify(o)
  BY <1>8, MoveType DEF CompleteModify, TypeOK, ownershipVars, nativeVars, Leave, Idle
<1> QED
  BY <1>1, <1>2, <1>3, <1>4, <1>5, <1>6, <1>7, <1>8 DEF ModifyStep
\* The passive refresh and the end of a visit.
LEMMA PollTypes ==
    ASSUME TypeOK, Poll
    PROVE  TypeOK'
<1>1. ASSUME NEW e \in Epoch, Refresh(e) PROVE TypeOK'
  <2> DEFINE gen == agentGen[assignment[e].backend]
  <2>1. assignment[e] \in AssignmentType /\ binding[e] \in BindingType
    BY <1>1 DEF Refresh, Assigned, Steady, Known, TypeOK
  <2>2. gen \in Generation
    BY <2>1, NativeAssumption DEF AssignmentType, TypeOK, Generation
  <2>3. [binding[e] EXCEPT !.rev = @ + 1, !.gen = gen] \in BindingType
    <3> DEFINE b1 == [binding[e] EXCEPT !.rev = binding[e].rev + 1]
    <3>1. b1 \in BindingType
      BY <2>1 DEF BindingType
    <3>2. [b1 EXCEPT !.gen = gen] \in BindingType
      <4> HIDE DEF b1, gen
      <4> QED BY <3>1, <2>2 DEF BindingType
    <3> QED BY <3>2
  <2>4. [assignment[e] EXCEPT !.gen = gen, !.rev = @ + 1] \in AssignmentType
    <3> DEFINE a1 == [assignment[e] EXCEPT !.gen = gen]
    <3>1. a1 \in AssignmentType /\ assignment[e].rev \in Nat
      BY <2>1, <2>2 DEF AssignmentType
    <3>2. [a1 EXCEPT !.rev = assignment[e].rev + 1] \in AssignmentType
      <4> HIDE DEF a1, gen
      <4> QED BY <3>1, <2>2 DEF AssignmentType
    <3> QED BY <3>2
  <2>5. /\ binding' \in [Epoch -> BindingType \cup {NoBinding}]
        /\ assignment' \in [Epoch -> AssignmentType \cup {NoAssignment}]
    BY <1>1, <2>3, <2>4 DEF Refresh, PassiveRefresh, TypeOK
  <2> QED BY <1>1, <2>5 DEF Refresh, TypeOK, journalVars, nativeVars, Reserved, Idle
<1>2. CASE Abandon
  BY <1>2 DEF Abandon, Leave, Idle, TypeOK, journalVars, ownershipVars, nativeVars, Reserved
<1> QED
  BY <1>1, <1>2, CreateTypes, DeleteTypes, ModifyTypes DEF Poll

LEMMA OutsideTypes ==
    ASSUME TypeOK, CommandsAgree, Outside
    PROVE  TypeOK'
<1> USE OwnershipAssumption, NativeAssumption
<1>0. UNCHANGED <<journalVars, ownershipVars, draft, visit>>
  BY DEF Outside
<1> DEFINE Goal == /\ agentGen' \in [Backend -> 1..(1 + upsets')]
                   /\ command' \in [Operation -> CommandStatus]
                   /\ ran' \in [Operation -> BOOLEAN]
                   /\ report' \in [Operation -> Report]
                   /\ native' \subseteq NativeType
                   /\ edits' \subseteq [epoch : Epoch, from : Content, to : Content]
                   /\ upsets' \in 0..MaxUpsets
<1>1. ASSUME NEW o \in Operation, Permit(o) PROVE Goal
  BY <1>1 DEF Permit, TypeOK, CommandStatus
<1>2. ASSUME NEW o \in Operation, Run(o) PROVE Goal
  <2>1. Produced(o) \subseteq NativeType
    <3>1. Reserved(o)
      BY <1>2 DEF Run, CommandsAgree
    <3>2. request[o].family # "delete" => Desired(o) \in NativeType
      BY <3>1 DEF Desired, NativeType, TypeOK, RequestType
    <3> QED BY <3>2 DEF Produced
  <2> QED BY <1>2, <2>1 DEF Run, TypeOK
<1>3. ASSUME NEW o \in Operation, NEW r \in Report, Settle(o, r) PROVE Goal
  BY <1>3 DEF Settle, TypeOK
<1>4. ASSUME NEW b \in Backend, NewGeneration(b) PROVE Goal
  BY <1>4 DEF NewGeneration, TypeOK
<1>5. ASSUME NEW t \in native, RemoveTimer(t) PROVE Goal
  BY <1>5 DEF RemoveTimer, TypeOK
<1>6. ASSUME NEW t \in native, NEW x \in Content, EditTimer(t, x) PROVE Goal
  <2>1. t \in NativeType
    BY DEF TypeOK
  <2>2. /\ [t EXCEPT !.content = x] \in NativeType
        /\ [epoch |-> t.epoch, from |-> t.content, to |-> x]
                \in [epoch : Epoch, from : Content, to : Content]
    BY <2>1 DEF NativeType
  <2> QED BY <1>6, <2>2 DEF EditTimer, TypeOK
<1> QED
  BY <1>0, <1>1, <1>2, <1>3, <1>4, <1>5, <1>6
  DEF Outside, TypeOK, journalVars, ownershipVars, Reserved, Idle
-------------------------------------------------------------------------------
(***************************************************************************)
(* Commands, reports and states.                                           *)
(***************************************************************************)

\* What a durable result makes of an operation.
LEMMA OutcomeRange ==
    ASSUME TypeOK, NEW o \in Operation, report[o] # "none"
    PROVE  /\ Outcome(o) \in {"failed_verified"} \cup Unresolved
           /\ Outcome(o) = "failed_verified" <=> report[o] = "refused"
  BY DEF Outcome, TypeOK, Report, Unresolved

\* A move out of one of these states to a state its report allows agrees with
\* the commands, which stand still.
LEMMA MoveAgrees ==
    ASSUME TypeOK, CommandsAgree, NEW o \in Operation, NEW from, NEW to,
           Move(o, from, to), UNCHANGED <<command, ran, report>>,
           \/ to = "dispatching"
           \/ (to = "failed_before_dispatch" /\ command[o] = "none")
           \/ (to \in {"succeeded", "failed_verified"} \cup Unresolved /\ report[o] # "none"),
           to = "failed_verified" => request[o].family = "modify" \/ ~ran[o]
    PROVE  CommandsAgree'
<1> SUFFICES ASSUME NEW p \in Operation
             PROVE  /\ command[p] # "none" => Reserved(p)'
                    /\ ran[p] => command[p] = "received"
                    /\ report[p] # "none" => command[p] = "received"
                    /\ report[p] = "refused" => ~ran[p]
                    /\ state'[p] \in {"none", "accepted", "dispatching",
                        "failed_before_dispatch", "succeeded", "failed_verified"} \cup Unresolved
                    /\ state'[p] = "failed_before_dispatch" => command[p] = "none"
                    /\ state'[p] \in {"succeeded", "failed_verified"} \cup Unresolved =>
                            report[p] # "none"
                    /\ Is(p, "create", {"accepted"})' => command[p] \in {"none", "reserved"}
                    /\ state'[p] = "failed_verified" => request'[p].family = "modify" \/ ~ran[p]
  BY DEF CommandsAgree
<1>1. CASE p = o
  BY <1>1, MoveType DEF CommandsAgree, Is, Unresolved
<1>2. CASE p # o
  BY <1>2, MoveType DEF CommandsAgree, Is
<1> QED BY <1>1, <1>2

\* A reservation agrees: the new operation has no command.
LEMMA ReserveAgrees ==
    ASSUME TypeOK, CommandsAgree, NEW o \in Operation, NEW r \in RequestType,
           Reserve(o, r), UNCHANGED <<command, ran, report>>
    PROVE  CommandsAgree'
<1>1. command[o] = "none" /\ ~ran[o] /\ report[o] = "none"
  BY ReserveType DEF CommandsAgree, TypeOK
<1> QED BY <1>1, ReserveType DEF CommandsAgree, Is, Unresolved, Reserved

LEMMA AskAgrees ==
    ASSUME TypeOK, CommandsAgree, Ask
    PROVE  CommandsAgree'
<1>1. ASSUME NEW e \in Epoch, NEW o \in Operation, NEW x \in Content, AdmitCreate(o, e, x)
      PROVE  CommandsAgree'
  <2> DEFINE r == [family |-> "create", epoch |-> e,
                   backend |-> assignment[e].backend, gen |-> assignment[e].gen,
                   rev |-> assignment'[e].rev, arev |-> assignment'[e].rev,
                   content |-> NoContent, wish |-> x]
  <2>1. Reserve(o, r) /\ UNCHANGED <<command, ran, report>>
    BY <1>1 DEF AdmitCreate, nativeVars
  <2>2. assignment[e] \in AssignmentType /\ assignment'[e].rev \in Nat
    <3>1. assignment[e] \in AssignmentType
      BY <1>1 DEF AdmitCreate, BeginProvisioning, Assigned, TypeOK
    <3>2. [assignment[e] EXCEPT !.state = "provisioning", !.rev = @ + 1] \in AssignmentType
      <4>1. "provisioning" \in AssignmentState
        BY DEF AssignmentState
      <4> QED BY <3>1, <4>1, AssignmentMoves, Zenon
    <3>3. assignment'[e] \in AssignmentType
      BY <3>2, <1>1 DEF AdmitCreate, BeginProvisioning, TypeOK
    <3> QED BY <3>1, <3>3 DEF AssignmentType
  <2>3. r \in RequestType
    BY <2>2 DEF AssignmentType, RequestType, Family
  <2> HIDE DEF r
  <2> QED BY <2>1, <2>3, ReserveAgrees
<1>2. ASSUME NEW o \in Operation, AdmitDraft(o) PROVE CommandsAgree'
  BY <1>2, ReserveAgrees DEF AdmitDraft, nativeVars, TypeOK
<1>3. CASE UNCHANGED <<journalVars, nativeVars>>
  BY <1>3 DEF journalVars, nativeVars, CommandsAgree, Reserved, Is
<1> QED
  BY <1>1, <1>2, <1>3
  DEF Ask, Schedule, Reassign, PrepareDelete, PrepareModify, Prepare, DropDraft

LEMMA PollAgrees ==
    ASSUME TypeOK, CommandsAgree, Poll
    PROVE  CommandsAgree'
<1>1. ASSUME NEW o \in Operation, CreateStep(o) PROVE CommandsAgree'
  <2>1. CASE ReserveCommand(o) \/ Activate(o)
    <3>1. UNCHANGED <<request, state, ran, report>>
      BY <2>1 DEF ReserveCommand, Activate, journalVars
    <3>2. \/ state[o] = "accepted" /\ command'[o] = "reserved" /\ command[o] \in {"none", "reserved"}
          \/ state[o] = "dispatching" /\ command'[o] = "live" /\ command[o] = "reserved"
      BY <2>1 DEF ReserveCommand, Activate, TypeOK, Is
    <3>3. \A p \in Operation \ {o} : command'[p] = command[p]
      BY <2>1 DEF ReserveCommand, Activate, TypeOK
    <3> QED BY <3>1, <3>2, <3>3 DEF CommandsAgree, Reserved, Is, Unresolved
  <2>2. CASE ClaimCreate(o)
    BY <2>2, MoveAgrees DEF ClaimCreate, nativeVars
  <2>3. CASE ApplyCreateResult(o)
    <3>1. Outcome(o) = "failed_verified" => ~ran[o]
      BY <2>3, OutcomeRange DEF ApplyCreateResult, CommandsAgree
    <3> QED BY <2>3, <3>1, MoveAgrees, OutcomeRange DEF ApplyCreateResult, nativeVars
  <2>4. CASE CompleteCreate(o)
    <3>1. PICK from \in Unresolved : Move(o, from, "succeeded")
      BY <2>4 DEF CompleteCreate
    <3>2. report[o] # "none"
      BY <3>1 DEF Move, CommandsAgree
    <3> QED BY <2>4, <3>1, <3>2, MoveAgrees DEF CompleteCreate, nativeVars
  <2>5. CASE ReadCreated(o) \/ VerifyCreated(o) \/ BindCreated(o)
    BY <2>5 DEF ReadCreated, VerifyCreated, BindCreated, journalVars, nativeVars, CommandsAgree, Reserved, Is
  <2> QED BY <1>1, <2>1, <2>2, <2>3, <2>4, <2>5 DEF CreateStep
<1>2. ASSUME NEW o \in Operation, AssignDelete(o) \/ AssignModify(o) PROVE CommandsAgree'
  <2>1. UNCHANGED <<request, state, ran, report>>
    BY <1>2 DEF AssignDelete, AssignModify, journalVars
  <2>2. /\ state[o] = "accepted" /\ request[o].family # "create"
        /\ command'[o] = IF command[o] = "none" THEN "live" ELSE command[o]
    BY <1>2 DEF AssignDelete, AssignModify, TypeOK, Is
  <2>3. \A p \in Operation \ {o} : command'[p] = command[p]
    BY <1>2 DEF AssignDelete, AssignModify, TypeOK
  <2> QED BY <2>1, <2>2, <2>3 DEF CommandsAgree, Reserved, Is, Unresolved
<1>3. ASSUME NEW o \in Operation, DeleteStep(o) PROVE CommandsAgree'
  <2>1. CASE ClaimDelete(o)
    BY <2>1, MoveAgrees DEF ClaimDelete, nativeVars
  <2>2. CASE ApplyDeleteResult(o)
    <3>1. Outcome(o) = "failed_verified" => ~ran[o]
      BY <2>2, OutcomeRange DEF ApplyDeleteResult, CommandsAgree
    <3> QED BY <2>2, <3>1, MoveAgrees, OutcomeRange DEF ApplyDeleteResult, nativeVars
  <2>3. CASE CompleteDelete(o)
    <3>1. PICK from \in Unresolved : Move(o, from, "succeeded")
      BY <2>3 DEF CompleteDelete
    <3>2. report[o] # "none"
      BY <3>1 DEF Move, CommandsAgree
    <3> QED BY <2>3, <3>1, <3>2, MoveAgrees DEF CompleteDelete, nativeVars
  <2>4. CASE ReadDeleted(o) \/ VerifyDeleted(o)
    BY <2>4 DEF ReadDeleted, VerifyDeleted, journalVars, nativeVars, CommandsAgree, Reserved, Is
  <2> QED BY <1>2, <1>3, <2>1, <2>2, <2>3, <2>4 DEF DeleteStep
<1>4. ASSUME NEW o \in Operation, ModifyStep(o) PROVE CommandsAgree'
  <2>1. CASE ExpireModify(o)
    BY <2>1, MoveAgrees DEF ExpireModify, nativeVars
  <2>2. CASE ClaimModify(o)
    BY <2>2, MoveAgrees DEF ClaimModify, nativeVars
  <2>3. CASE ApplyModifyResult(o)
    <3>1. Outcome(o) = "failed_verified" => ~ran[o]
      BY <2>3, OutcomeRange DEF ApplyModifyResult, CommandsAgree
    <3> QED BY <2>3, <3>1, MoveAgrees, OutcomeRange DEF ApplyModifyResult, nativeVars
  <2>4. CASE CloseUnchanged(o)
    <3>1. report[o] # "none"
      BY <2>4 DEF CloseUnchanged, Move, CommandsAgree, Unresolved
    <3> QED BY <2>4, <3>1, MoveAgrees DEF CloseUnchanged, nativeVars
  <2>5. CASE CompleteModify(o)
    <3>1. PICK from \in Unresolved : Move(o, from, "succeeded")
      BY <2>5 DEF CompleteModify
    <3>2. report[o] # "none"
      BY <3>1 DEF Move, CommandsAgree
    <3> QED BY <2>5, <3>1, <3>2, MoveAgrees DEF CompleteModify, nativeVars
  <2>6. CASE ReadModified(o) \/ VerifyModified(o)
    BY <2>6 DEF ReadModified, VerifyModified, journalVars, nativeVars, CommandsAgree, Reserved, Is
  <2> QED BY <1>2, <1>4, <2>1, <2>2, <2>3, <2>4, <2>5, <2>6 DEF ModifyStep
<1>5. CASE (\E e \in Epoch : Refresh(e)) \/ Abandon
  BY <1>5 DEF Refresh, Abandon, journalVars, nativeVars, CommandsAgree, Reserved, Is
<1> QED BY <1>1, <1>3, <1>4, <1>5 DEF Poll

LEMMA OutsideAgrees ==
    ASSUME TypeOK, CommandsAgree, Outside
    PROVE  CommandsAgree'
<1>0. UNCHANGED <<request, state>>
  BY DEF Outside, journalVars
<1>1. ASSUME NEW o \in Operation, Permit(o) PROVE CommandsAgree'
  BY <1>0, <1>1 DEF Permit, CommandsAgree, TypeOK, Reserved, Is, Unresolved
<1>2. ASSUME NEW o \in Operation, Run(o) PROVE CommandsAgree'
  <2>1. report[o] = "none" /\ state[o] # "failed_verified"
    BY <1>2 DEF Run, Delivery!Run, VerdictOf, CommandsAgree
  <2> QED BY <1>0, <1>2, <2>1 DEF Run, CommandsAgree, TypeOK, Reserved, Is
<1>3. ASSUME NEW o \in Operation, NEW r \in Report, Settle(o, r) PROVE CommandsAgree'
  <2>1. r = "refused" => ~ran[o]
    BY <1>3 DEF Settle, Delivery!Settle, VerdictOf
  <2> QED BY <1>0, <1>3, <2>1 DEF Settle, CommandsAgree, TypeOK, Reserved, Is
<1>4. CASE UNCHANGED <<command, ran, report>>
  BY <1>0, <1>4 DEF CommandsAgree, Reserved, Is
<1> QED
  BY <1>1, <1>2, <1>3, <1>4 DEF Outside, NewGeneration, RemoveTimer, EditTimer
\* No handler and no visit makes a reserved operation unreserved or changes what
\* it asks for.
LEMMA PollKeepsRequests ==
    ASSUME TypeOK, Poll
    PROVE  /\ UNCHANGED <<request, ran, report, native, edits, draft>>
           /\ \A o \in Operation : Reserved(o)' <=> Reserved(o)
<1>1. ASSUME NEW o \in Operation, NEW from, NEW to, Move(o, from, to)
      PROVE  /\ UNCHANGED request
             /\ \A p \in Operation : Reserved(p)' <=> Reserved(p)
  BY <1>1, MoveType
<1>2. ASSUME NEW o \in Operation, CreateStep(o)
      PROVE  /\ UNCHANGED <<request, ran, report, native, edits, draft>>
             /\ \A p \in Operation : Reserved(p)' <=> Reserved(p)
  <2>1. CASE ClaimCreate(o) \/ ApplyCreateResult(o) \/ CompleteCreate(o)
    BY <1>1, <2>1 DEF ClaimCreate, ApplyCreateResult, CompleteCreate, nativeVars
  <2>2. CASE ReserveCommand(o) \/ Activate(o) \/ ReadCreated(o) \/ VerifyCreated(o) \/ BindCreated(o)
    BY <2>2 DEF ReserveCommand, Activate, ReadCreated, VerifyCreated, BindCreated,
                journalVars, nativeVars, Reserved
  <2> QED BY <1>2, <2>1, <2>2 DEF CreateStep
<1>3. ASSUME NEW o \in Operation, DeleteStep(o)
      PROVE  /\ UNCHANGED <<request, ran, report, native, edits, draft>>
             /\ \A p \in Operation : Reserved(p)' <=> Reserved(p)
  <2>1. CASE ClaimDelete(o) \/ ApplyDeleteResult(o) \/ CompleteDelete(o)
    BY <1>1, <2>1 DEF ClaimDelete, ApplyDeleteResult, CompleteDelete, nativeVars
  <2>2. CASE AssignDelete(o) \/ ReadDeleted(o) \/ VerifyDeleted(o)
    BY <2>2 DEF AssignDelete, ReadDeleted, VerifyDeleted, journalVars, nativeVars, Reserved
  <2> QED BY <1>3, <2>1, <2>2 DEF DeleteStep
<1>4. ASSUME NEW o \in Operation, ModifyStep(o)
      PROVE  /\ UNCHANGED <<request, ran, report, native, edits, draft>>
             /\ \A p \in Operation : Reserved(p)' <=> Reserved(p)
  <2>1. CASE \/ ExpireModify(o) \/ ClaimModify(o) \/ ApplyModifyResult(o)
             \/ CloseUnchanged(o) \/ CompleteModify(o)
    BY <1>1, <2>1 DEF ExpireModify, ClaimModify, ApplyModifyResult, CloseUnchanged,
                      CompleteModify, nativeVars
  <2>2. CASE AssignModify(o) \/ ReadModified(o) \/ VerifyModified(o)
    BY <2>2 DEF AssignModify, ReadModified, VerifyModified, journalVars, nativeVars, Reserved
  <2> QED BY <1>4, <2>1, <2>2 DEF ModifyStep
<1>5. CASE (\E e \in Epoch : Refresh(e)) \/ Abandon
  BY <1>5 DEF Refresh, Abandon, journalVars, nativeVars, Reserved
<1> QED BY <1>2, <1>3, <1>4, <1>5 DEF Poll

-------------------------------------------------------------------------------
(***************************************************************************)
(* The invariant, and what follows from it.                                *)
(***************************************************************************)
LEMMA InitInv == Init => TimerInv
<1> SUFFICES ASSUME Init PROVE TimerInv
  OBVIOUS
<1>1. TypeOK
  <2>1. /\ request \in [Operation -> RequestType \cup {NoRequest}]
        /\ state \in [Operation -> OperationState \cup {"none"}]
    BY DEF Init, JournalInit
  <2>2. /\ assignment \in [Epoch -> AssignmentType \cup {NoAssignment}]
        /\ binding \in [Epoch -> BindingType \cup {NoBinding}]
    BY DEF Init, OwnershipInit
  <2>3. /\ agentGen \in [Backend -> 1..(1 + upsets)]
        /\ upsets \in 0..MaxUpsets
        /\ native \subseteq NativeType
        /\ edits \subseteq [epoch : Epoch, from : Content, to : Content]
    <3>1. upsets = 0 /\ native = {} /\ edits = {} /\ agentGen = [b \in Backend |-> 1]
      BY DEF Init, NativeInit
    <3> QED BY <3>1, NativeAssumption
  <2>4. /\ command \in [Operation -> CommandStatus]
        /\ ran \in [Operation -> BOOLEAN]
        /\ report \in [Operation -> Report]
    BY DEF Init, NativeInit, CommandStatus, Report
  <2>5. \A o \in Operation : ~Reserved(o)
    BY DEF Init, JournalInit, Reserved
  <2>6. draft \in RequestType \cup {NoRequest} /\ Idle
    BY DEF Init, Idle
  <2> QED BY <2>1, <2>2, <2>3, <2>4, <2>5, <2>6 DEF TypeOK
<1>2. CommandsAgree
  <2>1. ASSUME NEW o \in Operation
        PROVE  state[o] = "none" /\ command[o] = "none" /\ ~ran[o] /\ report[o] = "none"
    BY DEF Init, JournalInit, NativeInit
  <2>2. \A o \in Operation : state[o] # "accepted"
    BY <2>1
  <2>3. \A o \in Operation : ~Is(o, "create", {"accepted"})
    BY <2>2 DEF Is
  <2> QED BY <2>1, <2>3 DEF CommandsAgree, Unresolved
<1> QED BY <1>1, <1>2 DEF TimerInv

LEMMA NextInv == TimerInv /\ [Next]_vars => TimerInv'
<1> SUFFICES ASSUME TimerInv, [Next]_vars PROVE TimerInv'
  OBVIOUS
<1> USE DEF TimerInv
<1>1. CASE Next
  <2>1. TypeOK'
    BY <1>1, AskTypes, PollTypes, OutsideTypes DEF Next
  <2>2. CommandsAgree'
    BY <1>1, AskAgrees, PollAgrees, OutsideAgrees DEF Next
  <2> QED BY <2>1, <2>2
<1>2. CASE UNCHANGED vars
  <2> USE <1>2 DEF vars, journalVars, ownershipVars, nativeVars, Reserved, Known, Idle, At, Is
  <2>1. TypeOK'
    BY DEF TypeOK
  <2>2. CommandsAgree'
    BY DEF CommandsAgree
  <2> QED BY <2>1, <2>2
<1> QED BY <1>1, <1>2

\* No operation ends unless the report of its command says so, none refused has
\* had an effect, and a CREATE or DELETE closed as failed had none, whatever
\* transactions of the visits fall between (applyOutcome, assignAndClaim).
THEOREM InvariantHolds == Spec => []TimerInv
  BY InitInv, NextInv, PTL DEF Spec

\* Every variable keeps its type; no MODIFY is admitted that asks for what the
\* binding has already.
THEOREM TypeCorrect == Spec => []TypeOK
  BY InvariantHolds, PTL DEF TimerInv

\* No CREATE has an effect, or a result, before its operation is dispatching:
\* the command is not offered before the claim (reserveClaimAndActivate).
THEOREM CreateDispatched == Spec => []CreateDispatchedFirst
<1>1. TimerInv => CreateDispatchedFirst
  BY DEF TimerInv, CommandsAgree, CreateDispatchedFirst, Is
<1> QED BY <1>1, InvariantHolds, PTL
===============================================================================
