----------------------- MODULE NativeTimerPromise_proofs -----------------------
(***************************************************************************)
(* The timer operations implement TimerPromise, for any number of          *)
(* operations, backends, epochs, contents, generations and upsets: what is *)
(* left of the invariants is to name, for each step, the step of the       *)
(* promise it is.                                                          *)
(***************************************************************************)
EXTENDS NativeTimerAnswers_proofs

-------------------------------------------------------------------------------
(***************************************************************************)
(* Who changed the timer of a MODIFY.                                      *)
(***************************************************************************)
LEMMA OthersChange ==
    ASSUME NEW o \in Operation, NEW e, Updates(o, e), NEW x, OthersGave(o, x, e)
    PROVE  Promise!ChangedByOthers(o)
<1>1. work[o] = [kind |-> "modify", timer |-> e]
  BY DEF work, Updates
<1>2. CASE \E d \in edits : d.epoch = e /\ d.to = x
  BY <1>1, <1>2 DEF Promise!ChangedByOthers
<1>3. ASSUME NEW p \in Operation \ {o}, ran[p], Updates(p, e)
      PROVE  Promise!ChangedByOthers(o)
  <2>1. work[p] = work[o]
    BY <1>1, <1>3 DEF work, Updates
  <2> QED BY <1>1, <1>3, <2>1 DEF Promise!ChangedByOthers
<1> QED BY <1>2, <1>3 DEF OthersGave

LEMMA GivenChange ==
    ASSUME NEW o \in Operation, NEW e, Updates(o, e), NEW x, Given(x, e)
    PROVE  ran[o] \/ Promise!ChangedByOthers(o)
<1>1. ran[o] \/ OthersGave(o, x, e)
  BY DEF Given, OthersGave
<1> QED BY <1>1, OthersChange

-------------------------------------------------------------------------------
(***************************************************************************)
(* The steps of the journal as steps of the promise.                       *)
(***************************************************************************)

\* A move of one operation is a step of the promise, or none.
LEMMA MovePromise ==
    ASSUME TypeOK, NEW o \in Operation, NEW from \in OperationState \ Terminal, NEW to,
           Move(o, from, to), UNCHANGED <<ran, edits>>,
           \/ to \in {"dispatching"} \cup Unresolved
           \/ /\ to = "succeeded"
              /\ request[o].family = "delete" \/ ran[o] \/ Promise!ChangedByOthers(o)
           \/ /\ to \in {"failed_verified", "failed_before_dispatch"}
              /\ ~ran[o] \/ Promise!ChangedByOthers(o)
    PROVE  [Promise!Next]_(Promise!promiseVars)
<1> DEFINE touchedBy == {d.epoch : d \in edits}
<1>1. work' = work /\ touchedBy' = touchedBy
  BY MoveType DEF work
<1>2. PromiseOf(o) = "open" /\ state'[o] = to /\ state[o] = from
  BY MoveType DEF PromiseOf, Open, Move, Reserved, OperationState
<1>3. ASSUME NEW p \in Operation \ {o} PROVE PromiseOf(p)' = PromiseOf(p)
  BY MoveType DEF PromiseOf, Open, Reserved
<1>4. ASSUME NEW x, PromiseOf(o)' = x PROVE promise' = [promise EXCEPT ![o] = x]
  BY <1>3, <1>4 DEF promise
<1>5. promise[o] = "open"
  BY <1>2 DEF promise
<1>6. CASE to \in {"dispatching"} \cup Unresolved
  <2>1. PromiseOf(o)' = PromiseOf(o)
    BY <1>2, <1>6 DEF PromiseOf, Open, Reserved, Unresolved, Terminal
  <2>2. promise' = promise
    BY <1>3, <2>1 DEF promise
  <2> QED BY <1>1, <2>2 DEF Promise!promiseVars
<1>7. CASE /\ to = "succeeded"
           /\ request[o].family = "delete" \/ ran[o] \/ Promise!ChangedByOthers(o)
  <2>1. PromiseOf(o)' = "kept"
    BY <1>2, <1>7 DEF PromiseOf, Open, Reserved, Terminal
  <2>2. work[o].kind = request[o].family
    BY <1>2 DEF work, PromiseOf
  <2>3. Promise!Keep(o)
    BY <1>1, <1>4, <1>5, <1>7, <2>1, <2>2 DEF Promise!Keep
  <2> QED BY <2>3 DEF Promise!Next
<1>8. CASE /\ to \in {"failed_verified", "failed_before_dispatch"}
           /\ ~ran[o] \/ Promise!ChangedByOthers(o)
  <2>1. PromiseOf(o)' = "refused"
    BY <1>2, <1>8 DEF PromiseOf, Open, Reserved, Terminal
  <2>2. Promise!Refuse(o)
    BY <1>1, <1>4, <1>5, <1>8, <2>1 DEF Promise!Refuse
  <2> QED BY <2>2 DEF Promise!Next
<1> QED BY <1>6, <1>7, <1>8

LEMMA ReservePromise ==
    ASSUME TypeOK, NEW o \in Operation, NEW r \in RequestType, Reserve(o, r),
           UNCHANGED <<ran, edits>>
    PROVE  [Promise!Next]_(Promise!promiseVars)
<1> DEFINE w == [kind |-> r.family, timer |-> r.epoch]
<1>1. /\ ~Reserved(o) /\ Reserved(o)' /\ state'[o] = "accepted" /\ request'[o] = r
      /\ \A p \in Operation \ {o} : state'[p] = state[p] /\ request'[p] = request[p]
  BY DEF Reserve, Reserved, TypeOK
<1>2. promise' = [promise EXCEPT ![o] = "open"]
  BY <1>1 DEF promise, PromiseOf, Open, Reserved, Terminal
<1>3. work' = [work EXCEPT ![o] = w]
  BY <1>1 DEF work, Reserved
<1>4. promise[o] = "none" /\ w \in Promise!Work
  BY <1>1 DEF promise, PromiseOf, Promise!Work, RequestType, Family
<1>5. Promise!Admit(o)
  BY <1>2, <1>3, <1>4 DEF Promise!Admit
<1> QED BY <1>5 DEF Promise!Next

LEMMA SamePromise ==
    ASSUME UNCHANGED <<request, state, ran, edits>>
    PROVE  [Promise!Next]_(Promise!promiseVars)
  BY DEF Promise!promiseVars, promise, work, PromiseOf, Open, Reserved

-------------------------------------------------------------------------------
(***************************************************************************)
(* The steps of the runtime as steps of the promise.                       *)
(***************************************************************************)
LEMMA AskPromise ==
    ASSUME TypeOK, Ask
    PROVE  [Promise!Next]_(Promise!promiseVars)
<1>1. ASSUME NEW e \in Epoch, NEW o \in Operation, NEW x \in Content, AdmitCreate(o, e, x)
      PROVE  [Promise!Next]_(Promise!promiseVars)
  <2> DEFINE r == [family |-> "create", epoch |-> e,
                   backend |-> assignment[e].backend, gen |-> assignment[e].gen,
                   rev |-> assignment'[e].rev, arev |-> assignment'[e].rev,
                   content |-> NoContent, wish |-> x]
  <2>1. assignment[e] \in AssignmentType /\ assignment'[e].rev = assignment[e].rev + 1
    BY <1>1, OwnershipAssumption
    DEF AdmitCreate, BeginProvisioning, Assigned, TypeOK, AssignmentType
  <2>2. r \in RequestType
    BY <2>1 DEF RequestType, Family, AssignmentType
  <2>3. Reserve(o, r) /\ UNCHANGED <<ran, edits>>
    BY <1>1 DEF AdmitCreate, nativeVars
  <2> HIDE DEF r
  <2> QED BY <2>2, <2>3, ReservePromise
<1>2. ASSUME NEW o \in Operation, AdmitDraft(o)
      PROVE  [Promise!Next]_(Promise!promiseVars)
  BY <1>2, ReservePromise DEF AdmitDraft, TypeOK, nativeVars
<1>3. CASE UNCHANGED <<journalVars, ran, edits>>
  BY <1>3, SamePromise DEF journalVars
<1> QED BY <1>1, <1>2, <1>3
    DEF Ask, Schedule, Reassign, PrepareDelete, PrepareModify, Prepare, DropDraft, nativeVars

LEMMA PollPromise ==
    ASSUME TypeOK, CommandsAgree, OwnershipInv, AnswerInv, Poll
    PROVE  [Promise!Next]_(Promise!promiseVars)
<1> DEFINE Step == [Promise!Next]_(Promise!promiseVars)
<1>0. UNCHANGED <<ran, edits>>
  BY PollKeepsRequests
<1>1. ASSUME UNCHANGED journalVars PROVE Step
  BY <1>0, <1>1, SamePromise DEF journalVars
<1>2. ASSUME NEW o \in Operation, NEW from \in {"accepted", "dispatching"} \cup Unresolved,
             NEW to, Move(o, from, to),
             \/ to \in {"dispatching"} \cup Unresolved
             \/ /\ to = "succeeded"
                /\ request[o].family = "delete" \/ ran[o] \/ Promise!ChangedByOthers(o)
             \/ /\ to \in {"failed_verified", "failed_before_dispatch"}
                /\ ~ran[o] \/ Promise!ChangedByOthers(o)
      PROVE  Step
  BY <1>0, <1>2, MovePromise DEF OperationState, Terminal, Unresolved
<1>3. ASSUME NEW o \in Operation, Move(o, "dispatching", Outcome(o)), report[o] # "none"
      PROVE  Step
  <2>1. Outcome(o) = "failed_verified" => ~ran[o]
    BY <1>3, OutcomeRange DEF CommandsAgree
  <2> QED BY <1>2, <1>3, <2>1, OutcomeRange
<1>4. ASSUME NEW o \in Operation, CreateStep(o) PROVE Step
  <2>1. CASE ClaimCreate(o)
    BY <1>2, <2>1 DEF ClaimCreate
  <2>2. CASE ApplyCreateResult(o)
    BY <1>3, <2>2 DEF ApplyCreateResult
  <2>3. CASE CompleteCreate(o)
    <3>1. Reserved(o) /\ Creates(o, request[o].epoch) /\ Known(request[o].epoch)
      BY <2>3 DEF CompleteCreate, At, TypeOK, Creates, Steady
    <3>2. request[o].epoch \in Epoch
      BY <3>1 DEF TypeOK, RequestType
    <3>3. ran[o]
      BY <3>1, <3>2, NoUnmadeCreate DEF OwnershipInv, TimersMade
    <3> QED BY <1>2, <2>3, <3>3 DEF CompleteCreate
  <2> QED BY <1>1, <1>4, <2>1, <2>2, <2>3
      DEF CreateStep, ReserveCommand, Activate, ReadCreated, VerifyCreated, BindCreated
<1>5. ASSUME NEW o \in Operation, DeleteStep(o) PROVE Step
  <2>1. CASE ClaimDelete(o)
    BY <1>2, <2>1 DEF ClaimDelete
  <2>2. CASE ApplyDeleteResult(o)
    BY <1>3, <2>2 DEF ApplyDeleteResult
  <2>3. CASE CompleteDelete(o)
    BY <1>2, <2>3 DEF CompleteDelete
  <2> QED BY <1>1, <1>5, <2>1, <2>2, <2>3
      DEF DeleteStep, AssignDelete, ReadDeleted, VerifyDeleted
<1>6. ASSUME NEW o \in Operation, ModifyStep(o) PROVE Step
  <2>1. CASE ExpireModify(o)
    <3>1. ~ran[o]
      BY <2>1 DEF ExpireModify, CommandsAgree
    <3> QED BY <1>2, <2>1, <3>1 DEF ExpireModify
  <2>2. CASE ClaimModify(o)
    BY <1>2, <2>2 DEF ClaimModify
  <2>3. CASE ApplyModifyResult(o)
    BY <1>3, <2>3 DEF ApplyModifyResult
  <2>4. CASE CloseUnchanged(o)
    <3>1. Updates(o, request[o].epoch)
      BY <2>4 DEF CloseUnchanged, At, TypeOK, Updates
    <3>2. ~ran[o] \/ OthersGave(o, request[o].content, request[o].epoch)
      BY <2>4, <3>1 DEF CloseUnchanged, AnswerInv, ModifyFinds, Updates
    <3>3. ~ran[o] \/ Promise!ChangedByOthers(o)
      BY <3>1, <3>2, OthersChange
    <3> QED BY <1>2, <2>4, <3>3 DEF CloseUnchanged, Unresolved
  <2>5. CASE CompleteModify(o)
    <3>1. Updates(o, request[o].epoch) /\ Known(request[o].epoch) /\ VerifiedBy(o)
      BY <2>5 DEF CompleteModify, At, TypeOK, Updates, Steady
    <3>2. Given(request[o].wish, request[o].epoch)
      BY <3>1 DEF AnswerInv, ModifyFinds, Updates
    <3>3. ran[o] \/ Promise!ChangedByOthers(o)
      BY <3>1, <3>2, GivenChange
    <3> QED BY <1>2, <2>5, <3>3 DEF CompleteModify
  <2> QED BY <1>1, <1>6, <2>1, <2>2, <2>3, <2>4, <2>5
      DEF ModifyStep, AssignModify, ReadModified, VerifyModified
<1> QED BY <1>1, <1>4, <1>5, <1>6 DEF Poll, Refresh, Abandon

LEMMA OutsidePromise ==
    ASSUME TypeOK, CommandsAgree, Outside
    PROVE  [Promise!Next]_(Promise!promiseVars)
<1> DEFINE touchedBy == {d.epoch : d \in edits}
<1>0. UNCHANGED <<request, state>> /\ promise' = promise /\ work' = work
  BY DEF Outside, journalVars, promise, work, PromiseOf, Open, Reserved
<1>1. ASSUME NEW o \in Operation, Run(o) PROVE [Promise!Next]_(Promise!promiseVars)
  <2>1. Reserved(o) /\ ~ran[o] /\ ran' = [ran EXCEPT ![o] = TRUE]
    BY <1>1, RunEffect
  <2>2. promise[o] = "open"
    BY <1>1, <2>1, RunEffect DEF Run, CommandsAgree, promise, PromiseOf, Open, Terminal, Unresolved
  <2>3. touchedBy' = touchedBy
    BY <1>1 DEF Run
  <2>4. Promise!Affect(o)
    BY <1>0, <2>1, <2>2, <2>3 DEF Promise!Affect
  <2> QED BY <2>4 DEF Promise!Next
<1>2. ASSUME NEW t \in native, NEW x \in Content, EditTimer(t, x)
      PROVE  [Promise!Next]_(Promise!promiseVars)
  <2>1. t.epoch \in Epoch
    BY DEF TypeOK, NativeType
  <2>2. touchedBy' = touchedBy \cup {t.epoch} /\ ran' = ran
    <3> DEFINE d == [epoch |-> t.epoch, from |-> t.content, to |-> x]
    <3>1. edits' = edits \cup {d} /\ d.epoch = t.epoch /\ ran' = ran
      BY <1>2 DEF EditTimer
    <3> HIDE DEF d
    <3> QED BY <3>1
  <2>3. Promise!Touch(t.epoch)
    BY <1>0, <2>2 DEF Promise!Touch
  <2> QED BY <2>1, <2>3 DEF Promise!Next
<1>3. CASE UNCHANGED <<ran, edits>>
  BY <1>0, <1>3, SamePromise
<1> QED BY <1>1, <1>2, <1>3 DEF Outside, Permit, Settle, NewGeneration, RemoveTimer

\* Whatever the timer runtime does, the operations keep the promise: one effect
\* at most, only while open, and a final answer that is true of the operation, or
\* of the timer when others changed it (applyOutcome, the readbacks, complete).
THEOREM PromiseRefined == Spec => TimerPromiseKept
<1>1. Init => Promise!Init
  <2> SUFFICES ASSUME Init PROVE Promise!Init
    OBVIOUS
  <2>1. edits = {} /\ ran = [o \in Operation |-> FALSE] /\ \A o \in Operation : ~Reserved(o)
    BY DEF Init, JournalInit, NativeInit, Reserved
  <2>2. {d.epoch : d \in edits} = {}
    BY <2>1
  <2> QED BY <2>1, <2>2 DEF Promise!Init, promise, work, PromiseOf
<1>2. TimerInv /\ OwnershipInv /\ AnswerInv /\ [Next]_vars =>
            [Promise!Next]_(Promise!promiseVars)
  <2> SUFFICES ASSUME TimerInv, OwnershipInv, AnswerInv, [Next]_vars
               PROVE  [Promise!Next]_(Promise!promiseVars)
    OBVIOUS
  <2>1. TypeOK /\ CommandsAgree
    BY DEF TimerInv
  <2>2. CASE UNCHANGED vars
    BY <2>2, SamePromise DEF vars, journalVars, nativeVars
  <2> QED BY <2>1, <2>2, AskPromise, PollPromise, OutsidePromise DEF Next
<1> QED BY <1>1, <1>2, InvariantHolds, OwnershipHolds, AnswersHold, PTL
      DEF Spec, TimerPromiseKept, Promise!Spec
===============================================================================
