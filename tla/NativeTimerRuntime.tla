--------------------------- MODULE NativeTimerRuntime ---------------------------
(***************************************************************************)
(* The native timer runtime as a whole: HTTP handlers, the polling thread, *)
(* command delivery and whatever else happens to the VDRs.                 *)
(***************************************************************************)
EXTENDS NativeTimerCreate, NativeTimerDelete, NativeTimerModify

\* Mutant: the refresh looks for dispatched operations only.
RefreshAccepted(e) ==
    /\ Idle
    /\ Assigned(e)
    /\ Steady(e)
    /\ \A o \in Operation : Open(o) /\ state[o] # "accepted" => request[o].epoch # e
    /\ \E t \in native : t.epoch = e /\ t.content = binding[e].content
    /\ PassiveRefresh(e, agentGen[assignment[e].backend])
    /\ UNCHANGED <<journalVars, nativeVars, draft, visit>>

\* The passive refresh, on the polling thread between two visits: the native
\* timer is as bound, and no operation of the assignment is open.
Refresh(e) ==
    /\ Idle
    /\ Assigned(e)
    /\ Steady(e)
    /\ \A o \in Operation : Open(o) => request[o].epoch # e
    /\ \E t \in native : t.epoch = e /\ t.content = binding[e].content
    /\ PassiveRefresh(e, agentGen[assignment[e].backend])
    /\ UNCHANGED <<journalVars, nativeVars, draft, visit>>

\* The HTTP handlers.
Ask ==
    \/ \E b \in Backend : Schedule(b)
    \/ \E e \in Epoch, b \in Backend : Reassign(e, b)
    \/ \E e \in Epoch, o \in Operation, x \in Content : AdmitCreate(o, e, x)
    \/ \E e \in Epoch : PrepareDelete(e)
    \/ \E e \in Epoch, x \in Content : PrepareModify(e, x)
    \/ \E o \in Operation : AdmitDraft(o)
    \/ DropDraft

\* The polling thread.
Poll ==
    \/ \E o \in Operation : CreateStep(o) \/ DeleteStep(o) \/ ModifyStep(o)
    \/ \E e \in Epoch : Refresh(e)
    \/ Abandon

\* The Agents, and changes behind the Suite's back.
Outside ==
    /\ \/ \E o \in Operation :
            Permit(o) \/ Run(o) \/ \E r \in Report : Settle(o, r)
       \/ \E b \in Backend : NewGeneration(b)
       \/ \E t \in native : RemoveTimer(t) \/ \E x \in Content : EditTimer(t, x)
    /\ UNCHANGED <<journalVars, ownershipVars, draft, visit>>

Next == Ask \/ Poll \/ Outside

Spec == Init /\ [][Next]_vars

-------------------------------------------------------------------------------
(***************************************************************************)
(* Types.                                                                  *)
(***************************************************************************)
\* A CREATE says what there shall be, a DELETE what there is, a MODIFY both.
RequestType ==
    {r \in [family : Family, epoch : Epoch, backend : Backend, gen : Generation,
            rev : Nat, arev : Nat, content : Content \cup {NoContent},
            wish : Content \cup {NoContent}] :
        /\ r.family # "create" => r.content \in Content
        /\ r.family # "delete" => r.wish \in Content
        /\ r.family = "modify" => r.wish # r.content}

NativeType == [epoch : Epoch, content : Content]

AssignmentType ==
    [state : AssignmentState, backend : Backend, gen : Generation, rev : Nat]

BindingType ==
    [rev : Nat, gen : Generation, content : Content, missing : BOOLEAN,
     verifiedBy : Operation]

\* A row that is not there differs from every row.
ASSUME AbsentRowAssumption ==
    /\ NoAssignment \notin AssignmentType
    /\ NoBinding \notin BindingType

VisitType == [op : Operation, at : {"claim", "verify", "close", "bind", "complete"},
              seen : SUBSET NativeType]

\* Every variable holds a value of its kind; a MODIFY always asks for a change,
\* and only reserved operations are visited.
TypeOK ==
    /\ request \in [Operation -> RequestType \cup {NoRequest}]
    /\ state \in [Operation -> OperationState \cup {"none"}]
    /\ \A o \in Operation : Reserved(o) => request[o] \in RequestType
    /\ assignment \in [Epoch -> AssignmentType \cup {NoAssignment}]
    /\ binding \in [Epoch -> BindingType \cup {NoBinding}]
    /\ agentGen \in [Backend -> 1..(1 + upsets)]
    /\ command \in [Operation -> CommandStatus]
    /\ ran \in [Operation -> BOOLEAN]
    /\ report \in [Operation -> Report]
    /\ native \subseteq NativeType
    /\ edits \subseteq [epoch : Epoch, from : Content, to : Content]
    /\ upsets \in 0..MaxUpsets
    /\ draft \in RequestType \cup {NoRequest}
    /\ ~Idle => visit \in VisitType /\ Reserved(visit.op)

-------------------------------------------------------------------------------
(***************************************************************************)
(* Safety.                                                                 *)
(***************************************************************************)
Updates(o, e) ==
    /\ Reserved(o)
    /\ request[o].family = "modify"
    /\ request[o].epoch = e

Creates(o, e) ==
    /\ Reserved(o)
    /\ request[o].family = "create"
    /\ request[o].epoch = e

\* The timer of assignment e got another identity: by an UPDATE of that
\* assignment that had its effect, or by someone outside.
Renamed(e) ==
    \/ \E o \in Operation :
          ran[o] /\ Updates(o, e) /\ Id[request[o].wish] # Id[request[o].content]
    \/ \E d \in edits : d.epoch = e /\ Id[d.to] # Id[d.from]

\* Two managed timers never record one intent: each epoch has at most one, and
\* the old backend keeps one beside the new only if it was renamed and its
\* DELETE, which looks for the identity it knows, was verified all the same
\* (NativeTimerAbsenceReadbackVerificationService, the reassignment trigger).
ExclusiveTimer ==
    \A s, t \in native :
        /\ s.epoch = t.epoch => s = t
        /\ s.epoch < t.epoch =>
              /\ Renamed(s.epoch)
              /\ \E o \in Operation :
                    Is(o, "delete", {"succeeded"}) /\ request[o].epoch = s.epoch

\* What a verified DELETE leaves behind, an UPDATE of this assignment or someone
\* outside has renamed: the readback looks for a timer by its identity, and no
\* other way leads past it, nor does anything still under way bring a timer back
\* (NativeTimerAbsenceReadbackVerificationService; the commands of other
\* operations on the binding stay live at the Agent).
SurvivorWasRenamed ==
    \A o \in Operation : Is(o, "delete", {"succeeded"}) =>
        \A t \in native : t.epoch = request[o].epoch => Renamed(t.epoch)

\* A bound assignment had its CREATE take effect and completed or about to
\* complete, and is bound to a timer as an operation of this assignment asked
\* for it: no readback mistakes another timer for it (bindVerified, reconcile).
BoundByOwnOperation ==
    \A e \in Epoch : Assigned(e) /\ assignment[e].state = "bound" =>
        /\ Known(e)
        /\ \E o \in Operation :
            /\ Creates(o, e)
            /\ ran[o]
            /\ state[o] \in Unresolved \cup {"succeeded"}
        /\ request[binding[e].verifiedBy].epoch = e
        /\ binding[e].missing \/ binding[e].content = request[binding[e].verifiedBy].wish

\* A CREATE has its effect only when its operation is on record as dispatched,
\* although the command is reserved before the claim and activated after it, in
\* transactions of their own (reserveClaimAndActivate).
CreateDispatchedFirst ==
    \A o \in Operation : Is(o, "create", {"accepted"}) => ~ran[o] /\ report[o] = "none"

\* An admitted DELETE or MODIFY loses the binding it was admitted on only to
\* another operation's verification, never to the passive refresh, however its
\* steps and the Agent generations fall (updateInCurrentTransaction).
BasisStands ==
    [][\A o \in Operation :
        Is(o, "delete", {"accepted", "dispatching"}) \/ Is(o, "modify", {"accepted", "dispatching"}) =>
            \/ BindingOf(o)' = BindingOf(o)
            \/ BindingOf(o)'.verifiedBy # BindingOf(o).verifiedBy]_vars

\* The operations keep the promise of TimerPromise: at most one effect, only
\* while open, and a final answer that says what happened.  Where contents come
\* back, that of a MODIFY is about the timer: it may be answered by what somebody
\* else did to it, but by nothing less.
PromiseOf(o) ==
    IF ~Reserved(o) THEN "none"
    ELSE IF Open(o) THEN "open"
    ELSE IF state[o] = "succeeded" THEN "kept" ELSE "refused"

promise == [o \in Operation |-> PromiseOf(o)]

work == [o \in Operation |->
    IF Reserved(o) THEN [kind |-> request[o].family, timer |-> request[o].epoch]
    ELSE NoRequest]

Promise == INSTANCE TimerPromise WITH
    Timer <- Epoch,
    NoWork <- NoRequest,
    effect <- ran,
    touched <- {d.epoch : d \in edits}

TimerPromiseKept == Promise!Spec

\* A DELETE that is recorded as verified removed the timer its binding stood
\* for: ADR-0042 has its readback verify that the bound native timer is absent.
\* Every call that VDR accepted shall have had its effect here.
DeletedTimerIsGone ==
    (\A o \in Operation : report[o] = "accepted" => ran[o]) =>
        \A o \in Operation : Is(o, "delete", {"succeeded"}) =>
            \A t \in native : t.epoch # request[o].epoch
===============================================================================
