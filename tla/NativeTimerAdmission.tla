------------------------- MODULE NativeTimerAdmission -------------------------
(***************************************************************************)
(* Admission of timer operations by the HTTP handlers, assignment and      *)
(* reassignment of the intent, and the vocabulary of the polling thread's  *)
(* visits.  One thread visits each open operation in turn and takes it as  *)
(* far as it goes; every step of a visit is one transaction or one native  *)
(* readback.  The durable state says where the next visit resumes, so      *)
(* `visit' holds only what a visit carries from one step to the next, and  *)
(* what a crash loses.                                                     *)
(***************************************************************************)
EXTENDS NativeTimers

CONSTANTS
    NoContent,
    NoVisit

VARIABLES
    draft,      \* a DELETE or MODIFY between the handler's reads and its insert
    visit       \* where the polling thread is with which operation

vars == <<journalVars, ownershipVars, nativeVars, draft, visit>>

Family == {"create", "delete", "modify"}

Init ==
    /\ JournalInit
    /\ OwnershipInit
    /\ NativeInit
    /\ draft = NoRequest
    /\ visit = NoVisit

-------------------------------------------------------------------------------
\* Between two visits, or in one of o that has come to step `at'.
Idle == visit = NoVisit
At(o, at) == ~Idle /\ visit.op = o /\ visit.at = at
Continue(o, at, seen) == visit' = [op |-> o, at |-> at, seen |-> seen]
Leave == visit' = NoVisit

\* o is an operation of this family in one of these states.
Is(o, family, states) == state[o] \in states /\ request[o].family = family

Current(o) == agentGen[request[o].backend] = request[o].gen

AssignmentOf(o) == assignment[request[o].epoch]
BindingOf(o) == binding[request[o].epoch]

\* The binding is still the one the DELETE or MODIFY was admitted on.
BindingUnmoved(o) ==
    /\ BindingOf(o).rev = request[o].rev
    /\ BindingOf(o).gen = request[o].gen
    /\ BindingOf(o).content = request[o].content
    /\ ~BindingOf(o).missing

VerifiedBy(o) == BindingOf(o).verifiedBy = o

\* x has the identity of the timer that o is about.
SameId(x, o) == Id[x] = Id[request[o].content]

\* What the operation's state becomes by the durable result of its command.
Outcome(o) == CASE report[o] = "refused"  -> "failed_verified"
                [] report[o] = "accepted" -> "executed_unverified"
                [] report[o] = "unknown"  -> "outcome_unknown"

\* The thread stops here: a condition fails, the database does, or the process
\* restarts.  Nothing but the visit is lost.
Abandon ==
    /\ ~Idle
    /\ Leave
    /\ UNCHANGED <<journalVars, ownershipVars, nativeVars, draft>>

-------------------------------------------------------------------------------
\* Mutant: an intent whose CREATE is under way is still free to move.
ReassignEarly(e, b) ==
    /\ Assigned(e)
    /\ assignment[e].state \in {"selected", "provisioning"}
    /\ Replace(e, b, agentGen[b])
    /\ UNCHANGED <<journalVars, nativeVars, draft, visit>>

\* Assignment of the intent, and its move to another backend before anything
\* was dispatched or once a completed DELETE has verified the absence.
Schedule(b) ==
    /\ SchedulePrimary(b, agentGen[b])
    /\ UNCHANGED <<journalVars, nativeVars, draft, visit>>

Reassign(e, b) ==
    /\ Assigned(e)
    /\ \/ assignment[e].state = "selected"
       \/ /\ assignment[e].state = "bound"
          /\ binding[e].missing
          /\ binding[e].gen = assignment[e].gen
          /\ \E o \in Operation :
                /\ binding[e].verifiedBy = o
                /\ state[o] = "succeeded"
                /\ request[o].family = "delete"
                /\ request[o].gen = assignment[e].gen
    /\ Replace(e, b, agentGen[b])
    /\ UNCHANGED <<journalVars, nativeVars, draft, visit>>

\* NativeTimerCreateAdmissionService::admit, one transaction.
AdmitCreate(o, e, x) ==
    /\ BeginProvisioning(e)
    /\ Reserve(o, [family |-> "create", epoch |-> e,
                   backend |-> assignment[e].backend, gen |-> assignment[e].gen,
                   rev |-> assignment'[e].rev, arev |-> assignment'[e].rev,
                   content |-> NoContent, wish |-> x])
    /\ UNCHANGED <<nativeVars, draft, visit>>

\* The handlers of DELETE and MODIFY read binding, assignment and Agent ...
\* (Operation bounds how many there are)
Prepare(e, family, x) ==
    /\ draft = NoRequest
    /\ \E o \in Operation : ~Reserved(o)
    /\ Assigned(e)
    /\ assignment[e].state = "bound"
    /\ Steady(e)
    /\ binding[e].gen = assignment[e].gen
    /\ agentGen[assignment[e].backend] = binding[e].gen
    /\ draft' = [family |-> family, epoch |-> e, backend |-> assignment[e].backend,
                 gen |-> binding[e].gen, rev |-> binding[e].rev,
                 arev |-> assignment[e].rev,
                 content |-> binding[e].content, wish |-> x]
    /\ UNCHANGED <<journalVars, ownershipVars, nativeVars, visit>>

PrepareDelete(e) == Prepare(e, "delete", NoContent)

\* Mutant: what is asked for may be what there is.
PrepareModifySame(e, x) == Prepare(e, "modify", x)

\* ... what a MODIFY asks for must not be there yet ...
PrepareModify(e, x) ==
    /\ Prepare(e, "modify", x)
    /\ binding[e].content # x

\* ... and reserve the operation in a transaction of its own, or fail to.
AdmitDraft(o) ==
    /\ draft # NoRequest
    /\ Reserve(o, draft)
    /\ draft' = NoRequest
    /\ UNCHANGED <<ownershipVars, nativeVars, visit>>

DropDraft ==
    /\ draft # NoRequest
    /\ draft' = NoRequest
    /\ UNCHANGED <<journalVars, ownershipVars, nativeVars, visit>>
===============================================================================
