---------------------------- MODULE TimerOwnership ----------------------------
(***************************************************************************)
(* Who owns the native timer of one timer intent: its assignments, one per *)
(* epoch (TimerAssignmentRepository), and the binding of each to a native  *)
(* timer (NativeTimerBindingRepository).  Each operator is one SQLite      *)
(* transaction; what the callers check before it is theirs.                *)
(***************************************************************************)
EXTENDS Naturals

CONSTANTS
    Backend,
    Content,    \* what a timer is like, as its fingerprint tells
    Id,         \* the identity VDR derives from channel, day and time of that
    NoAssignment, NoBinding,
    MaxEpoch, MaxRevision

ASSUME OwnershipAssumption == MaxEpoch \in Nat /\ MaxRevision \in Nat

Epoch == 1..MaxEpoch

VARIABLES
    assignment, \* assignment of each epoch, NoAssignment until it is made
    binding     \* its native timer as last observed, NoBinding until verified

ownershipVars == <<assignment, binding>>

\* Active ownership states are all but superseded.
AssignmentState == {"selected", "provisioning", "bound", "superseded"}

OwnershipInit ==
    /\ assignment = [e \in Epoch |-> NoAssignment]
    /\ binding = [e \in Epoch |-> NoBinding]

Assigned(e) == assignment[e] # NoAssignment
Known(e) == binding[e] # NoBinding

\* What managed work needs of a binding: present as far as known, no drift.
Steady(e) == Known(e) /\ ~binding[e].missing

Selected(b, gen) == [state |-> "selected", backend |-> b, gen |-> gen, rev |-> 1]

-------------------------------------------------------------------------------
\* schedulePrimary: no owner of the intent exists, as the unique index on
\* active owners insists; later owners come by reassignment only.
SchedulePrimary(b, gen) ==
    /\ \A e \in Epoch : ~Assigned(e)
    /\ assignment' = [assignment EXCEPT ![1] = Selected(b, gen)]
    /\ UNCHANGED binding

\* createControlledReplacement: the insert of the new owner supersedes the old
\* one in its trigger; the new one is on another backend.
Replace(e, b, gen) ==
    /\ e + 1 \in Epoch
    /\ Assigned(e)
    /\ ~Assigned(e + 1)
    /\ assignment[e].state # "superseded"
    /\ b # assignment[e].backend
    /\ assignment' = [assignment EXCEPT
            ![e].state = "superseded",
            ![e].rev = @ + 1,
            ![e + 1] = Selected(b, gen)]
    /\ UNCHANGED binding

\* Mutant: a second CREATE is admitted while the first is under way.
BeginProvisioningAgain(e) ==
    /\ Assigned(e)
    /\ assignment[e].state \in {"selected", "provisioning"}
    /\ assignment' = [assignment EXCEPT ![e].state = "provisioning",
                                        ![e].rev = @ + 1]
    /\ UNCHANGED binding

\* beginProvisioning, in the transaction that admits the CREATE.
BeginProvisioning(e) ==
    /\ Assigned(e)
    /\ assignment[e].state = "selected"
    /\ assignment' = [assignment EXCEPT ![e].state = "provisioning",
                                        ![e].rev = @ + 1]
    /\ UNCHANGED binding

\* bindVerified, the step from provisioning; rev is the one of the request.
BindAssignment(e, gen, rev) ==
    /\ Assigned(e)
    /\ assignment[e].state = "provisioning"
    /\ assignment[e].rev = rev
    /\ assignment[e].gen = gen
    /\ Steady(e)
    /\ binding[e].gen = gen
    /\ assignment' = [assignment EXCEPT ![e].state = "bound", ![e].rev = @ + 1]
    /\ UNCHANGED binding

-------------------------------------------------------------------------------
\* create of the binding: the native timer t, verified by operation o.
CreateBinding(e, gen, t, o) ==
    /\ ~Known(e)
    /\ binding' = [binding EXCEPT ![e] =
            [rev |-> 1, gen |-> gen, content |-> t.content,
             missing |-> FALSE, verifiedBy |-> o]]
    /\ UNCHANGED assignment

\* update after a verified absence, at the revision the operation expected.
MarkAbsent(e, gen, rev, o) ==
    /\ Known(e)
    /\ binding[e].rev = rev
    /\ binding[e].gen <= gen
    /\ binding' = [binding EXCEPT ![e].rev = @ + 1, ![e].gen = gen,
                                  ![e].missing = TRUE, ![e].verifiedBy = o]
    /\ UNCHANGED assignment

\* update, or updateVerifiedNativeIdentity when the identity changed.  The
\* second insists on a steady binding of the same generation; the first
\* clears the missing mark.
RecordChange(e, gen, rev, t, o) ==
    /\ Known(e)
    /\ binding[e].rev = rev
    /\ binding[e].gen <= gen
    /\ Id[t.content] # Id[binding[e].content] =>
            Steady(e) /\ binding[e].gen = gen /\ binding[e].verifiedBy # o
    /\ binding' = [binding EXCEPT ![e] =
            [rev |-> rev + 1, gen |-> gen, content |-> t.content,
             missing |-> FALSE, verifiedBy |-> o]]
    /\ UNCHANGED assignment

(***************************************************************************)
(* The passive refresh of an unchanged timer: the binding's revision goes  *)
(* up and its generation follows the Agent's, and the bound assignment's   *)
(* generation with it, in one transaction.                                 *)
(***************************************************************************)
PassiveRefresh(e, gen) ==
    /\ Steady(e)
    /\ binding[e].gen <= gen
    /\ binding[e].rev < MaxRevision
    /\ assignment[e].state = "bound"
    /\ assignment[e].gen <= gen
    /\ binding' = [binding EXCEPT ![e].rev = @ + 1, ![e].gen = gen]
    /\ assignment' =
        IF assignment[e].gen = gen THEN assignment
        ELSE [assignment EXCEPT ![e].gen = gen, ![e].rev = @ + 1]
===============================================================================
