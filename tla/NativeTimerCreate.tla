--------------------------- MODULE NativeTimerCreate ---------------------------
(***************************************************************************)
(* The visits of a CREATE: reserve the command, claim the operation, make  *)
(* the command live, apply its result, look for the timer by its marker,   *)
(* record it, bind the assignment, complete the operation.                 *)
(***************************************************************************)
EXTENDS NativeTimerAdmission

\* Mutant: the command goes to the Agent before the operation is claimed.
ReserveCommandLive(o) ==
    /\ Idle
    /\ Is(o, "create", {"accepted"})
    /\ Current(o)
    /\ command' = [command EXCEPT ![o] = IF @ = "none" THEN "live" ELSE @]
    /\ Continue(o, "claim", {})
    /\ UNCHANGED <<journalVars, ownershipVars, agentGen, ran, report, native, edits, upsets, draft>>

\* The reserved command is not offered to the Agent yet.  A second visit finds
\* its reservation again.
ReserveCommand(o) ==
    /\ Idle
    /\ Is(o, "create", {"accepted"})
    /\ Current(o)
    /\ command[o] \in {"none", "reserved"}
    /\ command' = [command EXCEPT ![o] = "reserved"]
    /\ Continue(o, "claim", {})
    /\ UNCHANGED <<journalVars, ownershipVars, agentGen, ran, report, native, edits, upsets, draft>>

\* claimAfterReservation; the operation is dispatching before its command is live.
ClaimCreate(o) ==
    /\ At(o, "claim")
    /\ request[o].family = "create"
    /\ Move(o, "accepted", "dispatching")
    /\ Leave
    /\ UNCHANGED <<ownershipVars, nativeVars, draft>>

\* activateDispatching.
Activate(o) ==
    /\ Idle
    /\ Is(o, "create", {"dispatching"})
    /\ Current(o)
    /\ command[o] = "reserved"
    /\ command' = [command EXCEPT ![o] = "live"]
    /\ UNCHANGED <<journalVars, ownershipVars, agentGen, ran, report, native, edits, upsets, draft, visit>>

ApplyCreateResult(o) ==
    /\ Idle
    /\ Is(o, "create", {"dispatching"})
    /\ report[o] # "none"
    /\ Move(o, "dispatching", Outcome(o))
    /\ UNCHANGED <<ownershipVars, nativeVars, draft, visit>>

-------------------------------------------------------------------------------
\* The timers of the backend that carry the epoch's marker.
ReadCreated(o) ==
    /\ Idle
    /\ Is(o, "create", Unresolved)
    /\ Current(o)
    /\ Continue(o, "verify", {t \in native : t.epoch = request[o].epoch})
    /\ UNCHANGED <<journalVars, ownershipVars, nativeVars, draft>>

\* Mutant: any one timer with the epoch's marker will do.
VerifyCreatedByMarker(o) ==
    /\ At(o, "verify")
    /\ request[o].family = "create"
    /\ \E t \in visit.seen :
        /\ visit.seen = {t}
        /\ CreateBinding(request[o].epoch, request[o].gen, t, o)
    /\ Continue(o, "bind", {})
    /\ UNCHANGED <<journalVars, nativeVars, draft>>

\* verify: the one timer seen is the specified one, and becomes the binding,
\* unless it is the binding by an earlier visit.
VerifyCreated(o) ==
    /\ At(o, "verify")
    /\ request[o].family = "create"
    /\ \E t \in visit.seen :
        /\ visit.seen = {t}
        /\ t.content = request[o].wish
        /\ \/ CreateBinding(request[o].epoch, request[o].gen, t, o)
           \/ /\ Steady(request[o].epoch)
              /\ VerifiedBy(o)
              /\ BindingOf(o).gen = request[o].gen
              /\ BindingOf(o).content = t.content
              /\ UNCHANGED ownershipVars
    /\ Continue(o, "bind", {})
    /\ UNCHANGED <<journalVars, nativeVars, draft>>

\* bindVerified at the assignment revision of the request, unless it is bound.
BindCreated(o) ==
    LET e == request[o].epoch IN
    /\ At(o, "bind")
    /\ \/ BindAssignment(e, request[o].gen, request[o].arev)
       \/ /\ assignment[e].state = "bound"
          /\ assignment[e].gen = request[o].gen
          /\ Steady(e)
          /\ binding[e].gen = request[o].gen
          /\ UNCHANGED ownershipVars
    /\ Continue(o, "complete", {})
    /\ UNCHANGED <<journalVars, nativeVars, draft>>

CompleteCreate(o) ==
    /\ At(o, "complete")
    /\ request[o].family = "create"
    /\ AssignmentOf(o).state = "bound"
    /\ AssignmentOf(o).gen = request[o].gen
    /\ Steady(request[o].epoch)
    /\ VerifiedBy(o)
    /\ BindingOf(o).gen = request[o].gen
    /\ BindingOf(o).content = request[o].wish
    /\ \E from \in Unresolved : Move(o, from, "succeeded")
    /\ Leave
    /\ UNCHANGED <<ownershipVars, nativeVars, draft>>

CreateStep(o) ==
    \/ ReserveCommand(o)
    \/ ClaimCreate(o)
    \/ Activate(o)
    \/ ApplyCreateResult(o)
    \/ ReadCreated(o)
    \/ VerifyCreated(o)
    \/ BindCreated(o)
    \/ CompleteCreate(o)
===============================================================================
