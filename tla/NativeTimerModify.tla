--------------------------- MODULE NativeTimerModify ---------------------------
(***************************************************************************)
(* The visits of an UPDATE or TOGGLE: expire it or assign its command,     *)
(* claim, apply the result, read the timer, close an attempt that had no   *)
(* effect or record the change, complete.                                  *)
(***************************************************************************)
EXTENDS NativeTimerAdmission

\* Mutant: it expires although its command may be with the Agent.
ExpireModifyAssigned(o) ==
    /\ Idle
    /\ Is(o, "modify", {"accepted"})
    /\ Move(o, "accepted", "failed_before_dispatch")
    /\ UNCHANGED <<ownershipVars, nativeVars, draft, visit>>

\* The deadline passed while no command existed.
ExpireModify(o) ==
    /\ Idle
    /\ Is(o, "modify", {"accepted"})
    /\ command[o] = "none"
    /\ Move(o, "accepted", "failed_before_dispatch")
    /\ UNCHANGED <<ownershipVars, nativeVars, draft, visit>>

AssignModify(o) ==
    /\ Idle
    /\ Is(o, "modify", {"accepted"})
    /\ Current(o)
    /\ BindingUnmoved(o)
    /\ AssignmentOf(o).state = "bound"
    /\ AssignmentOf(o).gen = request[o].gen
    /\ AssignmentOf(o).rev = request[o].arev
    /\ command' = [command EXCEPT ![o] = IF @ = "none" THEN "live" ELSE @]
    /\ Continue(o, "claim", {})
    /\ UNCHANGED <<journalVars, ownershipVars, agentGen, ran, report, native, edits, upsets, draft>>

ClaimModify(o) ==
    /\ At(o, "claim")
    /\ request[o].family = "modify"
    /\ BindingUnmoved(o)
    /\ Move(o, "accepted", "dispatching")
    /\ Leave
    /\ UNCHANGED <<ownershipVars, nativeVars, draft>>

\* The binding the result is for: untouched, or changed by o itself, except
\* that its identity has to be the old one.
ModifyRelies(o) ==
    /\ BindingOf(o).gen = request[o].gen
    /\ SameId(BindingOf(o).content, o)
    /\ VerifiedBy(o) \/ /\ BindingOf(o).rev = request[o].rev
                        /\ BindingOf(o).content = request[o].content

ApplyModifyResult(o) ==
    /\ Idle
    /\ Is(o, "modify", {"dispatching"})
    /\ report[o] # "none"
    /\ ModifyRelies(o)
    /\ Move(o, "dispatching", Outcome(o))
    /\ UNCHANGED <<ownershipVars, nativeVars, draft, visit>>

-------------------------------------------------------------------------------
\* The timer of the old identity or, when there is none, the only one that is as
\* specified: a change may derive another identity.
Observed(o) ==
    LET mine == {t \in native : t.epoch = request[o].epoch}
        old == {t \in mine : SameId(t.content, o)}
    IN  IF old = {} THEN {t \in mine : t.content = request[o].wish} ELSE old

\* Mutant: a timer of the old identity is taken for one nobody changed.
ReadModifiedById(o) ==
    LET current == agentGen[request[o].backend] IN
    /\ Idle
    /\ Is(o, "modify", Unresolved)
    /\ ModifyRelies(o)
    /\ \E t \in Observed(o) :
        /\ Observed(o) = {t}
        /\ \/ current = request[o].gen /\ Continue(o, "verify", {t})
           \/ /\ state[o] = "outcome_unknown"
              /\ current >= request[o].gen
              /\ SameId(t.content, o)
              /\ Continue(o, "close", {})
    /\ UNCHANGED <<journalVars, ownershipVars, nativeVars, draft>>

\* A newer Agent generation may only show that nothing happened.
ReadModified(o) ==
    LET current == agentGen[request[o].backend] IN
    /\ Idle
    /\ Is(o, "modify", Unresolved)
    /\ ModifyRelies(o)
    /\ \E t \in Observed(o) :
        /\ Observed(o) = {t}
        /\ \/ current = request[o].gen /\ Continue(o, "verify", {t})
           \/ /\ state[o] = "outcome_unknown"
              /\ current >= request[o].gen
              /\ t.content = request[o].content
              /\ Continue(o, "close", {})
    /\ UNCHANGED <<journalVars, ownershipVars, nativeVars, draft>>

CloseUnchanged(o) ==
    /\ At(o, "close")
    /\ request[o].family = "modify"
    /\ Move(o, "outcome_unknown", "failed_verified")
    /\ Leave
    /\ UNCHANGED <<ownershipVars, nativeVars, draft>>

\* Mutant: the observation is recorded without a look at what was asked for.
VerifyModifiedAsSeen(o) ==
    LET e == request[o].epoch IN
    /\ At(o, "verify")
    /\ request[o].family = "modify"
    /\ \E t \in visit.seen :
        /\ binding[e].content = request[o].content
        /\ RecordChange(e, request[o].gen, request[o].rev, t, o)
    /\ Continue(o, "complete", {})
    /\ UNCHANGED <<journalVars, nativeVars, draft>>

VerifyModified(o) ==
    LET e == request[o].epoch IN
    /\ At(o, "verify")
    /\ request[o].family = "modify"
    /\ \E t \in visit.seen :
        /\ t.content = request[o].wish
        /\ \/ SameId(binding[e].content, o)
           \/ VerifiedBy(o) /\ Id[binding[e].content] = Id[t.content]
        /\ binding[e].gen <= request[o].gen
        /\ \/ /\ VerifiedBy(o)
              /\ Steady(e)
              /\ binding[e].gen = request[o].gen
              /\ binding[e].content = request[o].wish
              /\ UNCHANGED ownershipVars
           \/ /\ binding[e].content = request[o].content
              /\ RecordChange(e, request[o].gen, request[o].rev, t, o)
    /\ Continue(o, "complete", {})
    /\ UNCHANGED <<journalVars, nativeVars, draft>>

CompleteModify(o) ==
    /\ At(o, "complete")
    /\ request[o].family = "modify"
    /\ Steady(request[o].epoch)
    /\ VerifiedBy(o)
    /\ BindingOf(o).gen = request[o].gen
    /\ BindingOf(o).content = request[o].wish
    /\ \E from \in Unresolved : Move(o, from, "succeeded")
    /\ Leave
    /\ UNCHANGED <<ownershipVars, nativeVars, draft>>

ModifyStep(o) ==
    \/ ExpireModify(o)
    \/ AssignModify(o)
    \/ ClaimModify(o)
    \/ ApplyModifyResult(o)
    \/ ReadModified(o)
    \/ CloseUnchanged(o)
    \/ VerifyModified(o)
    \/ CompleteModify(o)
===============================================================================
