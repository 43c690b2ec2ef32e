--------------------------- MODULE NativeTimerDelete ---------------------------
(***************************************************************************)
(* The visits of a DELETE: assign the command, claim the operation, apply  *)
(* the result, read the complete inventory, record the absence, complete.  *)
(* The command is live from its assignment on, before the claim.           *)
(***************************************************************************)
EXTENDS NativeTimerAdmission

AssignDelete(o) ==
    /\ Idle
    /\ Is(o, "delete", {"accepted"})
    /\ Current(o)
    /\ BindingUnmoved(o)
    /\ command' = [command EXCEPT ![o] = IF @ = "none" THEN "live" ELSE @]
    /\ Continue(o, "claim", {})
    /\ UNCHANGED <<journalVars, ownershipVars, agentGen, ran, report, native, edits, upsets, draft>>

ClaimDelete(o) ==
    /\ At(o, "claim")
    /\ request[o].family = "delete"
    /\ BindingUnmoved(o)
    /\ Move(o, "accepted", "dispatching")
    /\ Leave
    /\ UNCHANGED <<ownershipVars, nativeVars, draft>>

\* The binding the result is for: untouched, or marked absent by o itself.
DeleteRelies(o) ==
    \/ BindingUnmoved(o)
    \/ /\ BindingOf(o).gen = request[o].gen
       /\ BindingOf(o).content = request[o].content
       /\ BindingOf(o).missing
       /\ VerifiedBy(o)

ApplyDeleteResult(o) ==
    /\ Idle
    /\ Is(o, "delete", {"dispatching"})
    /\ report[o] # "none"
    /\ DeleteRelies(o)
    /\ Move(o, "dispatching", Outcome(o))
    /\ UNCHANGED <<ownershipVars, nativeVars, draft, visit>>

-------------------------------------------------------------------------------
\* The replayed result and the complete inventory; a timer is looked for in it
\* by the identity the binding had.
ReadDeleted(o) ==
    /\ Idle
    /\ Is(o, "delete", Unresolved)
    /\ DeleteRelies(o)
    /\ Current(o)
    /\ Continue(o, "verify", {t \in native : /\ t.epoch = request[o].epoch
                                             /\ SameId(t.content, o)})
    /\ UNCHANGED <<journalVars, ownershipVars, nativeVars, draft>>

\* Mutant: an accepted call is proof enough.
VerifyDeletedUnseen(o) ==
    LET e == request[o].epoch IN
    /\ At(o, "verify")
    /\ request[o].family = "delete"
    /\ visit.seen = {} \/ state[o] = "executed_unverified"
    /\ SameId(binding[e].content, o)
    /\ MarkAbsent(e, request[o].gen, request[o].rev, o)
    /\ Continue(o, "complete", {})
    /\ UNCHANGED <<journalVars, nativeVars, draft>>

VerifyDeleted(o) ==
    LET e == request[o].epoch IN
    /\ At(o, "verify")
    /\ request[o].family = "delete"
    /\ visit.seen = {}
    /\ SameId(binding[e].content, o)
    /\ \/ /\ VerifiedBy(o)
          /\ binding[e].gen = request[o].gen
          /\ binding[e].missing
          /\ UNCHANGED ownershipVars
       \/ MarkAbsent(e, request[o].gen, request[o].rev, o)
    /\ Continue(o, "complete", {})
    /\ UNCHANGED <<journalVars, nativeVars, draft>>

CompleteDelete(o) ==
    /\ At(o, "complete")
    /\ request[o].family = "delete"
    /\ Known(request[o].epoch)
    /\ BindingOf(o).gen = request[o].gen
    /\ SameId(BindingOf(o).content, o)
    /\ BindingOf(o).missing
    /\ VerifiedBy(o)
    /\ \E from \in Unresolved : Move(o, from, "succeeded")
    /\ Leave
    /\ UNCHANGED <<ownershipVars, nativeVars, draft>>

DeleteStep(o) ==
    \/ AssignDelete(o)
    \/ ClaimDelete(o)
    \/ ApplyDeleteResult(o)
    \/ ReadDeleted(o)
    \/ VerifyDeleted(o)
    \/ CompleteDelete(o)
===============================================================================
