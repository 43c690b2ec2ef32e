----------------------------- MODULE TimerInvariant -----------------------------
(***************************************************************************)
(* Why the timer runtime is safe: what commands, reports and states say of *)
(* each other, who owns the recording, and what can be told from a content *)
(* that was seen, although contents come back.                             *)
(***************************************************************************)
EXTENDS NativeTimerRuntime

\* An effect needs a received command, a settled one has no more, and an
\* operation leaves `dispatching' only by the report of its command.
CommandsAgree ==
    \A o \in Operation :
        /\ command[o] # "none" => Reserved(o)
        /\ ran[o] => command[o] = "received"
        /\ report[o] # "none" => command[o] = "received"
        /\ report[o] = "refused" => ~ran[o]
        /\ state[o] \in {"none", "accepted", "dispatching", "failed_before_dispatch",
                         "succeeded", "failed_verified"} \cup Unresolved
        /\ state[o] = "failed_before_dispatch" => command[o] = "none"
        /\ state[o] \in {"succeeded", "failed_verified"} \cup Unresolved =>
                report[o] # "none"
        /\ Is(o, "create", {"accepted"}) => command[o] \in {"none", "reserved"}
        /\ state[o] = "failed_verified" => request[o].family = "modify" \/ ~ran[o]

\* Inductive: the ledger's commands and the journal's states keep in step over
\* every transaction of the visits (reserveClaimAndActivate, assignAndClaim,
\* applyOutcome).
TimerInv == TypeOK /\ CommandsAgree

-------------------------------------------------------------------------------
(***************************************************************************)
(* Who owns the recording: why no two timers make it.                      *)
(***************************************************************************)
Deleted(e) ==
    \E o \in Operation : Is(o, "delete", {"succeeded"}) /\ request[o].epoch = e

\* The assignments follow one another without a gap, the last one owns the
\* intent, and the others were left untouched or after a completed DELETE.
Succession ==
    /\ \A e, f \in Epoch : e < f /\ Assigned(f) =>
        Assigned(e) /\ assignment[e].state = "superseded"
    /\ \A e \in Epoch : Assigned(e) /\ assignment[e].state = "superseded" =>
        (\A o \in Operation : ~Creates(o, e)) \/ Deleted(e)

\* The CREATE of assignment e had its effect.
Made(e) == \E o \in Operation : Creates(o, e) /\ ran[o]

\* An assignment has one CREATE and one timer.
OneTimer ==
    /\ \A o \in Operation, e \in Epoch : Creates(o, e) =>
        Assigned(e) /\ assignment[e].state # "selected"
    /\ \A o, p \in Operation, e \in Epoch : Creates(o, e) /\ Creates(p, e) => o = p
    /\ \A s, t \in native : s.epoch = t.epoch => s = t

\* There is a timer, and one is seen or bound, because of the CREATE.
TimersMade ==
    /\ \A t \in native : Made(t.epoch)
    /\ ~Idle => \A t \in visit.seen : t.epoch = request[visit.op].epoch /\ Made(t.epoch)
    /\ \A e \in Epoch : Known(e) => Made(e)

\* A visit with something in hand is to an operation whose result is in.
VisitsStand ==
    \A o \in Operation :
        /\ At(o, "verify") \/ At(o, "close") => state[o] \in Unresolved
        /\ At(o, "bind") => Is(o, "create", Unresolved) /\ ran[o]

\* A binding is the work of an operation on its assignment, and newer than what
\* that operation was admitted on.
BindingsOwn ==
    \A e \in Epoch : Known(e) =>
        LET o == binding[e].verifiedBy
        IN  /\ Reserved(o)
            /\ request[o].epoch = e
            /\ binding[e].missing \/ binding[e].content = request[o].wish
            /\ request[o].family # "create" => request[o].rev < binding[e].rev

\* What a DELETE or MODIFY was admitted on was a binding, and not a later one
\* than there is.
Rests(r) == Known(r.epoch) /\ r.rev <= binding[r.epoch].rev

BasesKnown ==
    /\ draft # NoRequest => draft.family # "create" /\ Rests(draft)
    /\ \A o \in Operation : Reserved(o) /\ request[o].family # "create" =>
        Rests(request[o])

BoundByCreate ==
    \A e \in Epoch : Assigned(e) /\ assignment[e].state = "bound" =>
        /\ Known(e)
        /\ \E o \in Operation :
            /\ Creates(o, e)
            /\ ran[o]
            /\ state[o] \in Unresolved \cup {"succeeded"}

\* Inductive together with TimerInv: of the assignments of an intent one is the
\* owner, and timers, bindings and operations belong to the assignment they name
\* (TimerAssignmentRepository, NativeTimerBindingRepository, reassignment).
OwnershipInv ==
    /\ Succession
    /\ OneTimer
    /\ TimersMade
    /\ VisitsStand
    /\ BindingsOwn
    /\ BasesKnown
    /\ BoundByCreate

-------------------------------------------------------------------------------
(***************************************************************************)
(* What a content tells: a timer that is as it once was may have been left *)
(* alone, or changed and changed back.                                     *)
(***************************************************************************)
\* Another UPDATE of assignment e than o gave its timer the content x, or
\* someone outside did.
OthersGave(o, x, e) ==
    \/ \E p \in Operation \ {o} : ran[p] /\ Updates(p, e) /\ request[p].wish = x
    \/ \E d \in edits : d.epoch = e /\ d.to = x

Given(x, e) ==
    \/ \E p \in Operation : ran[p] /\ Updates(p, e) /\ request[p].wish = x
    \/ \E d \in edits : d.epoch = e /\ d.to = x

\* The contents on record of the timer of assignment e: bound, seen by the
\* visit, or what a DELETE or MODIFY was asked for on.
Noted(e) ==
    {binding[f].content : f \in {f \in Epoch : f = e /\ Known(f)}} \cup
    {t.content : t \in {t \in IF Idle THEN {} ELSE visit.seen : t.epoch = e}} \cup
    {r.content : r \in {r \in {draft} \ {NoRequest} : r.epoch = e}} \cup
    {request[o].content : o \in {o \in Operation :
        Reserved(o) /\ request[o].family # "create" /\ request[o].epoch = e}}

\* A timer that is not as noted was changed since, and one that has not the
\* identity noted was renamed.
NotesStem ==
    \A t \in native : \A x \in Noted(t.epoch) :
        /\ x = t.content \/ Given(t.content, t.epoch)
        /\ Id[x] = Id[t.content] \/ Renamed(t.epoch)

\* What a MODIFY replaced comes back only by someone else.
Restored ==
    \A o \in Operation : Reserved(o) /\ request[o].family = "modify" /\ ran[o] =>
        \A t \in native :
            t.epoch = request[o].epoch /\ t.content = request[o].content =>
                OthersGave(o, t.content, t.epoch)

\* A MODIFY that found the timer as asked for found its own effect or another's,
\* and one that found it as it was had no effect, or another's undid it.
ModifyFinds ==
    \A o \in Operation : Reserved(o) /\ request[o].family = "modify" =>
        LET e == request[o].epoch IN
        /\ At(o, "verify") => \A t \in visit.seen :
                t.content = request[o].content \/ Given(t.content, e)
        /\ Known(e) /\ VerifiedBy(o) => Given(request[o].wish, e)
        /\ state[o] = "succeeded" => Given(request[o].wish, e)
        /\ (At(o, "close") \/ state[o] = "failed_verified") /\ ran[o] =>
                OthersGave(o, request[o].content, e)

CreateFinds ==
    \A o \in Operation : Is(o, "create", {"succeeded"}) => ran[o]

\* The DELETE o has not found its timer, be it in this visit or before.
NotFound(o) ==
    \/ At(o, "verify") /\ visit.seen = {}
    \/ Known(request[o].epoch) /\ VerifiedBy(o)
    \/ state[o] = "succeeded"

\* What a DELETE leaves was renamed, from the moment it was not found.
AbsenceTells ==
    \A o \in Operation : Reserved(o) /\ request[o].family = "delete" /\ NotFound(o) =>
        \A t \in native : t.epoch = request[o].epoch => Renamed(t.epoch)

\* Inductive together with TimerInv and OwnershipInv: what the readbacks may
\* conclude from a content (NativeTimerModifyProductiveRuntime, no effect;
\* nativeTimerObservationMatchesSpecification; the absence readback).
AnswerInv ==
    /\ NotesStem
    /\ Restored
    /\ ModifyFinds
    /\ CreateFinds
    /\ AbsenceTells
===============================================================================
