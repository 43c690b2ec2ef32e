----------------------------- MODULE NativeTimers -----------------------------
(***************************************************************************)
(* The far side of the timer runtime: the native timers of the VDRs, the   *)
(* Agents' generations, and the delivery of one command per operation,     *)
(* which keeps the promise of OneShotCommand (the CommandDelivery module   *)
(* implements it).  A native timer carries the Suite's marker, hence its   *)
(* epoch, and has a content, of which VDR derives its identity.  Contents  *)
(* come back: a TOGGLE is toggled again, a schedule restored.              *)
(***************************************************************************)
EXTENDS OperationJournal, TimerOwnership

CONSTANT MaxUpsets

ASSUME NativeAssumption == MaxUpsets \in Nat

VARIABLES
    agentGen,   \* generation of the Agent bound to each backend
    command,    \* the one Agent command of each operation
    ran,        \* its native call had its effect
    report,     \* the durable result of the command
    native,     \* the native timers that carry the Suite's marker
    edits,      \* history: what was changed in VDR behind the Suite's back
    upsets      \* events below, bounded by MaxUpsets

Generation == 1..(1 + MaxUpsets)

deliveryVars == <<command, ran, report>>
nativeVars == <<agentGen, command, ran, report, native, edits, upsets>>

CommandStatus == {"none", "reserved", "live", "received"}

Report == {"none", "refused", "accepted", "unknown"}

\* An accepted call is as little proof of an effect as an unknown one: the
\* ledger records both outcomes alike.
VerdictOf(r) == CASE r = "none" -> "open" [] r = "refused" -> "refused" [] OTHER -> "unknown"

Delivery == INSTANCE OneShotCommand WITH
    Command <- Operation,
    permitted <- [o \in Operation |-> command[o] = "received"],
    verdict <- [o \in Operation |-> VerdictOf(report[o])]

NativeInit ==
    /\ agentGen = [b \in Backend |-> 1]
    /\ command = [o \in Operation |-> "none"]
    /\ ran = [o \in Operation |-> FALSE]
    /\ report = [o \in Operation |-> "none"]
    /\ native = {}
    /\ edits = {}
    /\ upsets = 0

-------------------------------------------------------------------------------
\* The timer that o wants to be there, and the timers it may replace or remove:
\* the executor compares identity and live content before it calls VDR.
Desired(o) == [epoch |-> request[o].epoch, content |-> request[o].wish]

Target(o) ==
    {t \in native : /\ t.epoch = request[o].epoch
                    /\ t.content = request[o].content}

Produced(o) == IF request[o].family = "delete" THEN {} ELSE {Desired(o)}

\* The Core records the Agent's receipt: an obsolete generation is refused.
Permit(o) ==
    /\ command[o] = "live"
    /\ agentGen[request[o].backend] = request[o].gen
    /\ command' = [command EXCEPT ![o] = "received"]
    /\ UNCHANGED <<ran, report, agentGen, native, edits, upsets>>
    /\ Delivery!Permit(o)

\* The native call has its effect.
Run(o) ==
    /\ command[o] = "received"
    /\ request[o].family # "create" => Target(o) # {}
    /\ ran' = [ran EXCEPT ![o] = TRUE]
    /\ native' = (native \ Target(o)) \cup Produced(o)
    /\ UNCHANGED <<command, report, agentGen, edits, upsets>>
    /\ Delivery!Run(o)

\* The Agent's result becomes durable in the ledger.
Settle(o, r) ==
    /\ command[o] = "received"
    /\ r # "none"
    /\ report' = [report EXCEPT ![o] = r]
    /\ UNCHANGED <<command, ran, agentGen, native, edits, upsets>>
    /\ Delivery!Settle(o, VerdictOf(r))

-------------------------------------------------------------------------------
\* Another Agent instance connects: the backend's generation goes up.
NewGeneration(b) ==
    /\ upsets < MaxUpsets
    /\ upsets' = upsets + 1
    /\ agentGen' = [agentGen EXCEPT ![b] = @ + 1]
    /\ UNCHANGED <<command, ran, report, native, edits>>

\* Someone removes a timer in VDR ...
RemoveTimer(t) ==
    /\ upsets < MaxUpsets
    /\ upsets' = upsets + 1
    /\ native' = native \ {t}
    /\ UNCHANGED <<agentGen, command, ran, report, edits>>

\* ... or changes it, perhaps to what it was before.
EditTimer(t, x) ==
    /\ upsets < MaxUpsets
    /\ upsets' = upsets + 1
    /\ x # t.content
    /\ native' = (native \ {t}) \cup {[t EXCEPT !.content = x]}
    /\ edits' = edits \cup {[epoch |-> t.epoch, from |-> t.content, to |-> x]}
    /\ UNCHANGED <<agentGen, command, ran, report>>
===============================================================================
