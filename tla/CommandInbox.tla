------------------------------ MODULE CommandInbox ------------------------------
(***************************************************************************)
(* The Backend Agent side: the one-command durable inbox and the           *)
(* reconcile, poll and execute cycle around it                             *)
(* (reconcileBackendAgentCommandState, pollBackendAgentCommand).           *)
(*                                                                         *)
(* The inbox file is the only thing that survives the Agent process.  A    *)
(* cycle runs from phase "idle" (about to reconcile) and falls back to     *)
(* "idle" when it ends or fails:                                           *)
(*    "waiting"  a call to the Core is outstanding                         *)
(*    "ready"    the Core has acknowledged the receipt; execution is next  *)
(*    "running"  "starting" is durable, the native call comes next         *)
(*    "ran"      the native call returned; its outcome is not durable yet  *)
(***************************************************************************)
EXTENDS CommandChannel

VARIABLES
    agentGen,  \* generation of the running Agent process, 0 when it is down
    phase,     \* where the Agent's cycle stands
    inbox,     \* the protected command state file
    outcome,   \* what the native call returned, not yet durable
    provider,  \* instance epoch of the VDR the Agent talks to
    effects    \* history: native effects of each command so far

inboxVars == <<agentGen, phase, inbox, outcome, provider, effects>>

EmptyInbox == [cmd |-> NoCommand, gen |-> 0, receiptAt |-> 0,
               receiptAcked |-> FALSE, dispatch |-> "not_started",
               result |-> NoResult, resultAcked |-> FALSE]

InboxTypeOK ==
    /\ agentGen \in Nat
    /\ phase \in {"down", "idle", "waiting", "ready", "running", "ran"}
    /\ inbox \in [cmd : Command \cup {NoCommand}, gen : Nat, receiptAt : Nat,
                  receiptAcked : BOOLEAN, dispatch : {"not_started", "starting"},
                  result : Result \cup {NoResult}, resultAcked : BOOLEAN]
    /\ outcome \in Result \cup {NoResult}
    /\ provider \in Nat
    /\ effects \in [Command -> Nat]

InboxInit ==
    /\ agentGen = 0
    /\ phase = "down"
    /\ inbox = EmptyInbox
    /\ outcome = NoResult
    /\ provider = 1
    /\ effects = [c \in Command |-> 0]

-------------------------------------------------------------------------------
Occupied == inbox.cmd # NoCommand
InContext == inbox.gen = agentGen
HasResult == inbox.result # NoResult
Due == Deadline(inbox.cmd) <= now

\* Mutant: over before the Core has acknowledged the result.
SettledUnreported == Occupied => (HasResult /\ inbox.receiptAcked)

\* The whole exchange about the stored command is over.
Settled == Occupied => (HasResult /\ inbox.receiptAcked /\ inbox.resultAcked)

\* A native command whose "starting" file is found at the start of a cycle: the
\* process that wrote it may or may not have made the native call.
Interrupted == ~HasResult /\ inbox.dispatch = "starting"

\* Results of an earlier generation the Agent still delivers.
Historical ==
    /\ Occupied /\ ~InContext
    /\ inbox.receiptAcked /\ HasResult /\ ~inbox.resultAcked
    /\ \/ /\ KindOf[inbox.cmd] = "modify"
          /\ inbox.result.category = "outcome_unknown"
       \/ /\ KindOf[inbox.cmd] = "import"
          /\ inbox.dispatch = "not_started"
          /\ inbox.result.category = "rejected"
          /\ inbox.result.error = "fenced"

\* local_command_generation_fenced: kept as evidence, never touched again.
Quarantined ==
    /\ Occupied /\ ~InContext
    /\ ~Settled
    /\ ~Historical
    /\ Native(inbox.cmd) => ~Interrupted

ReceiptMessage == [type |-> "receipt", cmd |-> inbox.cmd, gen |-> inbox.gen,
                   at |-> inbox.receiptAt]
ResultMessage(r) == [type |-> "result", cmd |-> inbox.cmd, gen |-> inbox.gen,
                     result |-> r]

Reconciling == phase = "idle" /\ Occupied
\* Mutants: an interrupted command, or one of an older generation, is taken up anew.
FreshThoughStarted == Reconciling /\ InContext /\ ~HasResult
FreshThoughOld == Reconciling /\ ~HasResult /\ inbox.dispatch = "not_started"

Fresh == Reconciling /\ InContext /\ ~HasResult /\ inbox.dispatch = "not_started"

\* Mutants: an interrupted command is reported as rejected, or in unknown terms.
OutcomeRejected == MakeResult("not_started", "rejected", "fenced")
OutcomeMisnamed == MakeResult("started", "outcome_unknown", "executor_unknown")

OutcomeUnknown == MakeResult("starting", "outcome_unknown", "executor_unknown")

Store(r) == inbox' = [inbox EXCEPT !.result = r, !.resultAcked = FALSE]

(***************************************************************************)
(* reconcile: recovery of an interrupted command, before anything else for *)
(* native commands, only in the right generation for the others.           *)
(***************************************************************************)
RecoverInterrupted ==
    /\ Reconciling
    /\ Interrupted
    /\ Native(inbox.cmd) \/ InContext
    /\ Store(OutcomeUnknown)
    /\ UNCHANGED <<channelVars, agentGen, phase, outcome, provider, effects>>

\* Mutant: any entry of an older generation is retired.
RetireUnsettled ==
    /\ Reconciling
    /\ ~InContext
    /\ inbox' = EmptyInbox
    /\ UNCHANGED <<channelVars, agentGen, phase, outcome, provider, effects>>

Retire ==
    /\ Reconciling
    /\ ~InContext
    /\ Settled
    /\ inbox' = EmptyInbox
    /\ UNCHANGED <<channelVars, agentGen, phase, outcome, provider, effects>>

-------------------------------------------------------------------------------
\* sendReceipt, skipped when the receipt is acknowledged already.
AskReceipt(stored) ==
    /\ UNCHANGED <<now, assigned, agentGen, outcome, provider, effects>>
    /\ inbox' = stored
    /\ IF inbox.receiptAcked
       THEN phase' = "ready" /\ UNCHANGED <<requests, call, reply>>
       ELSE phase' = "waiting" /\ Send(ReceiptMessage)

\* A native command still in time is durably "starting" before its receipt.
PrepareStarting ==
    /\ Fresh
    /\ Native(inbox.cmd)
    /\ ~Due
    /\ AskReceipt([inbox EXCEPT !.dispatch = "starting"])

\* All others, and a native command already past its deadline.
BeginReceipt ==
    /\ Fresh
    /\ CASE Native(inbox.cmd) -> Due
         [] KindOf[inbox.cmd] = "osd" -> ~Due
         [] OTHER -> TRUE
    /\ AskReceipt(inbox)

\* An overdue OSD command is rejected and reported without a receipt.
ExpireOsd ==
    /\ Fresh
    /\ KindOf[inbox.cmd] = "osd"
    /\ Due
    /\ LET r == MakeResult("not_started", "rejected", "expired")
       IN  Store(r) /\ Send(ResultMessage(r))
    /\ phase' = "waiting"
    /\ UNCHANGED <<now, assigned, agentGen, outcome, provider, effects>>

\* The receipt of a command that has its result: after a duplicate delivery, or
\* when the receipt was never acknowledged.
ResendReceipt ==
    /\ Reconciling /\ InContext
    /\ HasResult /\ ~inbox.receiptAcked
    /\ Send(ReceiptMessage)
    /\ phase' = "waiting"
    /\ UNCHANGED <<now, assigned, agentGen, inbox, outcome, provider, effects>>

SendResult ==
    /\ Reconciling
    /\ HasResult /\ inbox.receiptAcked /\ ~inbox.resultAcked
    /\ InContext \/ Historical
    /\ Send(ResultMessage(inbox.result))
    /\ phase' = "waiting"
    /\ UNCHANGED <<now, assigned, agentGen, inbox, outcome, provider, effects>>

ReceiptAcknowledged ==
    /\ phase = "waiting"
    /\ Answered("receipt")
    /\ inbox' = [inbox EXCEPT !.receiptAcked = TRUE]
    /\ phase' = IF HasResult THEN "idle" ELSE "ready"
    /\ EndCall
    /\ UNCHANGED <<now, assigned, agentGen, outcome, provider, effects>>

ResultAcknowledged ==
    /\ phase = "waiting"
    /\ Answered("result")
    /\ inbox' = [inbox EXCEPT !.resultAcked = TRUE]
    /\ phase' = "idle"
    /\ EndCall
    /\ UNCHANGED <<now, assigned, agentGen, outcome, provider, effects>>

-------------------------------------------------------------------------------
(***************************************************************************)
(* Execution.  The in-time check of a native command was made before its   *)
(* receipt; the executor repeats it.                                       *)
(***************************************************************************)
\* persist() refuses this result for "create" and "modify", which must carry
\* evidence of a completed native call: the cycle fails and the file stays.
ExpireReady ==
    /\ phase = "ready"
    /\ inbox.dispatch = "not_started"
    /\ Due
    /\ KindOf[inbox.cmd] # "osd"
    /\ IF KindOf[inbox.cmd] \in EvidenceKind
       THEN UNCHANGED inbox
       ELSE Store(MakeResult("not_started", "rejected", "expired"))
    /\ phase' = "idle"
    /\ UNCHANGED <<channelVars, agentGen, outcome, provider, effects>>

\* The local trust store or the grant does not cover this import.
Unauthorized ==
    /\ phase = "ready"
    /\ KindOf[inbox.cmd] = "import"
    /\ ~Due
    /\ Store(MakeResult("not_started", "rejected", "fenced"))
    /\ phase' = "idle"
    /\ UNCHANGED <<channelVars, agentGen, outcome, provider, effects>>

Start ==
    /\ phase = "ready"
    /\ ~Native(inbox.cmd)
    /\ ~Due \/ KindOf[inbox.cmd] = "osd"
    /\ inbox' = [inbox EXCEPT !.dispatch = "starting"]
    /\ phase' = "running"
    /\ UNCHANGED <<channelVars, agentGen, outcome, provider, effects>>

\* The executor returned r, having changed the backend or not.
Ran(r, effect) ==
    /\ outcome' = r
    /\ phase' = "ran"
    /\ effects' = [effects EXCEPT ![inbox.cmd] = @ + effect]
    /\ UNCHANGED <<channelVars, agentGen, inbox, provider>>

RunProbe ==
    /\ KindOf[inbox.cmd] = "probe"
    /\ Ran(MakeResult("effect_reported", "succeeded", "none"), 1)

\* VDR refuses a key press past its deadline; no answer leaves it unknown.
RunOsd ==
    /\ KindOf[inbox.cmd] = "osd"
    /\ \/ ~Due /\ Ran(MakeResult("effect_reported", "succeeded", "none"), 1)
       \/ Ran(MakeResult("accepted_by_executor", "rejected", "fenced"), 0)
       \/ Ran(OutcomeUnknown, 0)
       \/ ~Due /\ Ran(OutcomeUnknown, 1)

\* Marked, submitted, rejected without effect, or unknown.
RunImport ==
    /\ KindOf[inbox.cmd] = "import"
    /\ \/ Ran(MakeResult("accepted_by_executor", "succeeded", "none"), 1)
       \/ Ran(MakeResult("accepted_by_executor", "outcome_unknown", "none"), 1)
       \/ Ran(MakeResult("starting", "rejected", "fenced"), 0)
       \/ \E effect \in {0, 1} : Ran(OutcomeUnknown, effect)

RunDirect ==
    /\ phase = "running"
    /\ RunProbe \/ RunOsd \/ RunImport

\* Rejected before the native call by the executor's deadline and provider
\* fences, or by the plugin; else the call was made.
NativeFenced == Due \/ assigned[inbox.cmd].epoch # provider

\* Mutant: the fences are looked at after the native call.
RunNativeThenFence ==
    /\ phase = "ready"
    /\ Native(inbox.cmd)
    /\ inbox.dispatch = "starting"
    /\ \/ NativeFenced /\ Ran(MakeResult("not_started", "rejected", "fenced"), 1)
       \/ ~NativeFenced /\ Ran(OutcomeUnknown, 1)

RunNative ==
    /\ phase = "ready"
    /\ Native(inbox.cmd)
    /\ inbox.dispatch = "starting"
    /\ \/ Ran(MakeResult("not_started", "rejected", "fenced"), 0)
       \/ /\ ~NativeFenced
          /\ \/ Ran(MakeResult("accepted_by_executor", "outcome_unknown", "none"), 1)
             \/ \E effect \in {0, 1} : Ran(OutcomeUnknown, effect)

PersistOutcome ==
    /\ phase = "ran"
    /\ Store(outcome)
    /\ phase' = "idle"
    /\ outcome' = NoResult
    /\ UNCHANGED <<channelVars, agentGen, provider, effects>>

\* Mutant: the call is repeated when its outcome could not be written.
PersistFailsAndRetries ==
    /\ phase = "ran"
    /\ phase' = "ready"
    /\ outcome' = NoResult
    /\ UNCHANGED <<channelVars, agentGen, inbox, provider, effects>>

\* The state file could not be written; the cycle ends with "starting" in it.
PersistFails ==
    /\ phase = "ran"
    /\ phase' = "idle"
    /\ outcome' = NoResult
    /\ UNCHANGED <<channelVars, agentGen, inbox, provider, effects>>

-------------------------------------------------------------------------------
(***************************************************************************)
(* poll, entered only after reconcile succeeded.  A refresh poll carries   *)
(* what the Agent sees of its provider, 0 when it does not answer.         *)
(***************************************************************************)
SendPoll(refresh, epoch) ==
    /\ phase = "idle"
    /\ Settled
    /\ Occupied => InContext
    /\ Send([type |-> "poll", gen |-> agentGen, refresh |-> refresh, epoch |-> epoch])
    /\ phase' = "waiting"
    /\ UNCHANGED <<now, assigned, agentGen, inbox, outcome, provider, effects>>

StoreNothing ==
    /\ phase = "waiting"
    /\ Answered("poll")
    /\ reply.cmd = NoCommand
    /\ phase' = "idle"
    /\ EndCall
    /\ UNCHANGED <<now, assigned, agentGen, inbox, outcome, provider, effects>>

\* Mutant: the stored command again, received as if it were new.
StoreDuplicateAsNew ==
    /\ phase = "waiting"
    /\ Answered("poll")
    /\ reply.cmd = inbox.cmd /\ Occupied
    /\ inbox' = [EmptyInbox EXCEPT !.cmd = reply.cmd, !.gen = agentGen, !.receiptAt = now]
    /\ phase' = "idle"
    /\ EndCall
    /\ UNCHANGED <<now, assigned, agentGen, outcome, provider, effects>>

\* The stored command again: both acknowledgements are asked for once more.
StoreDuplicate ==
    /\ phase = "waiting"
    /\ Answered("poll")
    /\ reply.cmd = inbox.cmd /\ Occupied
    /\ inbox' = [inbox EXCEPT !.receiptAcked = FALSE, !.resultAcked = FALSE]
    /\ phase' = "idle"
    /\ EndCall
    /\ UNCHANGED <<now, assigned, agentGen, outcome, provider, effects>>

StoreAssignment ==
    /\ phase = "waiting"
    /\ Answered("poll")
    /\ reply.cmd \notin {NoCommand, inbox.cmd}
    /\ inbox' = [EmptyInbox EXCEPT !.cmd = reply.cmd, !.gen = agentGen, !.receiptAt = now]
    /\ phase' = "idle"
    /\ EndCall
    /\ UNCHANGED <<now, assigned, agentGen, outcome, provider, effects>>

\* A refused or unanswered call ends the cycle.
CycleFails ==
    /\ phase = "waiting"
    /\ phase' = "idle"
    /\ EndCall
    /\ UNCHANGED <<now, assigned, agentGen, inbox, outcome, provider, effects>>

-------------------------------------------------------------------------------
Crash ==
    /\ phase # "down"
    /\ phase' = "down"
    /\ agentGen' = 0
    /\ outcome' = NoResult
    /\ EndCall
    /\ UNCHANGED <<now, assigned, inbox, provider, effects>>

\* VDR restarts: a new provider instance.
ProviderRestart ==
    /\ provider < MaxEpoch
    /\ provider' = provider + 1
    /\ UNCHANGED <<channelVars, agentGen, phase, inbox, outcome, effects>>

Reconcile ==
    \/ RecoverInterrupted
    \/ Retire
    \/ PrepareStarting
    \/ BeginReceipt
    \/ ExpireOsd
    \/ ResendReceipt
    \/ SendResult
    \/ ReceiptAcknowledged
    \/ ResultAcknowledged

Execute ==
    \/ ExpireReady
    \/ Unauthorized
    \/ Start
    \/ RunDirect
    \/ RunNative
    \/ PersistOutcome
    \/ PersistFails

Receive ==
    \/ SendPoll(FALSE, 0)
    \/ \E epoch \in {0, provider} : SendPoll(TRUE, epoch)
    \/ StoreNothing
    \/ StoreDuplicate
    \/ StoreAssignment
    \/ CycleFails

AgentNext == Reconcile \/ Execute \/ Receive \/ Crash \/ ProviderRestart
===============================================================================
