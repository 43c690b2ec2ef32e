----------------------------- MODULE CommandDelivery -----------------------------
(***************************************************************************)
(* Command delivery as a whole: one backend's ledger at the Core, one      *)
(* Backend Agent with its inbox, the calls between them, Agent process     *)
(* crashes, VDR restarts and the clock.                                    *)
(*                                                                         *)
(* Core and Agent read one clock; both read it in whole seconds.           *)
(***************************************************************************)
EXTENDS CommandLedger, CommandInbox

CONSTANTS
    LeaseTerm,        \* seconds an Agent lease is granted for
    AllowSameSecond   \* may a command be received anew, after its inbox entry
                      \* was replaced, in the second it was first received in?

ASSUME LeaseAssumption == LeaseTerm \in Nat
ASSUME SameSecondAssumption == AllowSameSecond \in BOOLEAN

vars == <<channelVars, ledgerVars, inboxVars>>

Init == ChannelInit /\ LedgerInit /\ InboxInit

-------------------------------------------------------------------------------
(***************************************************************************)
(* connect / acceptConnection.  The instance identity is drawn anew by     *)
(* every Agent process, so each process gets a generation of its own; the  *)
(* lease is granted by the first heartbeat only.                           *)
(***************************************************************************)
Connect ==
    /\ phase = "down"
    /\ coreGen < MaxGen
    /\ coreGen' = coreGen + 1
    /\ lease' = 0
    /\ agentGen' = coreGen + 1
    /\ phase' = "idle"
    /\ UNCHANGED <<channelVars, providerVars, journalVars, inbox, outcome, provider,
                   effects>>

(***************************************************************************)
(* heartbeat, renewLeaseDuringMediaImport.  The heartbeat reconciles the   *)
(* inbox first and renews the lease only when that succeeds, or when the   *)
(* inbox is quarantined; a running import renews it from within.  The call *)
(* is one step: a renewal the Agent gave up on is taken as lost.           *)
(***************************************************************************)
LeaseRenewed == lease' = now + LeaseTerm /\ agentGen = coreGen

Heartbeat ==
    /\ phase = "idle"
    /\ Quarantined \/ (Settled /\ (Occupied => InContext))
    /\ LeaseRenewed
    /\ UNCHANGED <<channelVars, coreGen, providerVars, journalVars, inboxVars>>

RenewDuringImport ==
    /\ phase = "running"
    /\ KindOf[inbox.cmd] = "import"
    /\ LeaseRenewed
    /\ UNCHANGED <<channelVars, coreGen, providerVars, journalVars, inboxVars>>

RenewLease == Heartbeat \/ RenewDuringImport

\* Receipt identities carry the second of reception.
FreshSecond ==
    inbox'.cmd \notin {inbox.cmd, NoCommand}
        => AllowSameSecond \/ receipt[inbox'.cmd] # now

Core == CoreNext /\ UNCHANGED inboxVars
Agent == AgentNext /\ FreshSecond /\ UNCHANGED ledgerVars
Environment ==
    /\ Tick \/ \E m \in requests : Lose(m)
    /\ UNCHANGED <<ledgerVars, inboxVars>>

Next == Core \/ Agent \/ Connect \/ RenewLease \/ Environment

Spec == Init /\ [][Next]_vars

-------------------------------------------------------------------------------
(***************************************************************************)
(* Safety.                                                                 *)
(***************************************************************************)
\* Every variable holds a value of its kind.
TypeOK == ChannelTypeOK /\ LedgerTypeOK /\ InboxTypeOK

\* Whatever is lost, late, replayed or crashed, the Agent's executors change
\* the backend at most once for a command (reconcileBackendAgentCommandState).
AtMostOnceEffect == \A c \in Command : effects[c] <= 1

\* Nothing is executed before the Core has recorded the Agent's receipt
\* (acceptReceipt): the receipt is the authorization to start.
EffectNeedsReceipt == \A c \in Command : effects[c] > 0 => receipt[c] # 0

\* An effect never goes unaccounted for: the Core has a result, or the Agent's
\* file (BackendAgentCommandStateStore) still says the command was started.
EffectLeavesEvidence ==
    \A c \in Command : effects[c] > 0 =>
        \/ result[c] # NoResult
        \/ inbox.cmd = c /\ inbox.dispatch = "starting"

\* A result tells the truth for ever: "rejected" and "not started" mean that the
\* command never had and never will have an effect, "succeeded" that it had one.
ResultIsTruthful ==
    \A c \in Command :
        /\ result[c].dispatch = "not_started" \/ result[c].category = "rejected"
               => effects[c] = 0
        /\ result[c].category = "succeeded" => effects[c] = 1

\* What the Agent holds acknowledged is what the Core has recorded, so that
\* replacing or retiring an acknowledged inbox entry loses nothing.
AcknowledgedIsRecorded ==
    Occupied =>
        /\ inbox.receiptAcked => receipt[inbox.cmd] = inbox.receiptAt
        /\ inbox.resultAcked => result[inbox.cmd] = inbox.result

\* The state column agrees with the journal tables behind it, also when a
\* receipt or a result arrives after the command was expired.
StateFollowsJournal ==
    \A c \in Command :
        /\ (state[c] \in {"completed", "waiting_reconciliation"})
                <=> (result[c] # NoResult)
        /\ (state[c] = "waiting_reconciliation")
                <=> (result[c].category = "outcome_unknown")
        /\ state[c] = "assigned" => receipt[c] = 0
        /\ state[c] = "received" => receipt[c] # 0

\* A command of an older generation that never got its acknowledgements is
\* evidence: no later step of the running Agent touches the file again.
QuarantineKeepsEvidence == [][phase # "down" /\ Quarantined => inbox' = inbox]_vars

-------------------------------------------------------------------------------
(***************************************************************************)
(* Fairness and liveness.  The Agent's loop takes its own steps and makes  *)
(* both its heartbeat and its capability refresh again and again; a call   *)
(* it keeps repeating is, in the end, answered in time; the Core works off *)
(* abandoned requests.  No fairness for crashes, time-outs, failing disks, *)
(* operators or VDR restarts.                                              *)
(***************************************************************************)
AgentStep ==
    /\ \/ RecoverInterrupted \/ Retire \/ PrepareStarting \/ BeginReceipt
       \/ ExpireOsd \/ ResendReceipt \/ SendResult
       \/ ExpireReady \/ Unauthorized \/ Start \/ RunDirect \/ RunNative
       \/ PersistOutcome
       \/ CycleFails /\ reply.status = "refused"
    /\ UNCHANGED ledgerVars

CapabilityRefresh == SendPoll(TRUE, provider) /\ UNCHANGED ledgerVars

AnswerPoll(refresh) ==
    /\ call \in requests \cap Poll
    /\ call.refresh = refresh
    /\ HandlePoll(call)
    /\ UNCHANGED inboxVars

AnswerReport ==
    /\ call \in requests
    /\ HandleReceipt(call) \/ HandleResult(call)
    /\ UNCHANGED inboxVars

TakeAnswer(step) == step /\ FreshSecond /\ UNCHANGED ledgerVars

WorkOff ==
    \E m \in requests \ {call} :
        /\ HandlePoll(m) \/ HandleReceipt(m) \/ HandleResult(m)
        /\ UNCHANGED inboxVars

Fairness ==
    /\ WF_vars(AgentStep)
    /\ SF_vars(Heartbeat)
    /\ SF_vars(CapabilityRefresh)
    /\ SF_vars(AnswerPoll(FALSE))
    /\ SF_vars(AnswerPoll(TRUE))
    /\ SF_vars(AnswerReport)
    /\ WF_vars(WorkOff)
    /\ SF_vars(TakeAnswer(ReceiptAcknowledged))
    /\ SF_vars(TakeAnswer(ResultAcknowledged))
    /\ SF_vars(TakeAnswer(StoreNothing \/ StoreDuplicate \/ StoreAssignment))
    /\ WF_vars(Tick /\ UNCHANGED <<ledgerVars, inboxVars>>)

FairSpec == Spec /\ Fairness

\* A command in the inbox of a running Agent comes to its end: it is executed,
\* rejected or found unknown, and the Core acknowledges that.  Until then the
\* Agent takes no other command and does not renew its lease.
InboxSettles == (phase # "down" /\ Occupied /\ InContext) ~> (phase = "down" \/ Settled)

\* An assigned command does not stay "assigned" while its Agent runs: it is
\* received, or the expiry pass of a refresh poll closes it.  (Only commands
\* whose deadline the bounded clock can pass.)
AssignedResolves ==
    \A c \in Command :
        (state[c] = "assigned" /\ Deadline(c) < MaxTime)
            ~> (phase = "down" \/ state[c] # "assigned")

-------------------------------------------------------------------------------
(***************************************************************************)
(* Statements of the documentation that the code does not keep.            *)
(***************************************************************************)
\* ADR-0043: the Agent rejects a command whose deadline has expired.
OverdueIsRejected ==
    (phase # "down" /\ Occupied /\ InContext /\ ~HasResult
        /\ inbox.dispatch = "not_started" /\ Due)
    ~> (phase = "down" \/ HasResult)

\* ADR-0040: the Agent rejects a command that was already completed.
CompletedIsRejected ==
    [][\A c \in Command : effects[c] > 0 => effects'[c] = effects[c]]_vars

\* ADR-0043: without a live Agent lease no new execution is authorized.
LeaseAuthorizesExecution == [][effects' # effects => LeaseLive]_vars

-------------------------------------------------------------------------------
(***************************************************************************)
(* Command delivery implements OneShotCommand.                             *)
(***************************************************************************)
VerdictOf(r) ==
    IF r = NoResult THEN "open"
    ELSE IF r.category = "succeeded" THEN "done"
    ELSE IF r.category = "outcome_unknown" THEN "unknown"
    ELSE IF r.dispatch = "not_started" THEN "not_run" ELSE "refused"

OneShot == INSTANCE OneShotCommand WITH
    permitted <- [c \in Command |-> receipt[c] # 0],
    ran       <- [c \in Command |-> effects[c] > 0],
    verdict   <- [c \in Command |-> VerdictOf(result[c])]

\* The whole protocol, seen from the Core's two journals and the backend, is
\* one permission, at most one run and at most one final, truthful verdict,
\* after which the command never runs.
ImplementsOneShot == OneShot!Spec
===============================================================================
