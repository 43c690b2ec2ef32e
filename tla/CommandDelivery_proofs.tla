------------------------- MODULE CommandDelivery_proofs -------------------------
(***************************************************************************)
(* Command delivery is safe for any number of commands, Agent generations, *)
(* VDR restarts and calls in flight: the invariant of CommandInvariant is  *)
(* inductive, and the safety properties of CommandDelivery follow from it. *)
(***************************************************************************)
EXTENDS CommandInvariant, TLAPS

-------------------------------------------------------------------------------
(***************************************************************************)
(* Type correctness.                                                       *)
(***************************************************************************)
USE KindAssumption, TtlAssumption, NoCommandAssumption, BoundAssumption,
    LeaseAssumption

\* What the executors, the expiry and the recovery report is a result.
LEMMA MadeResults ==
    ASSUME now \in Nat
    PROVE  /\ OutcomeUnknown \in Result
           /\ MakeResult("not_started", "rejected", "expired") \in Result
           /\ MakeResult("not_started", "rejected", "fenced") \in Result
           /\ MakeResult("starting", "rejected", "fenced") \in Result
           /\ MakeResult("accepted_by_executor", "rejected", "fenced") \in Result
           /\ MakeResult("accepted_by_executor", "succeeded", "none") \in Result
           /\ MakeResult("accepted_by_executor", "outcome_unknown", "none") \in Result
           /\ MakeResult("effect_reported", "succeeded", "none") \in Result
  BY DEF OutcomeUnknown, MakeResult, Result

LEMMA NoResultIsNone == NoResult \notin Result
  BY DEF NoResult, Result

LEMMA InitType == Init => TypeOK
  BY DEF Init, ChannelInit, LedgerInit, InboxInit, TypeOK, ChannelTypeOK, LedgerTypeOK,
         InboxTypeOK, NotAssigned, Assignment, NoCall, NoReply, Reply, CommandState,
         EmptyInbox, NoResult

LEMMA CoreType == TypeOK /\ Core => TypeOK'
<1> SUFFICES ASSUME TypeOK, Core PROVE TypeOK'
    OBVIOUS
<1> USE DEF TypeOK, ChannelTypeOK, LedgerTypeOK
<1>0. InboxTypeOK'
      BY DEF Core, InboxTypeOK, inboxVars
<1>1. ASSUME NEW c \in Command, Assign(c) PROVE TypeOK'
      BY <1>0, <1>1 DEF Assign, registrationVars, providerVars, Assignment, CommandState
<1>2. ASSUME NEW c \in Command, RequestReplay(c) PROVE TypeOK'
      BY <1>0, <1>2 DEF RequestReplay, channelVars, registrationVars, providerVars
<1>3. ASSUME NEW m \in requests, RefusePoll(m) PROVE TypeOK'
      BY <1>0, <1>3 DEF RefusePoll, Respond, Refused, Reply, ledgerVars
<1>4. ASSUME NEW m \in requests, OfferNothing(m) PROVE TypeOK'
      BY <1>0, <1>4 DEF OfferNothing, Refresh, Respond, Accepted, Reply, registrationVars,
         Published, Poll, CommandState
<1>5. ASSUME NEW m \in requests, NEW c \in Command, Offer(m, c) PROVE TypeOK'
      BY <1>0, <1>5 DEF Offer, Refresh, Respond, Delivered, Reply, registrationVars,
         Published, Poll, CommandState
<1>6. ASSUME NEW m \in requests, RefuseReceipt(m) PROVE TypeOK'
      BY <1>0, <1>6 DEF RefuseReceipt, Respond, Refused, Reply, ledgerVars
<1>7. ASSUME NEW m \in requests, AcceptReceipt(m) PROVE TypeOK'
      BY <1>0, <1>7 DEF AcceptReceipt, Respond, Accepted, Reply, registrationVars,
         providerVars, Receipt, CommandState
<1>8. ASSUME NEW m \in requests, RefuseResult(m) PROVE TypeOK'
      BY <1>0, <1>8 DEF RefuseResult, Respond, Refused, Reply, ledgerVars
<1>9. ASSUME NEW m \in requests, RecordResult(m) PROVE TypeOK'
      BY <1>0, <1>9 DEF RecordResult, Respond, Refused, Accepted, Reply, registrationVars,
         providerVars, ResultReport, CommandState
<1>10. CASE ChangeOwnership
      BY <1>0, <1>10 DEF ChangeOwnership, channelVars, registrationVars, journalVars
<1> QED
      BY <1>1, <1>2, <1>3, <1>4, <1>5, <1>6, <1>7, <1>8, <1>9, <1>10
         DEF Core, CoreNext, HandlePoll, HandleReceipt, HandleResult

\* Counting effects keeps a count for every command.
LEMMA CountType ==
    ASSUME NEW f \in [Command -> Nat], NEW c, NEW n \in {0, 1}
    PROVE  [f EXCEPT ![c] = @ + n] \in [Command -> Nat]
<1>1. CASE c \in Command
      <2>1. f[c] + n \in Nat
            BY <1>1
      <2> QED
            BY <1>1, <2>1
<1>2. CASE c \notin Command
      BY <1>2
<1> QED
      BY <1>1, <1>2

\* A call that ends leaves the channel in order.
LEMMA EndCallType ==
    ASSUME EndCall
    PROVE  call' = NoCall /\ reply' \in Reply /\ requests' = requests
  BY DEF EndCall, NoReply, Reply

\* The steps that send a call, or skip it, keep the channel's and the inbox' types.
LEMMA SendType ==
    ASSUME NEW m \in Message, requests \subseteq Message, Send(m)
    PROVE  requests' \subseteq Message /\ call' \in Message \cup {NoCall} /\ reply' \in Reply
  BY DEF Send, NoReply, Reply

LEMMA AskType ==
    ASSUME TypeOK, Occupied, NEW stored, AskReceipt(stored)
    PROVE  /\ requests' \subseteq Message /\ call' \in Message \cup {NoCall} /\ reply' \in Reply
           /\ phase' \in {"ready", "waiting"}
           /\ UNCHANGED <<now, assigned, agentGen, outcome, provider, effects>>
           /\ inbox' = stored
<1>1. ReceiptMessage \in Message
      BY DEF TypeOK, InboxTypeOK, Occupied, ReceiptMessage, Message, Receipt
<1> QED
      BY <1>1, SendType DEF AskReceipt, TypeOK, ChannelTypeOK

LEMMA AgentType == TypeOK /\ Agent => TypeOK'
<1> SUFFICES ASSUME TypeOK, Agent PROVE TypeOK'
    OBVIOUS
<1> USE DEF TypeOK, ChannelTypeOK, InboxTypeOK
<1>0. LedgerTypeOK'
      BY DEF Agent, LedgerTypeOK, ledgerVars
<1>1. CASE RecoverInterrupted
      BY <1>0, <1>1, MadeResults DEF RecoverInterrupted, Store, channelVars
<1>2. CASE Retire
      BY <1>0, <1>2 DEF Retire, EmptyInbox, channelVars
<1>3. CASE PrepareStarting
      BY <1>0, <1>3, AskType DEF PrepareStarting, Fresh, Reconciling
<1>4. CASE BeginReceipt
      BY <1>0, <1>4, AskType DEF BeginReceipt, Fresh, Reconciling
<1>5. CASE ExpireOsd
      <2>1. ResultMessage(MakeResult("not_started", "rejected", "expired")) \in Message
            BY <1>5, MadeResults DEF ExpireOsd, Fresh, Reconciling, Occupied, ResultMessage,
               Message, ResultReport
      <2> QED
            BY <1>0, <1>5, <2>1, SendType, MadeResults DEF ExpireOsd, Store
<1>6. CASE ResendReceipt
      <2>1. ReceiptMessage \in Message
            BY <1>6 DEF ResendReceipt, Reconciling, Occupied, ReceiptMessage, Message, Receipt
      <2> QED
            BY <1>0, <1>6, <2>1, SendType DEF ResendReceipt
<1>7. CASE SendResult
      <2>1. ResultMessage(inbox.result) \in Message
            BY <1>7 DEF SendResult, Reconciling, Occupied, HasResult, ResultMessage,
               Message, ResultReport
      <2>2. /\ Send(ResultMessage(inbox.result))
            /\ phase' = "waiting"
            /\ UNCHANGED <<now, assigned, agentGen, inbox, outcome, provider, effects>>
            BY <1>7 DEF SendResult
      <2>3. requests' \subseteq Message /\ call' \in Message \cup {NoCall} /\ reply' \in Reply
            BY <2>1, <2>2, SendType
      <2>4. ChannelTypeOK'
            BY <2>2, <2>3
      <2>5. InboxTypeOK'
            BY <2>2
      <2> QED
            BY <1>0, <2>4, <2>5
<1>8. CASE ReceiptAcknowledged \/ ResultAcknowledged
      BY <1>0, <1>8, EndCallType DEF ReceiptAcknowledged, ResultAcknowledged
<1>9. CASE ExpireReady \/ Unauthorized
      <2>1. /\ phase' = "idle"
            /\ UNCHANGED <<now, assigned, requests, call, reply, agentGen, outcome,
                           provider, effects>>
            BY <1>9 DEF ExpireReady, Unauthorized, channelVars
      <2>2. PICK r \in Result : inbox' = inbox \/ Store(r)
            BY <1>9, MadeResults DEF ExpireReady, Unauthorized
      <2>3. InboxTypeOK'
            BY <2>1, <2>2 DEF Store
      <2> QED
            BY <1>0, <2>1, <2>3
<1>10. CASE Start
      BY <1>0, <1>10 DEF Start, channelVars
<1>11. CASE PersistOutcome \/ PersistFails
      BY <1>0, <1>11 DEF PersistOutcome, PersistFails, Store, channelVars
<1>12. ASSUME NEW refresh \in BOOLEAN, NEW epoch \in Nat, SendPoll(refresh, epoch)
       PROVE  TypeOK'
      <2>1. [type |-> "poll", gen |-> agentGen, refresh |-> refresh, epoch |-> epoch] \in Message
            BY DEF Message, Poll
      <2> QED
            BY <1>0, <1>12, <2>1, SendType DEF SendPoll
<1>13. CASE StoreNothing \/ StoreDuplicate \/ CycleFails
      BY <1>0, <1>13, EndCallType DEF StoreNothing, StoreDuplicate, CycleFails
<1>14. CASE StoreAssignment
      BY <1>0, <1>14, EndCallType DEF StoreAssignment, Reply, EmptyInbox
<1>15. CASE Crash
      BY <1>0, <1>15, EndCallType DEF Crash
<1>16. CASE ProviderRestart
      BY <1>0, <1>16 DEF ProviderRestart, channelVars
<1>17. ASSUME NEW r \in Result, NEW effect \in {0, 1}, Ran(r, effect) PROVE TypeOK'
      <2>1. effects' \in [Command -> Nat]
            BY <1>17, CountType DEF Ran
      <2> QED
            BY <1>0, <1>17, <2>1 DEF Ran, channelVars
<1>18. CASE RunDirect
      BY <1>17, <1>18, MadeResults DEF RunDirect, RunProbe, RunOsd, RunImport
<1>19. CASE RunNative
      BY <1>17, <1>19, MadeResults DEF RunNative
<1> QED
      BY <1>1, <1>2, <1>3, <1>4, <1>5, <1>6, <1>7, <1>8, <1>9, <1>10, <1>11, <1>12, <1>13,
         <1>14, <1>15, <1>16, <1>18, <1>19
         DEF Agent, AgentNext, Reconcile, Execute, Receive

LEMMA NextType == TypeOK /\ [Next]_vars => TypeOK'
<1> SUFFICES ASSUME TypeOK, [Next]_vars PROVE TypeOK'
    OBVIOUS
<1> USE DEF TypeOK, ChannelTypeOK, LedgerTypeOK, InboxTypeOK
<1>1. CASE Connect
      BY <1>1 DEF Connect, channelVars, providerVars, journalVars
<1>2. CASE RenewLease
      BY <1>2 DEF RenewLease, Heartbeat, RenewDuringImport, LeaseRenewed, channelVars,
         providerVars, journalVars, inboxVars
<1>3. CASE Environment
      BY <1>3 DEF Environment, Tick, Lose, ledgerVars, inboxVars
<1>4. CASE UNCHANGED vars
      BY <1>4 DEF vars, channelVars, ledgerVars, inboxVars
<1> QED
      BY <1>1, <1>2, <1>3, <1>4, CoreType, AgentType DEF Next

\* Every variable keeps a value of its kind, in the Core's tables, in the Agent's
\* file and in the calls between them.
THEOREM TypeCorrect == Spec => []TypeOK
  BY InitType, NextType, PTL DEF Spec

-------------------------------------------------------------------------------
(***************************************************************************)
(* The steps of the Core that record neither a receipt nor a result.       *)
(***************************************************************************)
QuietCore ==
    /\ UNCHANGED <<now, call, receipt, result, inboxVars>>
    /\ requests' \subseteq requests
    /\ reply'.status = "ok" => reply' = reply \/ call.type = "poll"

LEMMA CoreSteps ==
    ASSUME TypeOK, Core
    PROVE  \/ QuietCore
           \/ \E m \in requests : AcceptReceipt(m) \/ RecordResult(m)
<1> USE DEF QuietCore, Core
<1>1. ASSUME NEW c \in Command, Assign(c) PROVE QuietCore
      BY <1>1 DEF Assign
<1>2. ASSUME NEW c \in Command, RequestReplay(c) PROVE QuietCore
      BY <1>2 DEF RequestReplay, channelVars
<1>3. ASSUME NEW m \in requests,
             RefusePoll(m) \/ RefuseReceipt(m) \/ RefuseResult(m)
      PROVE  QuietCore
      BY <1>3 DEF RefusePoll, RefuseReceipt, RefuseResult, Respond, Refused, ledgerVars
<1>4. ASSUME NEW m \in requests, OfferNothing(m) \/ \E c \in Command : Offer(m, c)
      PROVE  QuietCore
      <2>1. m \in Poll
            BY <1>4 DEF OfferNothing, Offer, Refresh
      <2>2. m.type = "poll"
            BY <2>1 DEF Poll
      <2> QED
            BY <1>4, <2>2 DEF OfferNothing, Offer, Refresh, Respond
<1>5. CASE ChangeOwnership
      BY <1>5 DEF ChangeOwnership, channelVars, journalVars
<1> QED
      BY <1>1, <1>2, <1>3, <1>4, <1>5 DEF CoreNext, HandlePoll, HandleReceipt, HandleResult

-------------------------------------------------------------------------------
(***************************************************************************)
(* Where the cycle stands, what its call is about, what is acknowledged.   *)
(***************************************************************************)
LEMMA InitInv == Init => IInv
<1> SUFFICES ASSUME Init PROVE IInv
    OBVIOUS
<1> USE DEF Init, ChannelInit, LedgerInit, InboxInit, EmptyInbox, Occupied
<1>1. TypeOK
      BY InitType
<1>2. PhaseInv
      BY DEF PhaseInv
<1>3. CallInv
      BY DEF CallInv, NoReply
<1>4. AckInv
      BY DEF AckInv, AcknowledgedIsRecorded
<1>5. EffectInv
      BY DEF EffectInv, Unresolved
<1> QED
      BY <1>1, <1>2, <1>3, <1>4, <1>5 DEF IInv

\* While the executor can be reached, nothing is recorded or has happened yet.
LEMMA ReadyIsUntouched ==
    ASSUME IInv, phase \in {"ready", "running"}
    PROVE  /\ inbox.cmd \in Command
           /\ result[inbox.cmd] = NoResult
           /\ effects[inbox.cmd] = 0
           /\ receipt[inbox.cmd] = inbox.receiptAt
           /\ receipt[inbox.cmd] # 0
<1>1. /\ inbox.cmd \in Command
      /\ ~HasResult
      /\ receipt[inbox.cmd] = inbox.receiptAt
      /\ receipt[inbox.cmd] # 0
      BY DEF IInv, PhaseInv, AckInv, AcknowledgedIsRecorded, TypeOK, InboxTypeOK, Occupied
<1>2. Runnable
      BY <1>1 DEF Runnable
<1>3. result[inbox.cmd] = NoResult
      BY <1>1, <1>2 DEF IInv, EffectInv, Resolved
<1>4. ~(effects[inbox.cmd] > 0)
      BY <1>1, <1>2, <1>3 DEF IInv, EffectInv, Unresolved
<1>5. effects[inbox.cmd] \in Nat
      BY <1>1 DEF IInv, TypeOK, InboxTypeOK
<1> QED
      BY <1>1, <1>3, <1>4, <1>5

LEMMA CorePhase == IInv /\ Core => PhaseInv'
<1> SUFFICES ASSUME IInv, Core PROVE PhaseInv'
    OBVIOUS
<1> USE DEF PhaseInv, Occupied, InContext, HasResult, Truthful
<1>0. UNCHANGED inboxVars /\ PhaseInv /\ TypeOK
      BY DEF Core, IInv
<1>1. CASE QuietCore
      BY <1>0, <1>1 DEF QuietCore, inboxVars
<1>2. ASSUME NEW m \in requests, AcceptReceipt(m) PROVE PhaseInv'
      BY <1>0, <1>2 DEF AcceptReceipt, inboxVars
<1>3. ASSUME NEW m \in requests, RecordResult(m) PROVE PhaseInv'
      <2>1. ASSUME phase = "ran" PROVE m.cmd # inbox.cmd
            <3>1. m \in ResultReport /\ m.result \in Result /\ inbox.cmd \in Command
                  BY <1>0, <1>3, <2>1 DEF RecordResult, ResultReport, TypeOK, InboxTypeOK
            <3>2. Unresolved(inbox.cmd)
                  BY <1>0, <2>1, <3>1 DEF IInv, EffectInv
            <3> QED
                  BY <1>0, <2>1, <3>1, <3>2, NoResultIsNone DEF Unresolved
      <2>2. m.cmd # inbox.cmd => result'[inbox.cmd] = result[inbox.cmd]
            BY <1>0, <1>3 DEF RecordResult, TypeOK, LedgerTypeOK
      <2> QED
            BY <1>0, <1>3, <2>1, <2>2 DEF inboxVars
<1> QED
      BY <1>0, <1>1, <1>2, <1>3, CoreSteps

LEMMA AgentPhase == IInv /\ Agent => PhaseInv'
<1> SUFFICES ASSUME IInv, Agent PROVE PhaseInv'
    OBVIOUS
<1> USE DEF PhaseInv, Occupied, InContext, HasResult
<1>0. PhaseInv /\ TypeOK /\ result' = result
      BY DEF IInv, Agent, ledgerVars
<1>1. CASE \/ RecoverInterrupted \/ Retire \/ ExpireOsd \/ ResendReceipt \/ SendResult
           \/ ResultAcknowledged \/ ExpireReady \/ Unauthorized \/ PersistOutcome
           \/ PersistFails \/ StoreNothing \/ StoreDuplicate \/ StoreAssignment
           \/ CycleFails \/ Crash
      <2>1. phase' \notin {"ready", "running", "ran"}
            BY <1>1 DEF RecoverInterrupted, Retire, ExpireOsd, ResendReceipt, SendResult,
               ResultAcknowledged, ExpireReady, Unauthorized, PersistOutcome, PersistFails,
               StoreNothing, StoreDuplicate, StoreAssignment, CycleFails, Crash, Reconciling
      <2> QED
            BY <2>1
<1>2. CASE PrepareStarting \/ BeginReceipt
      <2>1. /\ Occupied /\ InContext /\ ~HasResult
            /\ agentGen' = agentGen
            /\ phase' = "waiting" \/ (phase' = "ready" /\ inbox.receiptAcked)
            /\ inbox' = inbox \/ inbox' = [inbox EXCEPT !.dispatch = "starting"]
            <3>1. Fresh
                  BY <1>2 DEF PrepareStarting, BeginReceipt
            <3>2. AskReceipt(inbox) \/ AskReceipt([inbox EXCEPT !.dispatch = "starting"])
                  BY <1>2 DEF PrepareStarting, BeginReceipt
            <3> QED
                  BY <3>1, <3>2 DEF AskReceipt, Fresh, Reconciling
      <2> QED
            BY <1>0, <2>1 DEF TypeOK, InboxTypeOK
<1>3. CASE ReceiptAcknowledged
      <2>1. Occupied /\ InContext
            BY <1>3 DEF IInv, CallInv, ReceiptAcknowledged, Answered
      <2> QED
            BY <1>0, <1>3, <2>1 DEF ReceiptAcknowledged, TypeOK, InboxTypeOK
<1>4. CASE Start
      BY <1>0, <1>4 DEF Start, TypeOK, InboxTypeOK
<1>5. ASSUME NEW refresh, NEW epoch, SendPoll(refresh, epoch) PROVE PhaseInv'
      BY <1>5 DEF SendPoll
<1>6. CASE ProviderRestart
      BY <1>0, <1>6 DEF ProviderRestart, Truthful
<1>7. ASSUME NEW r, NEW effect \in {0, 1}, Ran(r, effect), phase \in {"ready", "running"},
             inbox.dispatch = "starting",
             r.dispatch = "not_started" \/ r.category = "rejected" => effect = 0,
             r.category = "succeeded" => effect = 1
      PROVE  PhaseInv'
      <2>1. effects'[inbox.cmd] = effect
            BY <1>0, <1>7, ReadyIsUntouched DEF Ran, TypeOK, InboxTypeOK
      <2>2. Truthful(outcome, inbox.cmd)'
            BY <1>7, <2>1 DEF Ran, Truthful
      <2> QED
            BY <1>0, <1>7, <2>2, ReadyIsUntouched DEF Ran
<1>8. CASE RunDirect
      BY <1>0, <1>7, <1>8 DEF RunDirect, RunProbe, RunOsd, RunImport, OutcomeUnknown, MakeResult
<1>9. CASE RunNative
      BY <1>0, <1>7, <1>9 DEF RunNative, OutcomeUnknown, MakeResult
<1> QED
      BY <1>1, <1>2, <1>3, <1>4, <1>5, <1>6, <1>8, <1>9
         DEF Agent, AgentNext, Reconcile, Execute, Receive

\* An answer reaches the Agent only if it still waits for one.
LEMMA AnswerNeedsCall ==
    ASSUME TypeOK, call = NoCall, NEW m \in requests, NEW answer, Respond(m, answer)
    PROVE  reply' = reply
<1>1. m.type # "none"
      BY DEF TypeOK, ChannelTypeOK, Message, Receipt, ResultReport, Poll
<1> QED
      BY <1>1 DEF NoCall, Respond

LEMMA CoreAnswers ==
    ASSUME TypeOK, Core, call = NoCall
    PROVE  reply' = reply
<1>1. ASSUME NEW m \in requests, NEW answer, Respond(m, answer) PROVE reply' = reply
      BY <1>1, AnswerNeedsCall
<1>2. ASSUME NEW m \in requests, HandlePoll(m) PROVE reply' = reply
      BY <1>1, <1>2 DEF HandlePoll, RefusePoll, OfferNothing, Offer
<1>3. ASSUME NEW m \in requests, HandleReceipt(m) PROVE reply' = reply
      BY <1>1, <1>3 DEF HandleReceipt, RefuseReceipt, AcceptReceipt
<1>4. ASSUME NEW m \in requests, HandleResult(m) PROVE reply' = reply
      BY <1>1, <1>4 DEF HandleResult, RefuseResult, RecordResult
<1>5. ASSUME NEW c \in Command, Assign(c) \/ RequestReplay(c) PROVE reply' = reply
      BY <1>5 DEF Assign, RequestReplay, channelVars
<1>6. CASE ChangeOwnership
      BY <1>6 DEF ChangeOwnership, channelVars
<1> QED
      BY <1>2, <1>3, <1>4, <1>5, <1>6 DEF Core, CoreNext

LEMMA CoreCall == IInv /\ Core => CallInv'
<1> SUFFICES ASSUME IInv, Core PROVE CallInv'
    OBVIOUS
<1> USE DEF CallInv, Occupied, InContext, HasResult, Settled, Historical, Interrupted,
            ReceiptMessage, ResultMessage
<1>0. UNCHANGED inboxVars /\ CallInv /\ TypeOK
      BY DEF Core, IInv
<1>1. phase # "waiting" => reply' = NoReply
      BY <1>0, CoreAnswers
<1>2. ASSUME UNCHANGED <<call, inboxVars>>,
             reply'.status = "ok" =>
                 /\ call.type = "receipt" => receipt'[call.cmd] = call.at
                 /\ call.type = "result" => result'[call.cmd] = call.result
      PROVE  CallInv'
      <2>1. UNCHANGED <<call, phase, inbox, agentGen>>
            BY <1>2 DEF inboxVars
      <2> QED
            BY <1>0, <1>1, <1>2, <2>1
<1>3. CASE QuietCore
      BY <1>0, <1>2, <1>3 DEF QuietCore
<1>4. ASSUME NEW m \in requests, AcceptReceipt(m) PROVE CallInv'
      <2>1. m \in Receipt /\ m.cmd \in Command /\ m.type = "receipt"
            BY <1>4 DEF AcceptReceipt, Receipt
      <2>2. receipt'[m.cmd] = m.at
            BY <1>0, <1>4, <2>1 DEF AcceptReceipt, TypeOK, LedgerTypeOK
      <2>3. \A c \in Command : receipt[c] # 0 => receipt'[c] = receipt[c]
            BY <1>0, <1>4, <2>1 DEF AcceptReceipt, Acceptable, TypeOK, LedgerTypeOK
      <2>4. ASSUME reply'.status = "ok", call # m
            PROVE  /\ call.type = "receipt" => receipt'[call.cmd] = call.at
                   /\ call.type = "result" => result'[call.cmd] = call.result
            <3>1. reply' = reply /\ reply # NoReply
                  BY <1>4, <2>4 DEF AcceptReceipt, Respond, NoReply
            <3>2. phase = "waiting"
                  BY <1>0, <3>1
            <3>3. call.type = "receipt" => call.cmd \in Command /\ receipt[call.cmd] # 0
                  BY <1>0, <2>4, <3>1, <3>2 DEF IInv, AckInv, TypeOK, InboxTypeOK
            <3> QED
                  BY <1>0, <1>4, <2>3, <2>4, <3>1, <3>3 DEF AcceptReceipt
      <2>5. UNCHANGED <<call, inboxVars>>
            BY <1>0, <1>4 DEF AcceptReceipt, Respond
      <2> QED
            BY <1>2, <2>1, <2>2, <2>4, <2>5
<1>5. ASSUME NEW m \in requests, RecordResult(m) PROVE CallInv'
      <2>1. m \in ResultReport /\ m.cmd \in Command /\ m.type = "result"
            BY <1>5 DEF RecordResult, ResultReport
      <2>2. result'[m.cmd] = m.result
            BY <1>0, <1>5, <2>1 DEF RecordResult, TypeOK, LedgerTypeOK
      <2>3. \A c \in Command : result[c] # NoResult => result'[c] = result[c]
            BY <1>0, <1>5, <2>1 DEF RecordResult, Recordable, TypeOK, LedgerTypeOK
      <2>4. ASSUME reply'.status = "ok", call # m
            PROVE  /\ call.type = "receipt" => receipt'[call.cmd] = call.at
                   /\ call.type = "result" => result'[call.cmd] = call.result
            <3>1. reply' = reply /\ reply # NoReply
                  BY <1>5, <2>4 DEF RecordResult, Respond, NoReply
            <3>2. phase = "waiting"
                  BY <1>0, <3>1
            <3>3. call.type = "result" => call.cmd \in Command /\ result[call.cmd] # NoResult
                  BY <1>0, <2>4, <3>1, <3>2 DEF TypeOK, InboxTypeOK
            <3> QED
                  BY <1>0, <1>5, <2>3, <2>4, <3>1, <3>3 DEF RecordResult
      <2>5. UNCHANGED <<call, inboxVars>>
            BY <1>0, <1>5 DEF RecordResult, Respond
      <2> QED
            BY <1>2, <2>1, <2>2, <2>4, <2>5
<1> QED
      BY <1>0, <1>3, <1>4, <1>5, CoreSteps

LEMMA AgentCall == IInv /\ Agent => CallInv'
<1> SUFFICES ASSUME IInv, Agent PROVE CallInv'
    OBVIOUS
<1>0. CallInv /\ TypeOK /\ UNCHANGED <<receipt, result>>
      BY DEF IInv, Agent, ledgerVars
\* A new call has no answer yet.
<1>1. CASE PrepareStarting \/ BeginReceipt
      <2>1. Fresh
            BY <1>1 DEF PrepareStarting, BeginReceipt
      <2>2. AskReceipt(inbox) \/ AskReceipt([inbox EXCEPT !.dispatch = "starting"])
            BY <1>1 DEF PrepareStarting, BeginReceipt
      <2>3. /\ inbox'.cmd = inbox.cmd /\ inbox'.gen = inbox.gen
            /\ inbox'.receiptAt = inbox.receiptAt
            /\ agentGen' = agentGen
            BY <1>0, <2>2 DEF AskReceipt, TypeOK, InboxTypeOK
      <2>4. CASE inbox.receiptAcked
            BY <1>0, <2>1, <2>2, <2>4 DEF CallInv, AskReceipt, Fresh, Reconciling, NoReply,
               NoCall
      <2>5. CASE ~inbox.receiptAcked
            BY <2>1, <2>2, <2>3, <2>5 DEF CallInv, AskReceipt, Fresh, Reconciling, Occupied,
               InContext, ReceiptMessage, Send, NoReply
      <2> QED
            BY <2>4, <2>5
<1>2. CASE ExpireOsd
      BY <1>0, <1>2 DEF CallInv, ExpireOsd, Fresh, Reconciling, Occupied, InContext, Store,
         HasResult, ResultMessage, MakeResult, NoResult, Send, NoReply, TypeOK, InboxTypeOK
<1>3. CASE ResendReceipt
      BY <1>0, <1>3 DEF CallInv, ResendReceipt, Reconciling, Occupied, InContext,
         ReceiptMessage, Send, NoReply
<1>4. CASE SendResult
      BY <1>0, <1>4 DEF CallInv, SendResult, Reconciling, Occupied, InContext, HasResult,
         Historical, ResultMessage, Send, NoReply
<1>5. ASSUME NEW refresh, NEW epoch, SendPoll(refresh, epoch) PROVE CallInv'
      BY <1>0, <1>5 DEF CallInv, SendPoll, Settled, Occupied, HasResult, Send, NoReply
\* The end of a call.
<1>6. CASE \/ ReceiptAcknowledged \/ ResultAcknowledged \/ StoreNothing \/ StoreDuplicate
           \/ StoreAssignment \/ CycleFails \/ Crash
      <2>1. EndCall /\ phase' # "waiting"
            BY <1>6 DEF ReceiptAcknowledged, ResultAcknowledged, StoreNothing, StoreDuplicate,
               StoreAssignment, CycleFails, Crash
      <2> QED
            BY <2>1 DEF CallInv, EndCall, NoReply
\* No call before, none after.
<1>7. CASE \/ RecoverInterrupted \/ Retire \/ ExpireReady \/ Unauthorized \/ Start
           \/ PersistOutcome \/ PersistFails
      <2>1. phase # "waiting" /\ phase' # "waiting" /\ UNCHANGED <<call, reply>>
            BY <1>7 DEF RecoverInterrupted, Retire, ExpireReady, Unauthorized, Start,
               PersistOutcome, PersistFails, Reconciling, channelVars
      <2> QED
            BY <1>0, <2>1 DEF CallInv, NoReply
<1>8. ASSUME NEW r, NEW effect, Ran(r, effect), phase # "waiting" PROVE CallInv'
      BY <1>0, <1>8 DEF CallInv, Ran, channelVars, NoReply
<1>9. CASE RunDirect
      BY <1>8, <1>9 DEF RunDirect, RunProbe, RunOsd, RunImport
<1>10. CASE RunNative
      BY <1>8, <1>10 DEF RunNative
<1>11. CASE ProviderRestart
      BY <1>0, <1>11 DEF ProviderRestart, channelVars, CallInv, Settled, Occupied, HasResult,
         InContext, Historical, ReceiptMessage, ResultMessage
<1> QED
      BY <1>1, <1>2, <1>3, <1>4, <1>5, <1>6, <1>7, <1>9, <1>10, <1>11
         DEF Agent, AgentNext, Reconcile, Execute, Receive

LEMMA CoreAck == IInv /\ Core => AckInv'
<1> SUFFICES ASSUME IInv, Core PROVE AckInv'
    OBVIOUS
<1> USE DEF AckInv, AcknowledgedIsRecorded, Occupied, HasResult
<1>0. UNCHANGED <<inbox, now>> /\ AckInv /\ TypeOK
      <2>1. ASSUME NEW m \in requests, AcceptReceipt(m) \/ RecordResult(m) PROVE now' = now
            BY <2>1 DEF AcceptReceipt, RecordResult
      <2> QED
            BY <2>1, CoreSteps DEF Core, IInv, inboxVars, QuietCore
<1>1. CASE QuietCore
      BY <1>0, <1>1 DEF QuietCore
<1>2. ASSUME NEW m \in requests, AcceptReceipt(m) PROVE AckInv'
      <2>1. \A c \in Command : receipt[c] # 0 => receipt'[c] = receipt[c]
            BY <1>0, <1>2 DEF AcceptReceipt, Acceptable, Receipt, TypeOK, LedgerTypeOK
      <2>2. result' = result
            BY <1>2 DEF AcceptReceipt
      <2> QED
            BY <1>0, <2>1, <2>2 DEF TypeOK, InboxTypeOK
<1>3. ASSUME NEW m \in requests, RecordResult(m) PROVE AckInv'
      <2>1. \A c \in Command : result[c] # NoResult => result'[c] = result[c]
            BY <1>0, <1>3 DEF RecordResult, Recordable, ResultReport, TypeOK, LedgerTypeOK
      <2>2. receipt' = receipt
            BY <1>3 DEF RecordResult
      <2> QED
            BY <1>0, <2>1, <2>2 DEF TypeOK, InboxTypeOK
<1> QED
      BY <1>0, <1>1, <1>2, <1>3, CoreSteps

LEMMA AgentAck == IInv /\ Agent => AckInv'
<1> SUFFICES ASSUME IInv, Agent PROVE AckInv'
    OBVIOUS
<1> USE DEF AckInv, AcknowledgedIsRecorded, Occupied, HasResult
<1>0. AckInv /\ TypeOK /\ UNCHANGED <<receipt, result>>
      BY DEF IInv, Agent, ledgerVars
<1> USE DEF TypeOK, InboxTypeOK, ChannelTypeOK
<1>1. CASE RecoverInterrupted
      BY <1>0, <1>1 DEF RecoverInterrupted, Store, channelVars
<1>2. CASE Retire
      BY <1>0, <1>2 DEF Retire, EmptyInbox, channelVars
<1>3. CASE PrepareStarting \/ BeginReceipt
      <2>1. /\ inbox' = inbox \/ inbox' = [inbox EXCEPT !.dispatch = "starting"]
            /\ now' = now
            BY <1>3 DEF PrepareStarting, BeginReceipt, AskReceipt
      <2>2. /\ inbox'.cmd = inbox.cmd
            /\ inbox'.receiptAt = inbox.receiptAt
            /\ inbox'.receiptAcked = inbox.receiptAcked
            /\ inbox'.resultAcked = inbox.resultAcked
            /\ inbox'.result = inbox.result
            BY <1>0, <2>1
      <2> QED
            BY <1>0, <2>1, <2>2
<1>4. CASE ExpireOsd \/ ExpireReady \/ Unauthorized
      <2>1. now' = now
            BY <1>4 DEF ExpireOsd, ExpireReady, Unauthorized, channelVars
      <2>2. inbox' = inbox \/ \E r : Store(r)
            BY <1>4 DEF ExpireOsd, ExpireReady, Unauthorized
      <2>3. CASE inbox' = inbox
            BY <1>0, <2>1, <2>3
      <2>4. CASE \E r : Store(r)
            <3>1. PICK r : Store(r)
                  BY <2>4
            <3>2. /\ inbox'.cmd = inbox.cmd
                  /\ inbox'.receiptAt = inbox.receiptAt
                  /\ inbox'.receiptAcked = inbox.receiptAcked
                  /\ inbox'.resultAcked = FALSE
                  BY <1>0, <3>1 DEF Store
            <3> QED
                  BY <1>0, <2>1, <3>2
      <2> QED
            BY <2>2, <2>3, <2>4
<1>5. CASE ReceiptAcknowledged
      <2>1. receipt[inbox.cmd] = inbox.receiptAt
            BY <1>5 DEF IInv, CallInv, ReceiptAcknowledged, Answered, ReceiptMessage
      <2> QED
            BY <1>0, <1>5, <2>1 DEF ReceiptAcknowledged
<1>6. CASE ResultAcknowledged
      <2>1. HasResult /\ result[inbox.cmd] = inbox.result
            BY <1>6 DEF IInv, CallInv, ResultAcknowledged, Answered, ResultMessage
      <2> QED
            BY <1>0, <1>6, <2>1 DEF ResultAcknowledged
<1>7. CASE Start
      BY <1>0, <1>7 DEF Start, channelVars
<1>8. CASE PersistOutcome
      BY <1>0, <1>8 DEF PersistOutcome, Store, channelVars
<1>9. CASE StoreDuplicate
      BY <1>0, <1>9 DEF StoreDuplicate
<1>10. CASE StoreAssignment
      BY <1>0, <1>10 DEF StoreAssignment, EmptyInbox
<1>11. ASSUME UNCHANGED <<now, inbox>> PROVE AckInv'
      BY <1>0, <1>11
<1>12. CASE \/ ResendReceipt \/ SendResult \/ PersistFails \/ StoreNothing \/ CycleFails
            \/ Crash \/ ProviderRestart
            \/ \E refresh, epoch : SendPoll(refresh, epoch)
      BY <1>11, <1>12 DEF ResendReceipt, SendResult, PersistFails, StoreNothing, CycleFails,
         Crash, ProviderRestart, SendPoll, channelVars
<1>13. ASSUME NEW r, NEW effect, Ran(r, effect) PROVE AckInv'
      BY <1>11, <1>13 DEF Ran, channelVars
<1>14. CASE RunDirect
      BY <1>13, <1>14 DEF RunDirect, RunProbe, RunOsd, RunImport
<1>15. CASE RunNative
      BY <1>13, <1>15 DEF RunNative
<1> QED
      BY <1>1, <1>2, <1>3, <1>4, <1>5, <1>6, <1>7, <1>8, <1>9, <1>10, <1>12, <1>14, <1>15
         DEF Agent, AgentNext, Reconcile, Execute, Receive

-------------------------------------------------------------------------------
(***************************************************************************)
(* At most one effect.                                                     *)
(***************************************************************************)
\* Steps that record and cause nothing, make no command runnable and send only
\* what the inbox says.
LEMMA QuietEffect ==
    ASSUME IInv, UNCHANGED <<receipt, result, effects>>,
           inbox'.cmd = inbox.cmd, inbox'.receiptAt = inbox.receiptAt,
           inbox'.result = inbox.result,
           inbox.dispatch = "starting" => inbox'.dispatch = "starting",
           \A m \in requests' : m \in Receipt =>
               m \in requests \/ (m.cmd = inbox.cmd /\ m.at = inbox.receiptAt),
           \A m \in requests' : m \in ResultReport =>
               m \in requests \/ (m.cmd = inbox.cmd /\ m.result = inbox.result),
           Occupied => (Runnable' => Runnable)
    PROVE  EffectInv'
<1> SUFFICES ASSUME NEW c \in Command
             PROVE  /\ effects[c] <= 1
                    /\ IF result[c] = NoResult THEN Unresolved(c)' ELSE Resolved(c)'
    BY DEF EffectInv
<1>1. effects[c] <= 1
      BY DEF IInv, EffectInv
<1>2. inbox.cmd = c => (Runnable' => Runnable)
      BY DEF Occupied
<1>3. ASSUME result[c] = NoResult PROVE Unresolved(c)'
      BY <1>2, <1>3 DEF IInv, EffectInv, Unresolved, Truthful
<1>4. ASSUME result[c] # NoResult PROVE Resolved(c)'
      BY <1>2, <1>4 DEF IInv, EffectInv, Resolved, Truthful
<1> QED
      BY <1>1, <1>3, <1>4

LEMMA CoreEffect == IInv /\ Core => EffectInv'
<1> SUFFICES ASSUME IInv, Core PROVE EffectInv'
    OBVIOUS
<1>0. UNCHANGED <<phase, inbox, effects>> /\ EffectInv /\ TypeOK
      BY DEF Core, IInv, inboxVars
<1>1. Runnable' <=> Runnable
      BY <1>0 DEF Runnable, HasResult
<1>2. CASE QuietCore
      BY <1>0, <1>1, <1>2, QuietEffect DEF QuietCore
<1>3. ASSUME NEW m \in requests, AcceptReceipt(m) PROVE EffectInv'
      <2>1. /\ m \in Receipt /\ m.cmd \in Command /\ m.at \in Nat
            /\ requests' \subseteq requests
            /\ result' = result
            BY <1>3 DEF AcceptReceipt, Respond, Receipt
      <2>2. /\ receipt' = [receipt EXCEPT ![m.cmd] = m.at]
            /\ receipt[m.cmd] \in {0, m.at}
            BY <1>3 DEF AcceptReceipt, Acceptable
      <2>3. ASSUME NEW c \in Command, result[c] = NoResult PROVE Unresolved(c)'
            <3>1. Unresolved(c)
                  BY <1>0, <2>3 DEF EffectInv
            <3>2. receipt'[c] # 0 => inbox.cmd = c /\ inbox.receiptAt = receipt'[c]
                  BY <1>0, <2>1, <2>2, <3>1 DEF Unresolved, TypeOK, LedgerTypeOK
            <3>3. receipt[c] # 0 => receipt'[c] # 0
                  BY <1>0, <2>1, <2>2 DEF TypeOK, LedgerTypeOK
            <3> QED
                  BY <1>0, <1>1, <2>1, <3>1, <3>2, <3>3 DEF Unresolved, Truthful
      <2>4. ASSUME NEW c \in Command, result[c] # NoResult PROVE Resolved(c)'
            <3>1. Resolved(c)
                  BY <1>0, <2>4 DEF EffectInv
            <3>2. receipt'[c] = receipt[c]
                  BY <1>0, <2>1, <2>2, <3>1 DEF Resolved, TypeOK, LedgerTypeOK
            <3> QED
                  BY <1>0, <1>1, <2>1, <3>1, <3>2 DEF Resolved, Truthful
      <2> QED
            BY <1>0, <2>1, <2>3, <2>4 DEF EffectInv
<1>4. ASSUME NEW m \in requests, RecordResult(m) PROVE EffectInv'
      <2>1. /\ m \in ResultReport /\ m.cmd \in Command /\ m.result \in Result
            /\ requests' \subseteq requests
            /\ receipt' = receipt
            BY <1>4 DEF RecordResult, Respond, ResultReport
      <2>2. /\ result' = [result EXCEPT ![m.cmd] = m.result]
            /\ result[m.cmd] \in {NoResult, m.result}
            /\ receipt[m.cmd] # 0
            BY <1>4 DEF RecordResult, Recordable
      <2>3. ASSUME NEW c \in Command, result'[c] = NoResult PROVE Unresolved(c)'
            <3>1. result[c] = NoResult /\ Unresolved(c)
                  BY <1>0, <2>1, <2>2, <2>3, NoResultIsNone DEF EffectInv, TypeOK, LedgerTypeOK
            <3> QED
                  BY <1>0, <1>1, <2>1, <3>1 DEF Unresolved, Truthful
      <2>4. ASSUME NEW c \in Command, result[c] # NoResult PROVE Resolved(c)'
            <3>1. Resolved(c) /\ result'[c] = result[c]
                  BY <1>0, <2>1, <2>2, <2>4 DEF EffectInv, TypeOK, LedgerTypeOK
            <3> QED
                  BY <1>0, <1>1, <2>1, <3>1 DEF Resolved, Truthful
      <2>5. ASSUME result[m.cmd] = NoResult PROVE Resolved(m.cmd)'
            <3>1. Unresolved(m.cmd)
                  BY <1>0, <2>1, <2>5 DEF EffectInv
            <3>2. inbox.cmd = m.cmd /\ inbox.result = m.result
                  BY <2>1, <3>1 DEF Unresolved
            <3>3. HasResult /\ Truthful(m.result, m.cmd)
                  BY <2>1, <3>1, <3>2, NoResultIsNone DEF Unresolved, HasResult
            <3>4. result'[m.cmd] = m.result
                  BY <1>0, <2>1, <2>2 DEF TypeOK, LedgerTypeOK
            <3> QED
                  BY <1>0, <1>1, <2>1, <2>2, <3>3, <3>4 DEF Resolved, Truthful, Runnable
      <2>6. \A c \in Command : result'[c] # NoResult /\ result[c] = NoResult => c = m.cmd
            BY <1>0, <2>1, <2>2 DEF TypeOK, LedgerTypeOK
      <2> QED
            BY <1>0, <2>1, <2>3, <2>4, <2>5, <2>6 DEF EffectInv
<1> QED
      BY <1>0, <1>2, <1>3, <1>4, CoreSteps

\* Steps that settle the entry in the inbox with a truthful result.
LEMMA StoreEffect ==
    ASSUME IInv, Occupied, ~HasResult, NEW r \in Result, Store(r),
           UNCHANGED <<receipt, result, effects>>,
           result[inbox.cmd] = NoResult => Truthful(r, inbox.cmd),
           \A m \in requests' : m \in Receipt => m \in requests,
           \A m \in requests' : m \in ResultReport =>
               m \in requests \/ (m.cmd = inbox.cmd /\ m.result = r)
    PROVE  EffectInv'
<1> SUFFICES ASSUME NEW c \in Command
             PROVE  /\ effects[c] <= 1
                    /\ IF result[c] = NoResult THEN Unresolved(c)' ELSE Resolved(c)'
    BY DEF EffectInv
<1>1. effects[c] <= 1
      BY DEF IInv, EffectInv
<1>2. /\ inbox'.cmd = inbox.cmd /\ inbox'.receiptAt = inbox.receiptAt
      /\ inbox'.dispatch = inbox.dispatch
      /\ inbox'.result = r
      /\ ~Runnable'
      BY NoResultIsNone DEF Store, Runnable, HasResult, IInv, TypeOK, InboxTypeOK
<1>3. ASSUME result[c] = NoResult PROVE Unresolved(c)'
      <2>1. Unresolved(c)
            BY <1>3 DEF IInv, EffectInv
      <2>2. \A m \in requests : m \in ResultReport => m.cmd # c
            BY <2>1, NoResultIsNone DEF Unresolved, HasResult, ResultReport
      <2> QED
            BY <1>2, <1>3, <2>1, <2>2 DEF Unresolved, Truthful
<1>4. ASSUME result[c] # NoResult PROVE Resolved(c)'
      BY <1>2, <1>4 DEF IInv, EffectInv, Resolved, Truthful
<1> QED
      BY <1>1, <1>3, <1>4

\* An entry may leave the inbox once it is settled: then the Core knows its result,
\* and of a command without a result nothing exists anywhere.
LEMMA SettledLeavesNothing ==
    ASSUME IInv, Settled, NEW c \in Command, result[c] = NoResult
    PROVE  /\ receipt[c] = 0
           /\ effects[c] = 0
           /\ \A m \in requests : m \in Receipt \cup ResultReport => m.cmd # c
<1>1. inbox.cmd # c
      BY DEF Settled, Occupied, HasResult, IInv, AckInv, AcknowledgedIsRecorded
<1>2. Unresolved(c) /\ effects[c] \in Nat
      BY DEF IInv, EffectInv, TypeOK, InboxTypeOK
<1> QED
      BY <1>1, <1>2 DEF Unresolved

LEMMA LeaveEffect ==
    ASSUME IInv, Settled, UNCHANGED <<receipt, result, effects, requests>>,
           inbox'.cmd = NoCommand \/ receipt[inbox'.cmd] # inbox'.receiptAt,
           inbox'.result = NoResult
    PROVE  EffectInv'
<1> SUFFICES ASSUME NEW c \in Command
             PROVE  /\ effects[c] <= 1
                    /\ IF result[c] = NoResult THEN Unresolved(c)' ELSE Resolved(c)'
    BY DEF EffectInv
<1>1. effects[c] <= 1
      BY DEF IInv, EffectInv
<1>2. ASSUME result[c] = NoResult PROVE Unresolved(c)'
      BY <1>2, SettledLeavesNothing DEF Unresolved, Truthful, NoResult
<1>3. ASSUME result[c] # NoResult PROVE Resolved(c)'
      BY <1>3 DEF IInv, EffectInv, Resolved, Truthful
<1> QED
      BY <1>1, <1>2, <1>3

LEMMA AgentEffect == IInv /\ Agent /\ ~AllowSameSecond => EffectInv'
<1> SUFFICES ASSUME IInv, Agent, ~AllowSameSecond PROVE EffectInv'
    OBVIOUS
<1>0. /\ EffectInv /\ PhaseInv /\ CallInv /\ AckInv /\ TypeOK
      /\ UNCHANGED <<receipt, result>>
      BY DEF IInv, Agent, ledgerVars
<1> USE DEF TypeOK, InboxTypeOK
\* The entry is settled by a result.
<1>1. CASE RecoverInterrupted
      BY <1>0, <1>1, StoreEffect, MadeResults DEF RecoverInterrupted, Reconciling, Interrupted,
         channelVars, Truthful, OutcomeUnknown, MakeResult, ChannelTypeOK
<1>2. CASE ExpireOsd
      <2> DEFINE r == MakeResult("not_started", "rejected", "expired")
      <2>1. /\ Occupied /\ ~HasResult /\ Store(r) /\ r \in Result
            /\ requests' = requests \cup {ResultMessage(r)}
            /\ UNCHANGED effects
            BY <1>0, <1>2, MadeResults DEF ExpireOsd, Fresh, Reconciling, Send, ChannelTypeOK
      <2>2. Runnable
            BY <1>2, <2>1 DEF ExpireOsd, Fresh, Runnable
      <2>3. inbox.cmd \in Command /\ effects[inbox.cmd] \in Nat
            BY <1>0, <2>1 DEF Occupied
      <2>4. result[inbox.cmd] = NoResult => Truthful(r, inbox.cmd)
            BY <1>0, <2>2, <2>3 DEF EffectInv, Unresolved, Truthful, MakeResult
      <2>5. ResultMessage(r) \notin Receipt
            BY DEF ResultMessage, Receipt
      <2>6. ResultMessage(r).cmd = inbox.cmd /\ ResultMessage(r).result = r
            BY DEF ResultMessage
      <2> QED
            BY <1>0, <2>1, <2>4, <2>5, <2>6, StoreEffect
<1>3. CASE ExpireReady \/ Unauthorized
      <2>1. /\ Occupied /\ ~HasResult /\ phase = "ready" /\ phase' = "idle"
            /\ UNCHANGED <<effects, requests>>
            BY <1>0, <1>3 DEF ExpireReady, Unauthorized, PhaseInv, channelVars
      <2>2. effects[inbox.cmd] = 0
            BY <2>1, ReadyIsUntouched
      <2>3. CASE inbox' = inbox
            BY <1>0, <2>1, <2>3, QuietEffect DEF Runnable, HasResult
      <2>4. ASSUME NEW r \in Result, Store(r), r.category = "rejected" PROVE EffectInv'
            BY <1>0, <2>1, <2>2, <2>4, StoreEffect DEF Truthful
      <2>5. /\ MakeResult("not_started", "rejected", "expired").category = "rejected"
            /\ MakeResult("not_started", "rejected", "fenced").category = "rejected"
            BY DEF MakeResult
      <2> QED
            BY <1>0, <1>3, <2>3, <2>4, <2>5, MadeResults
               DEF ExpireReady, Unauthorized, ChannelTypeOK
<1>4. CASE PersistOutcome
      <2>1. /\ Occupied /\ ~HasResult /\ Store(outcome) /\ Truthful(outcome, inbox.cmd)
            /\ UNCHANGED <<effects, requests>>
            BY <1>0, <1>4 DEF PersistOutcome, PhaseInv, channelVars
      <2>2. CASE outcome \in Result
            BY <1>0, <2>1, <2>2, StoreEffect
      <2>3. CASE outcome = NoResult
            BY <1>0, <1>4, <2>1, <2>3, QuietEffect DEF PersistOutcome, Store, Runnable,
               HasResult, PhaseInv
      <2> QED
            BY <1>0, <2>2, <2>3
\* The entry leaves the inbox.
<1>5. CASE Retire
      <2>1. Settled /\ inbox' = EmptyInbox /\ UNCHANGED <<effects, requests>>
            BY <1>5 DEF Retire, channelVars
      <2>2. inbox'.cmd = NoCommand /\ inbox'.result = NoResult
            BY <2>1 DEF EmptyInbox
      <2> QED
            BY <1>0, <2>1, <2>2, LeaveEffect
<1>10. CASE StoreAssignment
      <2>1. /\ Settled
            /\ UNCHANGED <<effects, requests>>
            /\ inbox' = [EmptyInbox EXCEPT !.cmd = reply.cmd, !.gen = agentGen, !.receiptAt = now]
            BY <1>0, <1>10 DEF StoreAssignment, EndCall, CallInv, Answered
      <2>2. inbox'.cmd = reply.cmd /\ inbox'.receiptAt = now /\ inbox'.result = NoResult
            BY <2>1 DEF EmptyInbox
      <2>3. receipt[reply.cmd] # now
            BY <1>10, <2>2 DEF Agent, FreshSecond, StoreAssignment
      <2> QED
            BY <1>0, <2>1, <2>2, <2>3, LeaveEffect
\* Only acknowledgements and the phase change; only calls about the entry start.
<1>6. CASE PrepareStarting \/ BeginReceipt
      <2>1. Fresh
            BY <1>6 DEF PrepareStarting, BeginReceipt
      <2>2. AskReceipt(inbox) \/ AskReceipt([inbox EXCEPT !.dispatch = "starting"])
            BY <1>6 DEF PrepareStarting, BeginReceipt
      <2>3. /\ inbox'.cmd = inbox.cmd /\ inbox'.receiptAt = inbox.receiptAt
            /\ inbox'.result = inbox.result
            /\ inbox.dispatch = "starting" => inbox'.dispatch = "starting"
            /\ UNCHANGED effects
            BY <1>0, <2>2 DEF AskReceipt
      <2>4. requests' \subseteq requests \cup {ReceiptMessage}
            BY <2>2 DEF AskReceipt, Send
      <2>5. Runnable
            BY <2>1 DEF Fresh, Runnable
      <2>6. /\ ReceiptMessage.cmd = inbox.cmd /\ ReceiptMessage.at = inbox.receiptAt
            /\ ReceiptMessage \notin ResultReport
            BY DEF ReceiptMessage, ResultReport
      <2> QED
            BY <1>0, <2>3, <2>4, <2>5, <2>6, QuietEffect
<1>7. CASE ResendReceipt
      <2>1. /\ HasResult /\ UNCHANGED <<inbox, effects>>
            /\ requests' = requests \cup {ReceiptMessage}
            BY <1>7 DEF ResendReceipt, Send
      <2>2. /\ ReceiptMessage.cmd = inbox.cmd /\ ReceiptMessage.at = inbox.receiptAt
            /\ ReceiptMessage \notin ResultReport
            BY DEF ReceiptMessage, ResultReport
      <2> QED
            BY <1>0, <2>1, <2>2, QuietEffect DEF Runnable, HasResult
<1>8. CASE SendResult
      <2>1. /\ HasResult /\ UNCHANGED <<inbox, effects>>
            /\ requests' = requests \cup {ResultMessage(inbox.result)}
            BY <1>8 DEF SendResult, Send
      <2>2. /\ ResultMessage(inbox.result).cmd = inbox.cmd
            /\ ResultMessage(inbox.result).result = inbox.result
            /\ ResultMessage(inbox.result) \notin Receipt
            BY DEF ResultMessage, Receipt
      <2> QED
            BY <1>0, <2>1, <2>2, QuietEffect DEF Runnable, HasResult
<1>9. ASSUME NEW refresh, NEW epoch, SendPoll(refresh, epoch) PROVE EffectInv'
      <2>1. /\ Settled /\ UNCHANGED <<inbox, effects>>
            /\ requests' = requests \cup {[type |-> "poll", gen |-> agentGen,
                                           refresh |-> refresh, epoch |-> epoch]}
            BY <1>9 DEF SendPoll, Send
      <2>2. /\ [type |-> "poll", gen |-> agentGen, refresh |-> refresh, epoch |-> epoch]
                    \notin Receipt
            /\ [type |-> "poll", gen |-> agentGen, refresh |-> refresh, epoch |-> epoch]
                    \notin ResultReport
            BY DEF Receipt, ResultReport
      <2>3. Occupied => HasResult
            BY <2>1 DEF Settled
      <2>4. Occupied => (Runnable' => Runnable)
            BY <2>1, <2>3 DEF Runnable, HasResult
      <2> QED
            BY <1>0, <2>1, <2>2, <2>3, <2>4, QuietEffect
<1>11. CASE ReceiptAcknowledged \/ ResultAcknowledged
      <2>1. /\ phase = "waiting" /\ UNCHANGED <<effects, requests>>
            /\ \/ inbox' = [inbox EXCEPT !.receiptAcked = TRUE]
               \/ inbox' = [inbox EXCEPT !.resultAcked = TRUE]
            BY <1>11 DEF ReceiptAcknowledged, ResultAcknowledged, EndCall
      <2> QED
            BY <1>0, <2>1, QuietEffect DEF Runnable, HasResult
<1>12. CASE StoreDuplicate
      <2>1. /\ phase = "waiting" /\ UNCHANGED <<effects, requests>>
            /\ inbox' = [inbox EXCEPT !.receiptAcked = FALSE, !.resultAcked = FALSE]
            BY <1>12 DEF StoreDuplicate, EndCall
      <2> QED
            BY <1>0, <2>1, QuietEffect DEF Runnable, HasResult
<1>13. CASE Start
      <2>1. /\ phase = "ready" /\ UNCHANGED <<effects, requests>>
            /\ inbox' = [inbox EXCEPT !.dispatch = "starting"]
            BY <1>13 DEF Start, channelVars
      <2> QED
            BY <1>0, <2>1, QuietEffect DEF Runnable, HasResult
<1>14. CASE \/ PersistFails \/ StoreNothing \/ CycleFails \/ Crash \/ ProviderRestart
      <2>1. /\ phase' \notin {"waiting", "ready", "running"} \/ phase' = phase
            /\ UNCHANGED <<inbox, effects, requests>>
            BY <1>14 DEF PersistFails, StoreNothing, CycleFails, Crash, ProviderRestart,
               EndCall, channelVars
      <2> QED
            BY <1>0, <2>1, QuietEffect DEF Runnable, HasResult
\* The effect: the command had none, and it is not runnable any more.
<1>15. ASSUME NEW r, NEW effect \in {0, 1}, Ran(r, effect), phase \in {"ready", "running"},
              inbox.dispatch = "starting"
       PROVE  EffectInv'
      <2>1. /\ UNCHANGED <<inbox, requests>>
            /\ effects' = [effects EXCEPT ![inbox.cmd] = @ + effect]
            /\ phase' = "ran"
            BY <1>15 DEF Ran, channelVars
      <2>2. /\ inbox.cmd \in Command
            /\ result[inbox.cmd] = NoResult
            /\ effects[inbox.cmd] = 0
            /\ receipt[inbox.cmd] # 0
            BY <1>15, ReadyIsUntouched
      <2>3. effects'[inbox.cmd] = effect
            BY <1>0, <2>1, <2>2
      <2>4. ~Runnable'
            BY <1>15, <2>1 DEF Runnable
      <2>5. Unresolved(inbox.cmd)'
            <3>1. Unresolved(inbox.cmd) /\ ~HasResult
                  BY <1>0, <1>15, <2>2 DEF EffectInv, PhaseInv
            <3> QED
                  BY <1>0, <1>15, <2>1, <2>2, <2>3, <2>4, <3>1
                     DEF Unresolved, Truthful, HasResult, NoResult
      <2>6. ASSUME NEW c \in Command, c # inbox.cmd
            PROVE  /\ effects'[c] <= 1
                   /\ IF result'[c] = NoResult THEN Unresolved(c)' ELSE Resolved(c)'
            <3>1. effects'[c] = effects[c]
                  BY <1>0, <2>1, <2>6
            <3> QED
                  BY <1>0, <2>1, <2>6, <3>1 DEF EffectInv, Unresolved, Resolved, Truthful
      <2>7. /\ effects'[inbox.cmd] <= 1
            /\ IF result'[inbox.cmd] = NoResult
               THEN Unresolved(inbox.cmd)' ELSE Resolved(inbox.cmd)'
            BY <1>0, <2>1, <2>2, <2>3, <2>5
      <2> SUFFICES ASSUME NEW c \in Command
                   PROVE  /\ effects'[c] <= 1
                          /\ IF result'[c] = NoResult THEN Unresolved(c)' ELSE Resolved(c)'
          BY DEF EffectInv
      <2> QED
            BY <2>1, <2>6, <2>7
<1>16. CASE RunDirect
      BY <1>0, <1>15, <1>16 DEF RunDirect, RunProbe, RunOsd, RunImport, PhaseInv
<1>17. CASE RunNative
      BY <1>15, <1>17 DEF RunNative
<1> QED
      BY <1>1, <1>2, <1>3, <1>4, <1>5, <1>6, <1>7, <1>8, <1>9, <1>10, <1>11, <1>12, <1>13,
         <1>14, <1>16, <1>17
         DEF Agent, AgentNext, Reconcile, Execute, Receive

-------------------------------------------------------------------------------
(***************************************************************************)
(* The invariant is inductive.                                             *)
(***************************************************************************)
\* Connections, heartbeats, the clock and lost calls.
LEMMA OtherInv ==
    ASSUME IInv, Connect \/ RenewLease \/ Environment \/ UNCHANGED vars
    PROVE  PhaseInv' /\ CallInv' /\ AckInv' /\ EffectInv'
<1>1. /\ UNCHANGED <<inbox, outcome, effects, call, reply, receipt, result>>
      /\ requests' \subseteq requests
      /\ now' \in Nat /\ now' >= now
      /\ \/ UNCHANGED <<phase, agentGen>>
         \/ phase = "down" /\ phase' = "idle"
      BY DEF IInv, TypeOK, ChannelTypeOK, Connect, RenewLease, Heartbeat, RenewDuringImport,
         Environment, Tick, Lose, vars,
         channelVars, ledgerVars, journalVars, inboxVars
<1>2. PhaseInv'
      BY <1>1 DEF IInv, PhaseInv, Occupied, InContext, HasResult, Truthful
<1>3. CallInv'
      BY <1>1 DEF IInv, CallInv, Occupied, InContext, HasResult, Settled, Historical,
         ReceiptMessage, ResultMessage, NoReply
<1>4. AckInv'
      BY <1>1 DEF IInv, TypeOK, ChannelTypeOK, AckInv, AcknowledgedIsRecorded, Occupied,
         HasResult
<1>5. Runnable' => Runnable
      BY <1>1 DEF Runnable, HasResult
<1>6. EffectInv'
      BY <1>1, <1>5, QuietEffect
<1> QED
      BY <1>2, <1>3, <1>4, <1>6

LEMMA NextInv == IInv /\ [Next]_vars /\ ~AllowSameSecond => IInv'
<1> SUFFICES ASSUME IInv, [Next]_vars, ~AllowSameSecond PROVE IInv'
    OBVIOUS
<1>1. TypeOK'
      BY NextType DEF IInv
<1>2. CASE Core
      BY <1>1, <1>2, CorePhase, CoreCall, CoreAck, CoreEffect DEF IInv
<1>3. CASE Agent
      BY <1>1, <1>3, AgentPhase, AgentCall, AgentAck, AgentEffect DEF IInv
<1>4. CASE Connect \/ RenewLease \/ Environment \/ UNCHANGED vars
      BY <1>1, <1>4, OtherInv DEF IInv
<1> QED
      BY <1>2, <1>3, <1>4 DEF Next

\* The reason for everything below, as long as no command is received twice in one
\* second: what exists about a command without a result belongs to the one entry in
\* the Agent's inbox, and a settled command can never be accepted again.
THEOREM Invariance == ASSUME ~AllowSameSecond PROVE Spec => []IInv
  BY InitInv, NextInv, PTL DEF Spec

\* For any number of replays, crashes, restarts and late or lost calls, the
\* executors change the backend at most once for a command.
THEOREM OneEffect == ASSUME ~AllowSameSecond PROVE Spec => []AtMostOnceEffect
<1>1. IInv => AtMostOnceEffect
      BY DEF IInv, EffectInv, AtMostOnceEffect
<1> QED
      BY <1>1, Invariance, PTL

\* No command has an effect before the Core has recorded the Agent's receipt for it.
THEOREM ReceiptFirst == ASSUME ~AllowSameSecond PROVE Spec => []EffectNeedsReceipt
<1>1. IInv => EffectNeedsReceipt
      BY DEF IInv, EffectInv, Unresolved, Resolved, EffectNeedsReceipt
<1> QED
      BY <1>1, Invariance, PTL

\* Whatever is lost, an effect stays accounted for: by the Core's result or by the
\* "starting" in the Agent's protected file.
THEOREM EvidenceStays == ASSUME ~AllowSameSecond PROVE Spec => []EffectLeavesEvidence
<1>1. IInv => EffectLeavesEvidence
      BY DEF IInv, EffectInv, Unresolved, EffectLeavesEvidence
<1> QED
      BY <1>1, Invariance, PTL

\* A recorded result is true of the backend, at all times after it was recorded.
THEOREM TruthfulResults == ASSUME ~AllowSameSecond PROVE Spec => []ResultIsTruthful
<1>1. IInv => ResultIsTruthful
      BY DEF IInv, EffectInv, Resolved, Truthful, ResultIsTruthful, NoResult
<1> QED
      BY <1>1, Invariance, PTL

\* The Agent drops an entry only when the Core holds its receipt and its result.
THEOREM AcknowledgementsHold == ASSUME ~AllowSameSecond PROVE Spec => []AcknowledgedIsRecorded
<1>1. IInv => AcknowledgedIsRecorded
      BY DEF IInv, AckInv
<1> QED
      BY <1>1, Invariance, PTL

-------------------------------------------------------------------------------
(***************************************************************************)
(* Quarantine, and the state column.                                       *)
(***************************************************************************)
LEMMA QuarantineStep ==
    ASSUME IInv, [Next]_vars, phase # "down", Quarantined
    PROVE  inbox' = inbox
<1> USE DEF Quarantined
<1>0. phase \notin {"ready", "running", "ran"}
      BY DEF IInv, PhaseInv
<1>1. call.type \notin {"receipt", "result", "poll"}
      BY DEF IInv, CallInv, NoCall
<1>2. ~Fresh
      BY DEF Fresh
<1>3. CASE Agent
      <2>1. CASE Reconcile
            BY <1>1, <1>2, <2>1 DEF Reconcile, RecoverInterrupted, Retire, PrepareStarting,
               BeginReceipt, ExpireOsd, ResendReceipt, SendResult, ReceiptAcknowledged,
               ResultAcknowledged, Answered
      <2>2. CASE Execute
            BY <1>0, <2>2 DEF Execute, ExpireReady, Unauthorized, Start, RunDirect, RunProbe,
               RunOsd, RunImport, RunNative,
               PersistOutcome, PersistFails
      <2>3. CASE Receive
            BY <1>1, <2>3 DEF Receive, SendPoll, StoreNothing, StoreDuplicate,
               StoreAssignment, CycleFails, Answered
      <2> QED
            BY <1>3, <2>1, <2>2, <2>3 DEF Agent, AgentNext, Crash, ProviderRestart
<1>4. CASE Core \/ Connect \/ RenewLease \/ Environment \/ UNCHANGED vars
      BY <1>4 DEF Core, Connect, RenewLease, Heartbeat, RenewDuringImport, Environment,
         inboxVars, vars
<1> QED
      BY <1>3, <1>4 DEF Next

\* An entry of an older generation that was never acknowledged stays as it is for
\* as long as the Agent runs (local_command_generation_fenced).
THEOREM QuarantineHolds == ASSUME ~AllowSameSecond PROVE Spec => QuarantineKeepsEvidence
<1>1. IInv /\ [Next]_vars => [phase # "down" /\ Quarantined => inbox' = inbox]_vars
      BY QuarantineStep
<1> QED
      BY <1>1, Invariance, PTL DEF Spec, QuarantineKeepsEvidence

LEMMA InitJournal == Init => JInv
  BY DEF Init, ChannelInit, LedgerInit, InboxInit, EmptyInbox, NoReply, Occupied, JInv,
     KnownInv, StateFollowsJournal, NoResult

\* Assigned commands stay assigned.
LEMMA StateGrows ==
    ASSUME TypeOK, [Next]_vars, NEW c \in Command, state[c] # "none"
    PROVE  state'[c] # "none"
<1> USE DEF TypeOK, LedgerTypeOK
<1>1. ASSUME NEW d \in Command, Assign(d) PROVE state'[c] # "none"
      BY <1>1 DEF Assign
<1>2. ASSUME NEW m \in requests, Refresh(m) PROVE state'[c] # "none"
      BY <1>2 DEF Refresh
<1>3. ASSUME NEW m \in requests, AcceptReceipt(m) PROVE state'[c] # "none"
      BY <1>3 DEF AcceptReceipt
<1>4. ASSUME NEW m \in requests, RecordResult(m) PROVE state'[c] # "none"
      <2>1. CASE c = m.cmd
            <3>1. state'[c] \in {state[c], "waiting_reconciliation", "completed"}
                  BY <1>4, <2>1 DEF RecordResult
            <3> QED
                  BY <3>1
      <2>2. CASE c # m.cmd
            BY <1>4, <2>2 DEF RecordResult
      <2> QED
            BY <2>1, <2>2
<1>5. ASSUME state' = state PROVE state'[c] # "none"
      BY <1>5
<1>6. CASE \/ Agent \/ Connect \/ RenewLease \/ Environment \/ UNCHANGED vars
      BY <1>5, <1>6 DEF Agent, Connect, RenewLease, Heartbeat, RenewDuringImport, Environment,
         vars, ledgerVars, journalVars
<1>7. CASE Core
      BY <1>1, <1>2, <1>3, <1>4, <1>5, <1>7
         DEF Core, CoreNext, HandlePoll, HandleReceipt, HandleResult, RequestReplay,
             ChangeOwnership, RefusePoll, OfferNothing, Offer, RefuseReceipt, RefuseResult,
             ledgerVars, journalVars
<1> QED
      BY <1>6, <1>7 DEF Next

\* What the steps of the Core do to the state column and the journals behind it.
LEMMA CoreJournal ==
    ASSUME TypeOK, JInv, Core
    PROVE  StateFollowsJournal' /\ \A c \in Command : state'[c] = "none" => receipt'[c] = 0
<1> USE DEF TypeOK, LedgerTypeOK, JInv, KnownInv, StateFollowsJournal
<1>1. ASSUME UNCHANGED <<state, receipt, result>>
      PROVE  StateFollowsJournal' /\ \A c \in Command : state'[c] = "none" => receipt'[c] = 0
      BY <1>1
<1>2. ASSUME NEW d \in Command, Assign(d)
      PROVE  StateFollowsJournal' /\ \A c \in Command : state'[c] = "none" => receipt'[c] = 0
      <2>1. state[d] = "none" /\ state' = [state EXCEPT ![d] = "assigned"]
            BY <1>2 DEF Assign
      <2>2. UNCHANGED <<receipt, result>>
            BY <1>2 DEF Assign
      <2>3. receipt[d] = 0 /\ result[d] = NoResult /\ NoResult.category # "outcome_unknown"
            BY <2>1 DEF NoResult
      <2> QED
            BY <2>1, <2>2, <2>3
<1>3. ASSUME NEW m \in requests, Refresh(m)
      PROVE  StateFollowsJournal' /\ \A c \in Command : state'[c] = "none" => receipt'[c] = 0
      <2>1. UNCHANGED <<receipt, result>>
            BY <1>3 DEF Refresh
      <2>2. \A c \in Command :
               \/ state'[c] = state[c]
               \/ state'[c] = "expired" /\ state[c] \in {"assigned", "received"}
            BY <1>3 DEF Refresh, Expired
      <2> QED
            BY <2>1, <2>2
<1>4. ASSUME NEW m \in requests, AcceptReceipt(m)
      PROVE  StateFollowsJournal' /\ \A c \in Command : state'[c] = "none" => receipt'[c] = 0
      <2>1. m.cmd \in Command /\ state[m.cmd] # "none" /\ result' = result
            BY <1>4 DEF AcceptReceipt, Receipt
      <2>2. /\ receipt' = [receipt EXCEPT ![m.cmd] = m.at]
            /\ receipt[m.cmd] \in {0, m.at}
            /\ m.at \in Nat
            BY <1>4 DEF AcceptReceipt, Acceptable, Receipt
      <2>3. state'[m.cmd] =
               IF receipt[m.cmd] = 0 /\ state[m.cmd] = "assigned" THEN "received"
               ELSE state[m.cmd]
            BY <1>4, <2>1 DEF AcceptReceipt
      <2>4. \A c \in Command : c # m.cmd => state'[c] = state[c]
            BY <1>4 DEF AcceptReceipt
      <2>5. m.at # 0
            BY <1>4 DEF AcceptReceipt
      <2> QED
            BY <2>1, <2>2, <2>3, <2>4, <2>5
<1>5. ASSUME NEW m \in requests, RecordResult(m)
      PROVE  StateFollowsJournal' /\ \A c \in Command : state'[c] = "none" => receipt'[c] = 0
      <2>1. /\ m.cmd \in Command /\ m.result \in Result /\ state[m.cmd] # "none"
            /\ receipt' = receipt
            BY <1>5 DEF RecordResult, ResultReport
      <2>2. /\ result' = [result EXCEPT ![m.cmd] = m.result]
            /\ result[m.cmd] \in {NoResult, m.result}
            BY <1>5 DEF RecordResult, Recordable
      <2>3. \A c \in Command : c # m.cmd => state'[c] = state[c]
            BY <1>5 DEF RecordResult
      <2>4. CASE result[m.cmd] # NoResult
            <3>1. state'[m.cmd] = state[m.cmd]
                  BY <1>5, <2>1, <2>4 DEF RecordResult
            <3>2. \A c \in Command : result'[c] = result[c]
                  <4>1. result[m.cmd] = m.result
                        BY <2>2, <2>4
                  <4> QED
                        BY <2>1, <2>2, <4>1
            <3> QED
                  BY <2>1, <2>3, <3>1, <3>2
      <2>5. CASE result[m.cmd] = NoResult /\ m.result.category = "outcome_unknown"
            <3>1. state'[m.cmd] = "waiting_reconciliation"
                  BY <1>5, <2>1, <2>5 DEF RecordResult
            <3> QED
                  BY <2>1, <2>2, <2>3, <2>5, <3>1, NoResultIsNone
      <2>6. CASE result[m.cmd] = NoResult /\ m.result.category # "outcome_unknown"
            <3>1. state'[m.cmd] = "completed"
                  BY <1>5, <2>1, <2>6 DEF RecordResult
            <3> QED
                  BY <2>1, <2>2, <2>3, <2>6, <3>1, NoResultIsNone
      <2> QED
            BY <2>4, <2>5, <2>6
<1>6. ASSUME NEW c \in Command, RequestReplay(c) PROVE UNCHANGED <<state, receipt, result>>
      BY <1>6 DEF RequestReplay
<1>7. ASSUME NEW m \in requests, RefusePoll(m) \/ RefuseReceipt(m) \/ RefuseResult(m)
      PROVE  UNCHANGED <<state, receipt, result>>
      BY <1>7 DEF RefusePoll, RefuseReceipt, RefuseResult, ledgerVars
<1>8. CASE ChangeOwnership
      BY <1>1, <1>8 DEF ChangeOwnership, journalVars
<1> QED
      BY <1>1, <1>2, <1>3, <1>4, <1>5, <1>6, <1>7, <1>8
         DEF Core, CoreNext, HandlePoll, HandleReceipt, HandleResult, OfferNothing, Offer

\* Every call about a command, every answer and every entry is of an assigned one.
LEMMA KnownStep ==
    ASSUME IInv, JInv, [Next]_vars,
           \A c \in Command : state'[c] = "none" => receipt'[c] = 0
    PROVE  KnownInv'
<1> USE DEF KnownInv
<1>0. /\ TypeOK /\ KnownInv /\ AckInv
      /\ \A c \in Command : state[c] # "none" => state'[c] # "none"
      BY StateGrows DEF IInv, JInv
<1>1. ASSUME \A m \in requests' : m \in Receipt \cup ResultReport =>
                 \/ m \in requests
                 \/ /\ m.cmd = inbox.cmd /\ Occupied
                    /\ m \in Receipt => m.at = inbox.receiptAt,
             reply'.cmd \in {NoCommand, reply.cmd}
                 \/ (reply'.cmd \in Command /\ state'[reply'.cmd] # "none"),
             inbox'.cmd \in {NoCommand, inbox.cmd}
                 \/ (phase = "waiting" /\ inbox'.cmd = reply.cmd)
      PROVE  KnownInv'
      <2>1. \A m \in requests' : m \in Receipt \cup ResultReport => m.cmd \in Command
            BY DEF Receipt, ResultReport
      <2>2. inbox.cmd \in Command \cup {NoCommand} /\ reply.cmd \in Command \cup {NoCommand}
            BY <1>0 DEF TypeOK, InboxTypeOK, ChannelTypeOK, Reply
      <2> QED
            BY <1>0, <1>1, <2>1, <2>2 DEF Occupied, AckInv
<1>2. CASE Core
      <2>1. UNCHANGED inbox
            BY <1>2 DEF Core, inboxVars
      <2>2. ASSUME NEW m \in requests, NEW answer, Respond(m, answer),
                   \/ answer.cmd = NoCommand
                   \/ answer.cmd \in Command /\ state[answer.cmd] # "none"
            PROVE  KnownInv'
            <3>1. requests' \subseteq requests /\ (reply' = reply \/ reply' = answer)
                  BY <2>2 DEF Respond
            <3> QED
                  BY <1>0, <1>1, <2>1, <2>2, <3>1
      <2>3. Refused.cmd = NoCommand /\ Accepted.cmd = NoCommand
            BY DEF Refused, Accepted
      <2>4. ASSUME NEW m \in requests, HandleReceipt(m) \/ HandleResult(m) \/ RefusePoll(m)
                                           \/ OfferNothing(m)
            PROVE  KnownInv'
            BY <2>2, <2>3, <2>4 DEF HandleReceipt, HandleResult, RefuseReceipt, AcceptReceipt,
               RefuseResult, RecordResult, RefusePoll, OfferNothing
      <2>5. ASSUME NEW m \in requests, NEW c \in Command, Offer(m, c) PROVE KnownInv'
            <3>1. Delivered(c).cmd = c /\ state[c] # "none" /\ Respond(m, Delivered(c))
                  BY <2>5 DEF Delivered, Offer, Oldest, Deliverable
            <3> QED
                  BY <2>2, <3>1
      <2>6. ASSUME UNCHANGED <<requests, reply>> PROVE KnownInv'
            BY <1>0, <1>1, <2>1, <2>6
      <2>7. ASSUME NEW c \in Command, Assign(c) \/ RequestReplay(c) PROVE KnownInv'
            BY <2>6, <2>7 DEF Assign, RequestReplay, channelVars
      <2>8. CASE ChangeOwnership
            BY <2>6, <2>8 DEF ChangeOwnership, channelVars
      <2> QED
            BY <1>2, <2>4, <2>5, <2>7, <2>8 DEF Core, CoreNext, HandlePoll
<1>3. CASE Agent
      <2>0. NoReply.cmd = NoCommand /\ EmptyInbox.cmd = NoCommand
            BY DEF NoReply, EmptyInbox
      <2>1. ASSUME inbox'.cmd = inbox.cmd,
                   NEW m, Send(m),
                   m \in Receipt \cup ResultReport => m.cmd = inbox.cmd /\ Occupied,
                   m \in Receipt => m.at = inbox.receiptAt
            PROVE  KnownInv'
            BY <1>1, <2>0, <2>1 DEF Send
      <2>2. ASSUME inbox'.cmd = inbox.cmd, UNCHANGED requests, reply' \in {reply, NoReply}
            PROVE  KnownInv'
            BY <1>1, <2>0, <2>2
      <2>3. /\ ReceiptMessage.cmd = inbox.cmd /\ ReceiptMessage.at = inbox.receiptAt
            /\ \A r : ResultMessage(r).cmd = inbox.cmd /\ ResultMessage(r) \notin Receipt
            BY DEF ReceiptMessage, ResultMessage, Receipt
      <2>4. ASSUME NEW stored, AskReceipt(stored), Occupied, stored.cmd = inbox.cmd
            PROVE  KnownInv'
            BY <2>1, <2>2, <2>3, <2>4 DEF AskReceipt
      <2>5. CASE PrepareStarting \/ BeginReceipt
            <3>1. Occupied
                  BY <2>5 DEF PrepareStarting, BeginReceipt, Fresh, Reconciling
            <3>2. [inbox EXCEPT !.dispatch = "starting"].cmd = inbox.cmd
                  BY <1>0 DEF TypeOK, InboxTypeOK
            <3> QED
                  BY <2>4, <2>5, <3>1, <3>2 DEF PrepareStarting, BeginReceipt
      <2>6. \A r : Store(r) => inbox'.cmd = inbox.cmd
            BY <1>0 DEF Store, TypeOK, InboxTypeOK
      <2>7. CASE ExpireOsd
            BY <2>1, <2>3, <2>6, <2>7 DEF ExpireOsd, Fresh, Reconciling
      <2>8. CASE ResendReceipt \/ SendResult
            BY <2>1, <2>3, <2>8 DEF ResendReceipt, SendResult, Reconciling
      <2>9. ASSUME NEW refresh, NEW epoch, SendPoll(refresh, epoch) PROVE KnownInv'
            <3>1. [type |-> "poll", gen |-> agentGen, refresh |-> refresh, epoch |-> epoch]
                     \notin Receipt \cup ResultReport
                  BY DEF Receipt, ResultReport
            <3> QED
                  BY <2>1, <2>9, <3>1 DEF SendPoll
      <2>10. CASE RecoverInterrupted \/ ExpireReady \/ Unauthorized \/ PersistOutcome
            BY <2>2, <2>6, <2>10 DEF RecoverInterrupted, ExpireReady, Unauthorized,
               PersistOutcome, channelVars
      <2>11. CASE ReceiptAcknowledged \/ ResultAcknowledged \/ StoreDuplicate \/ Start
            <3>1. inbox'.cmd = inbox.cmd
                  BY <1>0, <2>11 DEF ReceiptAcknowledged, ResultAcknowledged, StoreDuplicate,
                     Start, TypeOK, InboxTypeOK
            <3> QED
                  BY <2>2, <2>11, <3>1 DEF ReceiptAcknowledged, ResultAcknowledged,
                     StoreDuplicate, Start, EndCall, channelVars
      <2>12. CASE StoreNothing \/ CycleFails \/ Crash \/ PersistFails \/ ProviderRestart
            BY <2>2, <2>12 DEF StoreNothing, CycleFails, Crash, PersistFails,
               ProviderRestart, EndCall, channelVars
      <2>13. CASE Retire
            BY <1>1, <2>0, <2>13 DEF Retire, channelVars
      <2>14. CASE StoreAssignment
            <3>1. inbox'.cmd = reply.cmd
                  BY <2>14 DEF StoreAssignment, EmptyInbox
            <3> QED
                  BY <1>1, <2>0, <2>14, <3>1 DEF StoreAssignment, EndCall
      <2>15. ASSUME NEW r, NEW effect, Ran(r, effect) PROVE KnownInv'
            BY <2>2, <2>15 DEF Ran, channelVars
      <2>16. CASE RunDirect
            BY <2>15, <2>16 DEF RunDirect, RunProbe, RunOsd, RunImport
      <2>17. CASE RunNative
            BY <2>15, <2>17 DEF RunNative
      <2> QED
            BY <1>3, <2>5, <2>7, <2>8, <2>9, <2>10, <2>11, <2>12, <2>13, <2>14, <2>16, <2>17
               DEF Agent, AgentNext, Reconcile, Execute, Receive
<1>4. CASE Connect \/ RenewLease \/ Environment \/ UNCHANGED vars
      <2>1. requests' \subseteq requests /\ UNCHANGED <<reply, inbox>>
            BY <1>4 DEF Connect, RenewLease, Heartbeat, RenewDuringImport, Environment, Tick,
               Lose, channelVars, inboxVars,
               vars
      <2> QED
            BY <1>1, <2>1
<1> QED
      BY <1>2, <1>3, <1>4 DEF Next

LEMMA NextJournal == IInv /\ JInv /\ [Next]_vars => JInv'
<1> SUFFICES ASSUME IInv, JInv, [Next]_vars PROVE JInv'
    OBVIOUS
<1>1. StateFollowsJournal' /\ \A c \in Command : state'[c] = "none" => receipt'[c] = 0
      <2>1. CASE Core
            BY <2>1, CoreJournal DEF IInv
      <2>2. CASE Agent \/ Connect \/ RenewLease \/ Environment \/ UNCHANGED vars
            <3>1. UNCHANGED <<state, receipt, result>>
                  BY <2>2 DEF Agent, Connect, RenewLease, Heartbeat, RenewDuringImport,
                     Environment, vars, ledgerVars,
                     journalVars
            <3> QED
                  BY <3>1 DEF JInv, KnownInv, StateFollowsJournal
      <2> QED
            BY <2>1, <2>2 DEF Next
<1> QED
      BY <1>1, KnownStep DEF JInv

\* Only commands that the Core has assigned are on the way, answered or in the
\* Agent's inbox, a receipt of one always carries a time, and the state column says
\* what the rows behind it say (recordReceipt, recordResult, the inbox's one slot).
THEOREM JournalIsConsistent == ASSUME ~AllowSameSecond PROVE Spec => []JInv
  BY InitJournal, NextJournal, Invariance, PTL DEF Spec

\* The state column always says what the receipt and result rows behind it say, in
\* whatever order receipts, results, expiry and replays arrive.
THEOREM StateIsConsistent == ASSUME ~AllowSameSecond PROVE Spec => []StateFollowsJournal
<1>1. JInv => StateFollowsJournal
      BY DEF JInv
<1> QED
      BY <1>1, JournalIsConsistent, PTL

-------------------------------------------------------------------------------
(***************************************************************************)
(* Command delivery implements OneShotCommand.                             *)
(***************************************************************************)
LEMMA InitOneShot == Init => OneShot!Init
<1> SUFFICES ASSUME Init PROVE OneShot!Init
    OBVIOUS
<1>1. [c \in Command |-> receipt[c] # 0] = [c \in Command |-> FALSE]
      BY DEF Init, LedgerInit
<1>2. [c \in Command |-> effects[c] > 0] = [c \in Command |-> FALSE]
      <2>1. \A c \in Command : effects[c] = 0
            BY DEF Init, InboxInit
      <2>2. \A c \in Command : (effects[c] > 0) = FALSE
            BY <2>1
      <2> QED
            BY <2>2, Zenon
<1>3. [c \in Command |-> VerdictOf(result[c])] = [c \in Command |-> "open"]
      <2>1. \A c \in Command : result[c] = NoResult
            BY DEF Init, LedgerInit
      <2>2. VerdictOf(NoResult) = "open"
            BY DEF VerdictOf
      <2>3. \A c \in Command : VerdictOf(result[c]) = "open"
            BY <2>1, <2>2
      <2> QED
            BY <2>3
<1> QED
      BY <1>1, <1>2, <1>3 DEF OneShot!Init

\* The abstract state moves only where a receipt, an effect or a result is new.
LEMMA OneShotStutter ==
    ASSUME TypeOK,
           \A c \in Command : receipt[c] # 0 <=> receipt'[c] # 0,
           UNCHANGED <<result, effects>>
    PROVE  UNCHANGED OneShot!oneShotVars
  BY DEF OneShot!oneShotVars, TypeOK, LedgerTypeOK

LEMMA ReceiptPermits ==
    ASSUME IInv, NEW m \in requests, AcceptReceipt(m), UNCHANGED effects
    PROVE  [OneShot!Next]_OneShot!oneShotVars
<1>1. /\ m.cmd \in Command /\ m.at \in Nat
      /\ receipt' = [receipt EXCEPT ![m.cmd] = m.at]
      /\ receipt[m.cmd] \in {0, m.at}
      /\ result' = result
      /\ receipt \in [Command -> Nat]
      BY DEF AcceptReceipt, Acceptable, Receipt, IInv, TypeOK, LedgerTypeOK
<1>2. CASE receipt[m.cmd] # 0 \/ m.at = 0
      <2>1. \A c \in Command : receipt[c] # 0 <=> receipt'[c] # 0
            BY <1>1, <1>2
      <2> QED
            BY <1>1, <2>1, OneShotStutter DEF IInv
<1>3. CASE receipt[m.cmd] = 0 /\ m.at # 0
      <2>1. OneShot!Permit(m.cmd)
            BY <1>1, <1>3 DEF OneShot!Permit
      <2> QED
            BY <1>1, <2>1 DEF OneShot!Next
<1> QED
      BY <1>1, <1>2, <1>3

LEMMA ResultSettles ==
    ASSUME IInv, NEW m \in requests, RecordResult(m), UNCHANGED effects
    PROVE  [OneShot!Next]_OneShot!oneShotVars
<1>1. /\ m \in ResultReport /\ m.cmd \in Command /\ m.result \in Result
      /\ result' = [result EXCEPT ![m.cmd] = m.result]
      /\ result[m.cmd] \in {NoResult, m.result}
      /\ receipt' = receipt /\ receipt[m.cmd] # 0
      /\ result \in [Command -> Result \cup {NoResult}]
      /\ effects \in [Command -> Nat]
      BY DEF RecordResult, Recordable, ResultReport, IInv, TypeOK, LedgerTypeOK, InboxTypeOK
<1>2. CASE result[m.cmd] = m.result
      <2>1. result' = result
            BY <1>1, <1>2
      <2> QED
            BY <1>1, <2>1, OneShotStutter DEF IInv
<1>3. CASE result[m.cmd] = NoResult
      <2>1. Truthful(m.result, m.cmd)
            BY <1>1, <1>3 DEF IInv, EffectInv, Unresolved
      <2> DEFINE v == VerdictOf(m.result)
      <2>2. /\ v \in {"not_run", "done", "refused", "unknown"}
            /\ v = "done" => effects[m.cmd] > 0
            /\ v = "not_run" => ~(effects[m.cmd] > 0)
            BY <1>1, <2>1, NoResultIsNone DEF VerdictOf, Truthful
      <2>3. v = "refused" => ~(effects[m.cmd] > 0)
            <3>1. v = "refused" => m.result.category = "rejected"
                  BY <1>1, NoResultIsNone DEF VerdictOf, Result
            <3> QED
                  BY <1>1, <2>1, <3>1 DEF Truthful
      <2>4. OneShot!Settle(m.cmd, v)
            <3>1. \A c \in Command :
                     VerdictOf(result'[c]) = IF c = m.cmd THEN v ELSE VerdictOf(result[c])
                  BY <1>1
            <3>2. [c \in Command |-> VerdictOf(result'[c])] =
                     [[c \in Command |-> VerdictOf(result[c])] EXCEPT ![m.cmd] = v]
                  BY <1>1, <3>1
            <3>3. VerdictOf(result[m.cmd]) = "open"
                  BY <1>3 DEF VerdictOf
            <3> HIDE DEF v
            <3> QED
                  BY <1>1, <2>2, <2>3, <3>2, <3>3 DEF OneShot!Settle, OneShot!Verdict
      <2>5. v \in OneShot!Verdict
            BY <2>2 DEF OneShot!Verdict
      <2> HIDE DEF v
      <2> QED
            BY <1>1, <2>4, <2>5 DEF OneShot!Next
<1> QED
      BY <1>1, <1>2, <1>3

LEMMA RunRuns ==
    ASSUME IInv, NEW r, NEW effect \in {0, 1}, Ran(r, effect),
           phase \in {"ready", "running"}, UNCHANGED <<receipt, result>>
    PROVE  [OneShot!Next]_OneShot!oneShotVars
<1>1. PICK c \in Command : c = inbox.cmd
      BY ReadyIsUntouched
<1>2. /\ result[c] = NoResult /\ effects[c] = 0 /\ receipt[c] # 0
      /\ effects' = [effects EXCEPT ![c] = @ + effect]
      /\ effects \in [Command -> Nat]
      BY <1>1, ReadyIsUntouched DEF Ran, IInv, TypeOK, InboxTypeOK
<1>3. CASE effect = 0
      <2>1. effects' = effects
            BY <1>2, <1>3
      <2> QED
            BY <2>1, OneShotStutter DEF IInv
<1>4. CASE effect = 1
      <2>1. [d \in Command |-> effects'[d] > 0] =
               [[d \in Command |-> effects[d] > 0] EXCEPT ![c] = TRUE]
            <3>1. \A d \in Command : effects'[d] > 0 <=> (d = c \/ effects[d] > 0)
                  BY <1>2, <1>4
            <3> QED
                  BY <1>2, <3>1
      <2>2. VerdictOf(result[c]) = "open"
            BY <1>2 DEF VerdictOf
      <2>3. OneShot!Run(c)
            <3>1. [d \in Command |-> receipt[d] # 0][c]
                  BY <1>2
            <3>2. ~[d \in Command |-> effects[d] > 0][c]
                  <4>1. ~(effects[c] > 0)
                        BY <1>2
                  <4> QED
                        BY <4>1, Zenon
            <3>3. [d \in Command |-> VerdictOf(result[d])][c] = "open"
                  BY <2>2
            <3>4. /\ [d \in Command |-> receipt'[d] # 0] = [d \in Command |-> receipt[d] # 0]
                  /\ [d \in Command |-> VerdictOf(result'[d])] =
                        [d \in Command |-> VerdictOf(result[d])]
                  OBVIOUS
            <3> QED
                  BY <2>1, <3>1, <3>2, <3>3, <3>4, Zenon DEF OneShot!Run
      <2> QED
            BY <2>3 DEF OneShot!Next
<1> QED
      BY <1>3, <1>4

LEMMA NextOneShot ==
    ASSUME IInv, [Next]_vars
    PROVE  [OneShot!Next]_OneShot!oneShotVars
<1>0. ASSUME UNCHANGED <<receipt, result, effects>>
      PROVE  [OneShot!Next]_OneShot!oneShotVars
      BY <1>0, OneShotStutter DEF IInv
<1>1. CASE Core
      BY <1>0, <1>1, CoreSteps, ReceiptPermits, ResultSettles
         DEF Core, inboxVars, QuietCore, IInv
<1>2. CASE Connect \/ RenewLease \/ Environment \/ UNCHANGED vars
      BY <1>0, <1>2 DEF Connect, RenewLease, Heartbeat, RenewDuringImport, Environment, vars,
         ledgerVars, journalVars,
         inboxVars
<1>3. CASE Agent
      <2>0. UNCHANGED <<receipt, result>>
            BY <1>3 DEF Agent, ledgerVars
      <2>1. ASSUME effects' = effects PROVE [OneShot!Next]_OneShot!oneShotVars
            BY <1>0, <2>0, <2>1
      <2>2. ASSUME NEW r, NEW effect \in {0, 1}, Ran(r, effect), phase \in {"ready", "running"}
            PROVE  [OneShot!Next]_OneShot!oneShotVars
            BY <2>0, <2>2, RunRuns
      <2>3. CASE RunDirect
            BY <2>2, <2>3 DEF RunDirect, RunProbe, RunOsd, RunImport
      <2>4. CASE RunNative
            BY <2>2, <2>4 DEF RunNative
      <2>5. CASE Reconcile
            BY <2>1, <2>5 DEF Reconcile, RecoverInterrupted, Retire, PrepareStarting,
               BeginReceipt, AskReceipt, ExpireOsd, ResendReceipt, SendResult,
               ReceiptAcknowledged, ResultAcknowledged
      <2>6. CASE ExpireReady \/ Unauthorized \/ Start \/ PersistOutcome \/ PersistFails
            BY <2>1, <2>6 DEF ExpireReady, Unauthorized, Start, PersistOutcome, PersistFails
      <2>7. CASE Receive \/ Crash \/ ProviderRestart
            BY <2>1, <2>7 DEF Receive, SendPoll, StoreNothing, StoreDuplicate,
               StoreAssignment, CycleFails, Crash, ProviderRestart
      <2> QED
            BY <1>3, <2>3, <2>4, <2>5, <2>6, <2>7 DEF Agent, AgentNext, Execute
<1> QED
      BY <1>1, <1>2, <1>3 DEF Next

\* Seen from the Core's two journals and the backend, the whole protocol is one
\* permission, at most one run and at most one final and truthful verdict.
THEOREM OneShotRefinement == ASSUME ~AllowSameSecond PROVE Spec => ImplementsOneShot
  BY InitOneShot, NextOneShot, Invariance, PTL DEF Spec, ImplementsOneShot, OneShot!Spec
===============================================================================
