----------------------------- MODULE CommandLedger -----------------------------
(***************************************************************************)
(* The Control Plane side: the durable command ledger of one backend       *)
(* (BackendAgentCommandRepository) behind BackendAgentCommandDelivery-     *)
(* Service.  Every handler runs as one SQLite transaction; the check of    *)
(* the Agent's generation in front of it reads what no handler here        *)
(* writes, so each handler is one step.                                    *)
(***************************************************************************)
EXTENDS CommandChannel

VARIABLES
    coreGen,    \* generation of the Agent instance now bound to the backend
    lease,      \* when that Agent's lease expires
    advert,     \* what the last capability refresh published
    ownership,  \* provider ownership of the native command domain
    state,      \* lifecycle column of each command
    replay,     \* replay_requested flag of each command
    receipt,    \* receivedAt of the recorded receipt, 0 when there is none
    result      \* the recorded result, NoResult when there is none

ledgerVars == <<coreGen, lease, advert, ownership, state, replay, receipt, result>>

\* The columns that only a receipt, a result, a poll or an assignment changes.
registrationVars == <<coreGen, lease>>
providerVars == <<advert, ownership>>
journalVars == <<state, replay, receipt, result>>

CommandState == {"none", "assigned", "received", "expired",
                 "waiting_reconciliation", "completed"}

LedgerTypeOK ==
    /\ coreGen \in Nat
    /\ lease \in Nat
    /\ advert \in [gen : Nat, epoch : Nat]
    /\ ownership \in [gen : Nat, active : BOOLEAN]
    /\ state \in [Command -> CommandState]
    /\ replay \in [Command -> BOOLEAN]
    /\ receipt \in [Command -> Nat]
    /\ result \in [Command -> Result \cup {NoResult}]

\* No Agent has connected yet; the operator has made SuiteBridge the provider.
LedgerInit ==
    /\ coreGen = 0
    /\ lease = 0
    /\ advert = [gen |-> 0, epoch |-> 0]
    /\ ownership = [gen |-> 1, active |-> TRUE]
    /\ state = [c \in Command |-> "none"]
    /\ replay = [c \in Command |-> FALSE]
    /\ receipt = [c \in Command |-> 0]
    /\ result = [c \in Command |-> NoResult]

-------------------------------------------------------------------------------
LeaseLive == lease >= now

\* hasCapability: native types are advertised only together with a provider.
Capable(c, published) ==
    /\ published.gen = coreGen
    /\ Native(c) => published.epoch > 0

\* localProviderSelectionCurrent: the selection made at assignment is the one
\* that would be made now, from the ownership and the facts `published'.
SelectionCurrent(c, published) ==
    /\ ownership.active
    /\ published.gen = assigned[c].gen
    /\ published.epoch > 0
    /\ assigned[c].owner = ownership.gen
    /\ assigned[c].epoch = published.epoch

(***************************************************************************)
(* insertAssignment, behind the admission checks its callers share.        *)
(***************************************************************************)
Assign(c) ==
    /\ state[c] = "none"
    /\ coreGen > 0
    /\ IF KindOf[c] = "osd" THEN lease > now ELSE LeaseLive
    /\ Capable(c, advert)
    /\ Native(c) => ownership.active
    /\ assigned' = [assigned EXCEPT ![c] =
            [gen   |-> coreGen,
             at    |-> now,
             epoch |-> IF Native(c) THEN advert.epoch ELSE 0,
             owner |-> IF Native(c) THEN ownership.gen ELSE 0]]
    /\ state' = [state EXCEPT ![c] = "assigned"]
    /\ UNCHANGED <<now, requests, call, reply, registrationVars, providerVars,
                   replay, receipt, result>>

(***************************************************************************)
(* poll.  A refresh republishes capabilities and expires what is overdue;  *)
(* then the oldest deliverable command is offered.  A native command whose *)
(* provider selection went stale is not offered, and neither is any        *)
(* younger one: the query looks at one row only.                           *)
(***************************************************************************)
Published(m) == IF m.refresh THEN [gen |-> m.gen, epoch |-> m.epoch] ELSE advert

\* Mutants: the expiry pass forgets to look at the state, or at undelivered commands.
ExpiredInAnyState(c, refresh) == refresh /\ state[c] # "none" /\ Deadline(c) < now
ExpiredIfReceived(c, refresh) == refresh /\ state[c] = "received" /\ Deadline(c) < now

Expired(c, refresh) ==
    /\ refresh
    /\ state[c] \in {"assigned", "received"}
    /\ Deadline(c) < now

Deliverable(c, m) ==
    /\ assigned[c].gen = coreGen
    /\ Deadline(c) >= now
    /\ replay[c] \/ (state[c] = "assigned" /\ receipt[c] = 0)
    /\ state[c] # "none"
    /\ Capable(c, Published(m))
    /\ KindOf[c] = "cut" => SelectionCurrent(c, Published(m))

Oldest(c, m) ==
    /\ Deliverable(c, m)
    /\ \A d \in Command : Deliverable(d, m) => assigned[c].at <= assigned[d].at

RefusePoll(m) ==
    /\ m \in requests \cap Poll
    /\ m.gen # coreGen \/ ~LeaseLive
    /\ Respond(m, Refused)
    /\ UNCHANGED <<now, assigned, ledgerVars>>

Refresh(m) ==
    /\ m \in requests \cap Poll
    /\ m.gen = coreGen
    /\ LeaseLive
    /\ advert' = Published(m)
    /\ state' = [c \in Command |->
                    IF Expired(c, m.refresh) THEN "expired" ELSE state[c]]
    /\ UNCHANGED <<now, assigned, registrationVars, ownership, receipt, result>>

OfferNothing(m) ==
    /\ Refresh(m)
    /\ \/ \A c \in Command : ~Deliverable(c, m)
       \/ \E c \in Command : /\ Oldest(c, m)
                             /\ Native(c)
                             /\ ~SelectionCurrent(c, Published(m))
    /\ Respond(m, Accepted)
    /\ UNCHANGED replay

Offer(m, c) ==
    /\ Refresh(m)
    /\ Oldest(c, m)
    /\ Native(c) => SelectionCurrent(c, Published(m))
    /\ replay' = [replay EXCEPT ![c] = FALSE]
    /\ Respond(m, Delivered(c))

-------------------------------------------------------------------------------
(***************************************************************************)
(* receipt.  The media and OSD fences run in front of acceptReceipt, on    *)
(* every call.  Whether the caller's grant or OSD authority still holds is *)
(* decided elsewhere; an OSD command past its deadline never passes.       *)
(***************************************************************************)
MayBeFenced(c) == KindOf[c] \in {"import", "osd"}
MayPassFence(c) == KindOf[c] = "osd" => Deadline(c) > now

\* Mutant: a repeated receipt is refused.
AcceptableOnce(m) ==
    /\ m.gen = coreGen
    /\ m.gen = assigned[m.cmd].gen
    /\ receipt[m.cmd] = 0
    /\ Native(m.cmd) => SelectionCurrent(m.cmd, advert)

\* Neither a lease nor a deadline is asked for here.
Acceptable(m) ==
    /\ m.gen = coreGen
    /\ m.gen = assigned[m.cmd].gen
    /\ receipt[m.cmd] \in {0, m.at}
    /\ Native(m.cmd) /\ receipt[m.cmd] = 0 => SelectionCurrent(m.cmd, advert)

\* Mutant: the answer to a refused receipt says "ok".
RefuseReceiptQuietly(m) ==
    /\ m \in requests \cap Receipt
    /\ ~Acceptable(m) \/ MayBeFenced(m.cmd)
    /\ Respond(m, Accepted)
    /\ UNCHANGED <<now, assigned, ledgerVars>>

RefuseReceipt(m) ==
    /\ m \in requests \cap Receipt
    /\ ~Acceptable(m) \/ MayBeFenced(m.cmd)
    /\ Respond(m, Refused)
    /\ UNCHANGED <<now, assigned, ledgerVars>>

\* Mutant: the receipt row is written, the state column forgotten.
AcceptReceiptKeepingState(m) ==
    /\ m \in requests \cap Receipt
    /\ Acceptable(m)
    /\ MayPassFence(m.cmd)
    /\ receipt' = [receipt EXCEPT ![m.cmd] = m.at]
    /\ Respond(m, Accepted)
    /\ UNCHANGED <<now, assigned, registrationVars, providerVars, state, replay, result>>

AcceptReceipt(m) ==
    /\ m \in requests \cap Receipt
    /\ Acceptable(m)
    /\ MayPassFence(m.cmd)
    /\ receipt' = [receipt EXCEPT ![m.cmd] = m.at]
    /\ state' = [state EXCEPT ![m.cmd] =
                    IF receipt[m.cmd] = 0 /\ @ = "assigned" THEN "received" ELSE @]
    /\ Respond(m, Accepted)
    /\ UNCHANGED <<now, assigned, registrationVars, providerVars, replay, result>>

(***************************************************************************)
(* result.  Two results of an older generation are let through: a MODIFY   *)
(* whose outcome is unknown and an import that was never started.          *)
(***************************************************************************)
HistoricalModify(c, r) == KindOf[c] = "modify" /\ r.category = "outcome_unknown"
HistoricalImport(c, r) ==
    /\ KindOf[c] = "import"
    /\ r.dispatch = "not_started"
    /\ r.category = "rejected"
    /\ r.error = "fenced"

GenerationAdmits(m) ==
    \/ m.gen = coreGen
    \/ /\ m.gen < coreGen
       /\ \/ HistoricalModify(m.cmd, m.result)
          \/ HistoricalImport(m.cmd, m.result) /\ Deadline(m.cmd) < now

Recordable(m) ==
    /\ GenerationAdmits(m)
    /\ m.gen = assigned[m.cmd].gen
    /\ receipt[m.cmd] # 0
    /\ result[m.cmd] \in {NoResult, m.result}

RefuseResult(m) ==
    /\ m \in requests \cap ResultReport
    /\ ~Recordable(m)
    /\ Respond(m, Refused)
    /\ UNCHANGED <<now, assigned, ledgerVars>>

\* A repetition changes nothing; the state column follows the result whatever
\* it was before.  Applying a media result to its operation may fail after the
\* row is committed: the Agent is refused and the row stays.
RecordResult(m) ==
    /\ m \in requests \cap ResultReport
    /\ Recordable(m)
    /\ result' = [result EXCEPT ![m.cmd] = m.result]
    /\ state' = [state EXCEPT ![m.cmd] =
                    IF result[m.cmd] # NoResult THEN @
                    ELSE IF m.result.category = "outcome_unknown"
                    THEN "waiting_reconciliation" ELSE "completed"]
    /\ \/ Respond(m, Accepted)
       \/ KindOf[m.cmd] = "import" /\ Respond(m, Refused)
    /\ UNCHANGED <<now, assigned, registrationVars, providerVars, replay, receipt>>

-------------------------------------------------------------------------------
\* requestReplay, by the operator's tool: in any state, for any generation.
RequestReplay(c) ==
    /\ state[c] # "none"
    /\ ~replay[c]
    /\ replay' = [replay EXCEPT ![c] = TRUE]
    /\ UNCHANGED <<channelVars, registrationVars, providerVars, state, receipt, result>>

\* setLocalProviderOwnership and clearLocalProviderOwnership.
ChangeOwnership ==
    /\ ownership.gen < MaxOwnership
    /\ \E active \in BOOLEAN :
          /\ active \/ ownership.active
          /\ ownership' = [gen |-> ownership.gen + 1, active |-> active]
    /\ UNCHANGED <<channelVars, registrationVars, advert, journalVars>>

HandlePoll(m) ==
    \/ RefusePoll(m)
    \/ OfferNothing(m)
    \/ \E c \in Command : Offer(m, c)

HandleReceipt(m) == RefuseReceipt(m) \/ AcceptReceipt(m)

HandleResult(m) == RefuseResult(m) \/ RecordResult(m)

CoreNext ==
    \/ \E c \in Command : Assign(c) \/ RequestReplay(c)
    \/ \E m \in requests : HandlePoll(m) \/ HandleReceipt(m) \/ HandleResult(m)
    \/ ChangeOwnership
===============================================================================
