---------------------------- MODULE CommandInvariant ----------------------------
(***************************************************************************)
(* Why CommandDelivery is safe: the inductive invariant behind its safety  *)
(* properties.                                                             *)
(*                                                                         *)
(* Its heart is Unresolved and Resolved.  As long as the Core has no       *)
(* result of a command, everything that exists about it (a receipt, a call *)
(* in flight, an effect) belongs to the one entry now in the Agent's       *)
(* inbox, because an entry is replaced or retired only once it is Settled. *)
(* Once the Core has a result, a second entry for the command can be made  *)
(* by a replay, but its receipt is a different one and is never accepted.  *)
(***************************************************************************)
EXTENDS CommandDelivery

\* The executor may still be reached with the entry now in the inbox.
Runnable ==
    /\ ~HasResult
    /\ \/ inbox.dispatch = "not_started"
       \/ phase \in {"waiting", "ready", "running"}

\* r does not lie about the effects of command c.
Truthful(r, c) ==
    /\ r.dispatch = "not_started" \/ r.category = "rejected" => effects[c] = 0
    /\ r.category = "succeeded" => effects[c] = 1

\* Where the Agent's cycle stands and what its file says then.
PhaseInv ==
    /\ phase \in {"ready", "running", "ran"} =>
          Occupied /\ InContext /\ ~HasResult /\ inbox.receiptAcked
    /\ phase \in {"running", "ran"} => inbox.dispatch = "starting"
    /\ phase = "ran" => /\ result[inbox.cmd] = NoResult
                        /\ Truthful(outcome, inbox.cmd)

\* A call is outstanding only while waiting, and it is about the inbox.
CallInv ==
    /\ phase # "waiting" => call = NoCall /\ reply = NoReply
    /\ phase = "waiting" =>
          /\ call.type = "poll" => Settled
          /\ call.type = "receipt" => Occupied /\ InContext /\ call = ReceiptMessage
          /\ call.type = "result" => /\ Occupied /\ HasResult
                                     /\ call = ResultMessage(inbox.result)
                                     /\ InContext \/ Historical
    /\ reply.status = "ok" =>
          /\ call.type = "receipt" => receipt[call.cmd] = call.at
          /\ call.type = "result" => result[call.cmd] = call.result

\* Acknowledgements are truthful, and 0 is never the time of a receipt.
AckInv ==
    /\ now > 0
    /\ Occupied => inbox.receiptAt > 0
    /\ inbox.resultAcked => HasResult
    /\ AcknowledgedIsRecorded

Unresolved(c) ==
    /\ receipt[c] # 0 => inbox.cmd = c /\ inbox.receiptAt = receipt[c]
    /\ \A m \in requests :
          /\ m \in Receipt /\ m.cmd = c => inbox.cmd = c /\ inbox.receiptAt = m.at
          /\ m \in ResultReport /\ m.cmd = c => inbox.cmd = c /\ inbox.result = m.result
    /\ effects[c] > 0 => /\ inbox.cmd = c /\ inbox.dispatch = "starting"
                         /\ receipt[c] # 0
                         /\ ~Runnable
    /\ inbox.cmd = c => Truthful(inbox.result, c)

Resolved(c) ==
    /\ receipt[c] # 0
    /\ Truthful(result[c], c)
    /\ inbox.cmd = c /\ Runnable => inbox.receiptAt # receipt[c]

EffectInv ==
    \A c \in Command :
        /\ effects[c] <= 1
        /\ IF result[c] = NoResult THEN Unresolved(c) ELSE Resolved(c)

\* Only assigned commands travel; the state column says so, too.
KnownInv ==
    /\ \A c \in Command : state[c] = "none" => receipt[c] = 0
    /\ \A m \in requests : m \in Receipt \cup ResultReport => state[m.cmd] # "none"
    /\ \A m \in requests : m \in Receipt => m.at # 0
    /\ reply.cmd # NoCommand => state[reply.cmd] # "none"
    /\ Occupied => state[inbox.cmd] # "none"

IInv == TypeOK /\ PhaseInv /\ CallInv /\ AckInv /\ EffectInv
JInv == KnownInv /\ StateFollowsJournal
===============================================================================
