--------------------------- MODULE OperationJournal ---------------------------
(***************************************************************************)
(* The durable mutation operations (MutationOperationRepository): what was *)
(* asked for, immutable once reserved, and the life cycle of ADR-0042,     *)
(* which only moves by compare-and-set.  Idempotency keys are left out: a  *)
(* repeated key is answered with the stored operation and changes nothing, *)
(* so an operation here is a request under a key of its own.               *)
(***************************************************************************)
EXTENDS Naturals

CONSTANTS Operation, NoRequest

VARIABLES
    request,    \* what each operation asks for, NoRequest until reserved
    state       \* its life cycle state, "none" until reserved

journalVars == <<request, state>>

OperationState == {"accepted", "rejected", "conflict", "queued", "dispatching",
                   "executed_unverified", "outcome_unknown", "succeeded",
                   "failed_before_dispatch", "failed_verified", "cancelled"}

Terminal == {"rejected", "conflict", "succeeded", "failed_before_dispatch",
             "failed_verified", "cancelled"}

Unresolved == {"executed_unverified", "outcome_unknown"}

Successors == [
    accepted            |-> {"rejected", "conflict", "queued", "dispatching",
                             "failed_before_dispatch", "cancelled"},
    queued              |-> {"dispatching", "failed_before_dispatch", "cancelled"},
    dispatching         |-> {"executed_unverified", "failed_before_dispatch",
                             "outcome_unknown", "failed_verified"},
    executed_unverified |-> {"succeeded", "failed_verified", "outcome_unknown"},
    outcome_unknown     |-> {"executed_unverified", "succeeded", "failed_verified"}]

\* mutationOperationTransitionAllowed, without the idle transitions.
Allowed(from, to) == from \in DOMAIN Successors /\ to \in Successors[from]

JournalInit ==
    /\ request = [o \in Operation |-> NoRequest]
    /\ state = [o \in Operation |-> "none"]

Reserved(o) == state[o] # "none"

Open(o) == Reserved(o) /\ state[o] \notin Terminal

\* reserveInCurrentTransaction of an operation whose identity is new.
Reserve(o, r) ==
    /\ ~Reserved(o)
    /\ request' = [request EXCEPT ![o] = r]
    /\ state' = [state EXCEPT ![o] = "accepted"]

\* transition: the compare-and-set on the state that was read.
Move(o, from, to) ==
    /\ state[o] = from
    /\ Allowed(from, to)
    /\ state' = [state EXCEPT ![o] = to]
    /\ UNCHANGED request
===============================================================================
