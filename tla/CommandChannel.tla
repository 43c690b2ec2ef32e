---------------------------- MODULE CommandChannel ----------------------------
(***************************************************************************)
(* What the Control Plane ("Core") and one Backend Agent share while a     *)
(* command is delivered: the immutable assignment the Core wrote, the      *)
(* clock, and the Agent's HTTPS calls.                                     *)
(*                                                                         *)
(* The Agent makes one call at a time (one thread runs the whole poll,     *)
(* receipt, result cycle) and gives up on it at any moment: a timeout, a   *)
(* non-200 answer and a lost answer look the same to it.  A request it     *)
(* gave up on may still reach the Core later, or be lost.  Identical       *)
(* retransmissions merge; the handlers answer an exact repetition from the *)
(* stored row.                                                             *)
(***************************************************************************)
EXTENDS Naturals, FiniteSets

CONSTANTS
    Command,       \* command identities the Core may assign
    NoCommand,     \* "no command": an empty inbox or an empty poll answer
    KindOf,        \* the command type of each command
    Ttl,           \* seconds between assignment and deadline, per command
    MaxTime,       \* bound on the clock
    MaxGen,        \* bound on Agent connections (backend generations)
    MaxEpoch,      \* bound on VDR restarts (provider instance epochs)
    MaxOwnership,  \* bound on changes of provider ownership
    MaxInFlight    \* bound on calls in flight, abandoned ones included

(***************************************************************************)
(* The command types, by the path they take through the code.  "delete"    *)
(* stands for timer DELETE and recording marks, "modify" for timer UPDATE  *)
(* and TOGGLE, "import" for media import and both media shrink commands,   *)
(* "osd" for legacy OSD input and "probe" for probe.noop.                  *)
(***************************************************************************)
NativeKind == {"create", "modify", "delete", "cut"}
DirectKind == {"probe", "import", "osd"}
Kind == NativeKind \cup DirectKind

\* The result of these kinds is stored on the Agent only with evidence of a
\* completed native call next to it.
EvidenceKind == {"create", "modify"}

ASSUME KindAssumption == KindOf \in [Command -> Kind]
ASSUME TtlAssumption == Ttl \in [Command -> Nat \ {0}]
ASSUME NoCommandAssumption == NoCommand \notin Command
ASSUME BoundAssumption ==
    /\ MaxTime \in Nat
    /\ MaxGen \in Nat
    /\ MaxEpoch \in Nat
    /\ MaxOwnership \in Nat
    /\ MaxInFlight \in Nat

VARIABLES
    now,       \* wall clock, in seconds
    assigned,  \* the assignment of each command, as the Core wrote it
    requests,  \* calls in flight towards the Core
    call,      \* the call the Agent is waiting on
    reply      \* the Core's answer to that call

channelVars == <<now, assigned, requests, call, reply>>

-------------------------------------------------------------------------------
\* An assignment binds the command to a generation and to a provider selection.
NotAssigned == [gen |-> 0, at |-> 0, epoch |-> 0, owner |-> 0]
Assignment == [gen : Nat, at : Nat, epoch : Nat, owner : Nat]

Deadline(c) == assigned[c].at + Ttl[c]
Native(c) == KindOf[c] \in NativeKind

Result == [dispatch : {"not_started", "starting", "accepted_by_executor",
                       "effect_reported"},
           category : {"succeeded", "rejected", "outcome_unknown"},
           error    : {"none", "expired", "fenced", "executor_unknown"},
           at       : Nat]
NoResult == [dispatch |-> "none", category |-> "none", error |-> "none", at |-> 0]

MakeResult(dispatch, category, error) ==
    [dispatch |-> dispatch, category |-> category, error |-> error, at |-> now]

Receipt == [type : {"receipt"}, cmd : Command, gen : Nat, at : Nat]
ResultReport == [type : {"result"}, cmd : Command, gen : Nat, result : Result]
Poll == [type : {"poll"}, gen : Nat, refresh : BOOLEAN, epoch : Nat]
Message == Receipt \cup ResultReport \cup Poll
NoCall == [type |-> "none"]

Reply == [status : {"none", "ok", "refused"}, cmd : Command \cup {NoCommand}]
NoReply == [status |-> "none", cmd |-> NoCommand]
Accepted == [status |-> "ok", cmd |-> NoCommand]
Refused == [status |-> "refused", cmd |-> NoCommand]
Delivered(c) == [status |-> "ok", cmd |-> c]

\* The Agent starts a call.
Send(m) ==
    /\ Cardinality(requests \cup {m}) <= MaxInFlight
    /\ requests' = requests \cup {m}
    /\ call' = m
    /\ reply' = NoReply

\* The Core is done with a request; nobody may be left waiting for the answer.
Respond(m, answer) ==
    /\ requests' = requests \ {m}
    /\ reply' = IF call = m THEN answer ELSE reply
    /\ UNCHANGED call

\* The Agent's call ends, with or without an answer.
EndCall ==
    /\ call' = NoCall
    /\ reply' = NoReply
    /\ UNCHANGED requests

\* Mutant: a refusal counts as an answer.
AnsweredAtAll(type) == call.type = type /\ reply.status # "none"

Answered(type) == call.type = type /\ reply.status = "ok"

-------------------------------------------------------------------------------
ChannelTypeOK ==
    /\ now \in Nat
    /\ assigned \in [Command -> Assignment]
    /\ requests \subseteq Message
    /\ call \in Message \cup {NoCall}
    /\ reply \in Reply

ChannelInit ==
    /\ now = 1
    /\ assigned = [c \in Command |-> NotAssigned]
    /\ requests = {}
    /\ call = NoCall
    /\ reply = NoReply

\* A request the Agent no longer waits for never reaches the Core.
Lose(m) ==
    /\ m \in requests
    /\ m # call
    /\ requests' = requests \ {m}
    /\ UNCHANGED <<now, assigned, call, reply>>

Tick ==
    /\ now < MaxTime
    /\ now' = now + 1
    /\ UNCHANGED <<assigned, requests, call, reply>>
===============================================================================
