------------------------------ MODULE OneShotCommand ------------------------------
(***************************************************************************)
(* What command delivery promises for each command, with no Agent, no      *)
(* inbox, no calls and no clock: it is permitted, it may run once, and its *)
(* result, once settled, is final and closes it.                           *)
(***************************************************************************)
EXTENDS Naturals

CONSTANT Command

VARIABLES
    permitted,  \* the Core recorded the receipt
    ran,        \* the command had its effect on the backend
    verdict     \* what the Core recorded about it

oneShotVars == <<permitted, ran, verdict>>

Verdict == {"open", "not_run", "done", "refused", "unknown"}

Init ==
    /\ permitted = [c \in Command |-> FALSE]
    /\ ran = [c \in Command |-> FALSE]
    /\ verdict = [c \in Command |-> "open"]

Permit(c) ==
    /\ ~permitted[c]
    /\ permitted' = [permitted EXCEPT ![c] = TRUE]
    /\ UNCHANGED <<ran, verdict>>

\* Never twice, never without permission, never once the verdict is in.
Run(c) ==
    /\ permitted[c]
    /\ ~ran[c]
    /\ verdict[c] = "open"
    /\ ran' = [ran EXCEPT ![c] = TRUE]
    /\ UNCHANGED <<permitted, verdict>>

\* A verdict is the only one and does not lie; "unknown" commits to nothing.
Settle(c, v) ==
    /\ permitted[c]
    /\ verdict[c] = "open"
    /\ v \in Verdict \ {"open"}
    /\ v \in {"not_run", "refused"} => ~ran[c]
    /\ v = "done" => ran[c]
    /\ verdict' = [verdict EXCEPT ![c] = v]
    /\ UNCHANGED <<permitted, ran>>

Next ==
    \E c \in Command :
        \/ Permit(c)
        \/ Run(c)
        \/ \E v \in Verdict : Settle(c, v)

Spec == Init /\ [][Next]_oneShotVars
===============================================================================
