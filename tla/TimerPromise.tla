------------------------------ MODULE TimerPromise ------------------------------
(***************************************************************************)
(* What a timer operation promises whoever asked for it, with no command,  *)
(* binding or readback: it is open from its admission until it is kept or  *)
(* refused, it has its effect at most once and only while it is open, and  *)
(* the answer is final and does not lie.  A CREATE is kept by its effect   *)
(* and a DELETE when the timer is absent, whoever removed it.  A MODIFY is *)
(* kept when the timer is as asked for and refused when it is as it was,   *)
(* which is its own effect or the lack of it as long as nobody else        *)
(* changes the timer.                                                      *)
(***************************************************************************)
CONSTANTS Operation, Timer, NoWork

VARIABLES
    promise,    \* "none", "open", "kept" or "refused"
    work,       \* what is asked, and of which timer, NoWork until admitted
    effect,     \* it had its effect on the VDR
    touched     \* timers that someone outside has changed

promiseVars == <<promise, work, effect, touched>>

Work == [kind : {"create", "modify", "delete"}, timer : Timer]

Init ==
    /\ promise = [o \in Operation |-> "none"]
    /\ work = [o \in Operation |-> NoWork]
    /\ effect = [o \in Operation |-> FALSE]
    /\ touched = {}

\* Another MODIFY or someone outside has changed the timer o is to modify.
ChangedByOthers(o) ==
    /\ work[o].kind = "modify"
    /\ \/ work[o].timer \in touched
       \/ \E p \in Operation \ {o} : effect[p] /\ work[p] = work[o]

Admit(o) ==
    /\ promise[o] = "none"
    /\ promise' = [promise EXCEPT ![o] = "open"]
    /\ \E w \in Work : work' = [work EXCEPT ![o] = w]
    /\ UNCHANGED <<effect, touched>>

Affect(o) ==
    /\ promise[o] = "open"
    /\ ~effect[o]
    /\ effect' = [effect EXCEPT ![o] = TRUE]
    /\ UNCHANGED <<promise, work, touched>>

Keep(o) ==
    /\ promise[o] = "open"
    /\ work[o].kind = "delete" \/ effect[o] \/ ChangedByOthers(o)
    /\ promise' = [promise EXCEPT ![o] = "kept"]
    /\ UNCHANGED <<work, effect, touched>>

Refuse(o) ==
    /\ promise[o] = "open"
    /\ ~effect[o] \/ ChangedByOthers(o)
    /\ promise' = [promise EXCEPT ![o] = "refused"]
    /\ UNCHANGED <<work, effect, touched>>

Touch(t) ==
    /\ touched' = touched \cup {t}
    /\ UNCHANGED <<promise, work, effect>>

Next ==
    \/ \E o \in Operation :
        \/ Admit(o)
        \/ Affect(o)
        \/ Keep(o)
        \/ Refuse(o)
    \/ \E t \in Timer : Touch(t)

Spec == Init /\ [][Next]_promiseVars
===============================================================================
