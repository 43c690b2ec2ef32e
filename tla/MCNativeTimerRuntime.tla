------------------------- MODULE MCNativeTimerRuntime -------------------------
(***************************************************************************)
(* The timer runtime on small instances: two contents of one identity, as  *)
(* TOGGLE has them, and one of another, on another schedule.               *)
(***************************************************************************)
EXTENDS TimerInvariant, TLC

CONSTANTS o1, o2, o3, b1, b2, x, y, z

AnyOperation == {o1, o2, o3}
OneBackend == {b1}
BothBackends == {b1, b2}

AnyContent == {x, y, z}
Schedules == (x :> 1) @@ (y :> 1) @@ (z :> 2)

OperationSymmetry == Permutations(AnyOperation)
ContentSymmetry == Permutations({x, y})
BackendSymmetry == Permutations(BothBackends)
Symmetry == OperationSymmetry \cup BackendSymmetry \cup ContentSymmetry

\* Constraint, without loss: only Agents that an assignment names restart.  An
\* assignment takes whatever generation there is.
NamedAgentsRestart ==
    \A b \in Backend : agentGen[b] > 1 =>
        \E e \in Epoch : Assigned(e) /\ assignment[e].backend = b

\* Constraint: an edit from outside meets all but one of the operations.
EditsMeetFewer == edits # {} => \E o \in Operation : ~Reserved(o)
===============================================================================
