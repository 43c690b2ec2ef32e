-------------------------- MODULE OsdControlInvariant --------------------------
(***************************************************************************)
(* What exclusive control of the OSD promises, and the inductive invariant *)
(* behind it.                                                              *)
(***************************************************************************)
EXTENDS OsdControl

SameSurface(i, j) == leases[i].surface = leases[j].surface

Received(k) == input[k] # NoInput /\ input[k].received

\* The receipt of input k is accepted in this step.
Accepted(k) == ~Received(k) /\ Received(k)'

-------------------------------------------------------------------------------
\* "Only one active controller lease may exist for one native surface scope"
\* (docs/adr/ADR-0047-legacy-osd-compatibility-bridge.md), although leases end
\* unnoticed and are found ended by whoever looks, in any order with renewals
\* (OsdControllerLeaseService::acquire, renew, refreshLease).
OneController ==
    \A i, j \in Active : SameSurface(i, j) => i = j

Earlier(m, k) ==
    \/ input[m].lease < input[k].lease
    \/ input[m].lease = input[k].lease /\ input[m].rev <= input[k].rev

FencedStep ==
    \A k, m \in Input :
        /\ Accepted(k)
        /\ Received(m)
        /\ SameSurface(input[m].lease, input[k].lease)
        => Earlier(m, k)

\* Once input of a later controller of a surface, or under a later revision of
\* one lease, was received, no earlier one is: "commands from an old epoch are
\* rejected" (ADR-0047).  It takes a handover, or a renewal, while input is
\* queued (LegacyOsdInputService::authorityCurrent).
InputFenced == [][FencedStep]_allVars

Authorised(k) ==
    LET i == input[k].lease
        l == leases[i]
    IN  /\ l.holder \in controllers
        /\ {l.holder, input[k].by} \subseteq granted
        /\ l.state = "active"
        /\ l.rev = input[k].rev
        /\ \A c \in {l.holder, input[k].by} : view[c].surface = surface
        /\ \A j \in Active : leases[j].surface = surface => j = i

\* Input is only received under the one lease there is on the surface observed,
\* not renewed since the input was submitted, while the lease's holder may still
\* control and both the holder and the sender still view that surface: grants
\* are withdrawn, surfaces replaced, bindings detached and leases handed over
\* while input is queued, and nobody tells the lease
\* (OsdControllerLeaseService::refreshLease).
ReceivedWithAuthority ==
    [][\A k \in Input : Accepted(k) => Authorised(k)]_allVars

\* Input that was received was sent by the holder of the lease it was sent
\* under: "a viewer has no control authority merely because another viewer in
\* the same session holds the controller lease" (ADR-0047).  Refuted: current
\* tells every viewer of the lease in force, and authorityCurrent compares the
\* lease's id, epoch and revision, and not its holder.
ControlledByHolder ==
    \A k \in Input : Received(k) => input[k].by = leases[input[k].lease].holder

\* Client c may control the surface, and a lease it does not hold, or does not
\* know it holds, is in the way.
ShutOut(c) ==
    /\ c \in controllers
    /\ Sees(c)
    /\ \E i \in InTheWay :
          \/ leases[i].holder # c
          \/ known[c] = NoLease
          \/ known[c].lease # i

\* "Client disconnect does not leave a permanent controller lock" (ADR-0047):
\* no client is shut out for ever by a lease that is no longer renewed, be its
\* holder gone or the answer that granted it lost.  (The bound on revisions
\* makes every holder stop renewing some time.)
NotLockedOut == \A c \in Client : []<>~ShutOut(c)

-------------------------------------------------------------------------------
\* surfaceOwners_ has the active leases and no other.
OwnersActive == owners = Active

\* Leases are acquired one after another, and a later one of a surface finds
\* every earlier one ended for good.
Superseded ==
    \A i, j \in Acquired : i < j /\ SameSurface(i, j) => i \notin Active

Dense == \A i, j \in LeaseId : i < j /\ j \in Acquired => i \in Acquired

\* What a client was told of is a lease, and never of a revision to come.
KnownMade ==
    \A c \in Client : known[c] # NoLease =>
        /\ known[c].lease \in Acquired
        /\ known[c].rev <= leases[known[c].lease].rev

InputMade ==
    \A k \in Input : input[k] # NoInput =>
        /\ input[k].lease \in Acquired
        /\ input[k].rev <= leases[input[k].lease].rev

\* The inductive invariant.
ControlInv ==
    /\ ControlTypeOK
    /\ OwnersActive
    /\ Superseded
    /\ Dense
    /\ KnownMade
    /\ InputMade
===============================================================================
