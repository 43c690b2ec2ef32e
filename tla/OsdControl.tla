------------------------------ MODULE OsdControl ------------------------------
(***************************************************************************)
(* Controllers of the OSD: leases on the surface a viewer sees             *)
(* (OsdControllerLeaseService), and the input submitted under them until   *)
(* the Agent's receipt of it is accepted (LegacyOsdInputService).          *)
(*                                                                         *)
(* Nothing watches a lease: it is looked at when its holder, another       *)
(* viewer or the Agent's receipt asks, and only then found to have ended.  *)
(***************************************************************************)
EXTENDS OsdAccess, Naturals

CONSTANTS
    NoInput,
    NoLease,
    MaxLeases,   \* bound on the leases acquired
    MaxInputs,   \* bound on the input commands submitted
    MaxRevision, \* bound on the revision of a lease
    MaxUpsets    \* bound on surfaces observed, grants withdrawn and bindings
                 \* dropped together

ASSUME ControlAssumption ==
    {MaxLeases, MaxInputs, MaxUpsets} \subseteq Nat /\ MaxRevision \in Nat \ {0}

VARIABLES
    controllers, \* clients with an osd.control grant on a writable backend
    leases,      \* leases_, in the order of their acquisition
    owners,      \* surfaceOwners_: the leases entered for their surfaces
    known,       \* the lease and revision each client was told of last, be it
                 \* its own or another's
    input,       \* the input commands, in the order of their submission
    upsets       \* what counts for MaxUpsets, so far

controlVars == <<controllers, leases, owners, known, input, upsets>>
allVars == <<accessVars, controlVars>>

\* A lease id stands for the random id and the controllerLeaseEpoch, which
\* counts the leases of a surface.
LeaseId == 1..MaxLeases
Input == 1..MaxInputs
Revision == 1..MaxRevision
Lease == [holder : Client, surface : Surface, rev : Revision,
          state : {"active",
                   "unbound", \* active, its holder's viewer binding gone
                   "over",    \* active, its time over
                   "ended"}]
Handle == [lease : LeaseId, rev : Revision]
Submitted == [by : Client, lease : LeaseId, rev : Revision,
              received : BOOLEAN]

ASSUME AbsenceAssumption ==
    /\ NoView \notin View
    /\ NoLease \notin Lease \cup Handle
    /\ NoInput \notin Submitted

ControlInit ==
    /\ Init
    /\ controllers = Client
    /\ leases = [i \in LeaseId |-> NoLease]
    /\ owners = {}
    /\ known = [c \in Client |-> NoLease]
    /\ input = [k \in Input |-> NoInput]
    /\ upsets = 0

Upset == upsets < MaxUpsets /\ upsets' = upsets + 1

Acquired == {i \in LeaseId : leases[i] # NoLease}
Active == {i \in Acquired : leases[i].state # "ended"}

-------------------------------------------------------------------------------
\* Mutant: the grant is checked when the lease is acquired, and never again.
StandsUngranted(i) ==
    /\ leases[i].state = "active"
    /\ Sees(leases[i].holder)
    /\ leases[i].surface = surface

\* refreshLease: what an active lease has to be to stay so.
Stands(i) ==
    /\ leases[i].state = "active"
    /\ leases[i].holder \in controllers
    /\ Sees(leases[i].holder)
    /\ leases[i].surface = surface

\* Mutant: a lease is reaped when its viewer has gone, and not in time.
OverdueUnbound == {i \in Acquired : leases[i].state = "unbound"}

\* reapExpiredLocked looks for these.
Overdue == {i \in Acquired : leases[i].state = "over"}

\* endLease and removeOwnerLocked.
Ended(S) ==
    [i \in LeaseId |->
        IF i \in S THEN [leases[i] EXCEPT !.state = "ended"] ELSE leases[i]]

EndLeases(S) == leases' = Ended(S) /\ owners' = owners \ S

\* Mutant: the surface's owner is looked up in vain.
NoneInTheWay == {}

\* A lease in force on the surface observed, once the overdue ones are reaped.
InTheWay == {i \in (owners \ Overdue) \cap Active : leases[i].surface = surface}

NextLease(i) ==
    /\ i \notin Acquired
    /\ \A j \in LeaseId : j < i => j \in Acquired

\* acquire.
Acquire(c, received) ==
    /\ c \in controllers
    /\ Sees(c)
    /\ InTheWay = {}
    /\ \E i \in LeaseId :
          /\ NextLease(i)
          /\ leases' = [Ended(Overdue) EXCEPT ![i] =
                [holder |-> c, surface |-> surface, rev |-> 1,
                 state |-> "active"]]
          /\ owners' = {j \in owners \ Overdue : leases[j].surface # surface}
                         \cup {i}
          /\ known' = IF received
                       THEN [known EXCEPT ![c] = [lease |-> i, rev |-> 1]]
                       ELSE known
    /\ UNCHANGED <<accessVars, controllers, input, upsets>>

\* acquire, refused for the lease in force; others were reaped on the way.
RefuseAcquire(c) ==
    /\ c \in controllers
    /\ Sees(c)
    /\ InTheWay # {}
    /\ EndLeases(Overdue)
    /\ UNCHANGED <<accessVars, controllers, known, input, upsets>>

-------------------------------------------------------------------------------
\* Mutant: an ended lease is renewed like any other.
RenewEnded(c, received) ==
    /\ known[c] # NoLease
    /\ LET i == known[c].lease
       IN  /\ c \in controllers
           /\ Sees(c)
           /\ leases[i].holder = c
           /\ leases[i].rev = known[c].rev
           /\ leases[i].rev < MaxRevision
           /\ leases' = [leases EXCEPT ![i].rev = @ + 1, ![i].state = "active"]
    /\ known' = IF received
                 THEN [known EXCEPT ![c].rev = @ + 1] ELSE known
    /\ UNCHANGED <<accessVars, controllers, owners, input, upsets>>

\* renew, with the revision known; the time before renewAfter is left out.
Renew(c, received) ==
    /\ known[c] # NoLease
    /\ LET i == known[c].lease
       IN  /\ i \in Active
           /\ Stands(i)
           /\ leases[i].holder = c
           /\ leases[i].rev = known[c].rev
           /\ leases[i].rev < MaxRevision
           /\ leases' = [leases EXCEPT ![i].rev = @ + 1]
    /\ known' = IF received
                 THEN [known EXCEPT ![c].rev = @ + 1] ELSE known
    /\ UNCHANGED <<accessVars, controllers, owners, input, upsets>>

\* renew, refused for good: the lease has ended, ends as it is looked at, or is
\* another client's, which is looked at all the same.
RefuseRenew(c, received) ==
    /\ known[c] # NoLease
    /\ LET i == known[c].lease
       IN  /\ i \notin Active \/ ~Stands(i) \/ leases[i].holder # c
           /\ EndLeases({j \in {i} \cap Active : ~Stands(j)})
    /\ known' = IF received THEN [known EXCEPT ![c] = NoLease] ELSE known
    /\ UNCHANGED <<accessVars, controllers, input, upsets>>

\* release, by its holder and id, whatever its revision.
Release(c, received) ==
    /\ known[c] # NoLease
    /\ leases[known[c].lease].holder = c
    /\ EndLeases({known[c].lease} \cap Active)
    /\ known' = IF received THEN [known EXCEPT ![c] = NoLease] ELSE known
    /\ UNCHANGED <<accessVars, controllers, input, upsets>>

\* current, asked by client c: what is overdue ends, and the lease entered for
\* the surface of c's binding, if it has one, when it does not stand.
EndedByLook(c) ==
    Overdue \cup
    {i \in owners \cap Active :
        /\ view[c] # NoView
        /\ leases[i].surface = view[c].surface
        /\ ~Stands(i)}

\* The lease current then tells c about, whoever holds it.
InForce(c) == {i \in owners \cap Active : Sees(c) /\ Stands(i)}

\* A client learns so of a lease it never heard it was granted, of another
\* client's, or that there is none.
Look(c, received) ==
    /\ EndLeases(EndedByLook(c))
    /\ \/ /\ received
          /\ \E i \in InForce(c) :
                known' = [known EXCEPT ![c] =
                             [lease |-> i, rev |-> leases[i].rev]]
       \/ /\ received
          /\ InForce(c) = {}
          /\ known' = [known EXCEPT ![c] = NoLease]
       \/ /\ ~received
          /\ UNCHANGED known
    /\ UNCHANGED <<accessVars, controllers, input, upsets>>

-------------------------------------------------------------------------------
\* Mutant: the revision of the lease is not compared.
AuthorityOfLease(c, i, rev) == view[c] # NoView /\ i \in InForce(c)

\* authorityCurrent, for input of client c under revision rev of the lease i: the
\* session and viewer binding are c's, the lease may be anybody's.
AuthorityCurrent(c, i, rev) ==
    /\ view[c] # NoView
    /\ i \in InForce(c)
    /\ leases[i].rev = rev

\* submit, past the HTTP gate, which asks for the sender's osd.control.  A refused
\* one has looked at the leases like Look.
Submit(c, k) ==
    /\ input[k] = NoInput
    /\ \A m \in Input : m < k => input[m] # NoInput
    /\ c \in controllers
    /\ known[c] # NoLease
    /\ AuthorityCurrent(c, known[c].lease, known[c].rev)
    /\ EndLeases(EndedByLook(c))
    /\ input' = [input EXCEPT ![k] =
          [by |-> c, lease |-> known[c].lease, rev |-> known[c].rev,
           received |-> FALSE]]
    /\ UNCHANGED <<accessVars, controllers, known, upsets>>

\* revalidateReceipt: the Agent's receipt of the input is accepted if the lease it
\* names is still what its sender is told is in force, and never if its deadline
\* has passed.  The sender's osd.control is not asked for again.  A refused one
\* has looked, like Look.
Receive(k) ==
    /\ input[k] # NoInput
    /\ ~input[k].received
    /\ AuthorityCurrent(input[k].by, input[k].lease, input[k].rev)
    /\ EndLeases(EndedByLook(input[k].by))
    /\ input' = [input EXCEPT ![k].received = TRUE]
    /\ UNCHANGED <<accessVars, controllers, known, upsets>>

\* The time of the lease i is over.
Lapse(i) ==
    /\ i \in Active \ Overdue
    /\ leases' = [leases EXCEPT ![i].state = "over"]
    /\ UNCHANGED <<accessVars, controllers, owners, known, input, upsets>>

\* An administrator withdraws osd.control, or makes the backend read-only.
RevokeControl(c) ==
    /\ c \in controllers
    /\ Upset
    /\ controllers' = controllers \ {c}
    /\ UNCHANGED <<accessVars, leases, owners, known, input>>

GrantControl(c) ==
    /\ c \notin controllers
    /\ controllers' = controllers \cup {c}
    /\ UNCHANGED <<accessVars, leases, owners, known, input, upsets>>

\* The OSD, its viewers and their grants move on; a lease whose viewer binding
\* goes has lost it for good.
Follow(l) ==
    IF l # NoLease /\ l.state = "active" /\ view'[l.holder] = NoView
      THEN [l EXCEPT !.state = "unbound"] ELSE l

Watch ==
    /\ \/ ObserveSurface /\ Upset
       \/ \E c \in Client :
             \/ (Bind(c) \/ Suspend(c) \/ Grant(c)) /\ UNCHANGED upsets
             \/ (Unbind(c) \/ Revoke(c)) /\ Upset
    /\ leases' = [i \in LeaseId |-> Follow(leases[i])]
    /\ UNCHANGED <<controllers, owners, known, input>>

ControllerStep(c) ==
    \/ \E received \in BOOLEAN :
          \/ Acquire(c, received)
          \/ Renew(c, received)
          \/ RefuseRenew(c, received)
          \/ Release(c, received)
          \/ Look(c, received)
    \/ RefuseAcquire(c)
    \/ \E k \in Input : Submit(c, k)
    \/ RevokeControl(c)
    \/ GrantControl(c)

ControlNext ==
    \/ \E c \in Client : ControllerStep(c)
    \/ \E k \in Input : Receive(k)
    \/ \E i \in LeaseId : Lapse(i)
    \/ Watch

ControlSpec == ControlInit /\ [][ControlNext]_allVars

\* Time passes; nobody has to ask for anything.
FairControlSpec == ControlSpec /\ \A i \in LeaseId : WF_allVars(Lapse(i))

-------------------------------------------------------------------------------
ControlTypeOK ==
    /\ TypeOK
    /\ controllers \subseteq Client
    /\ leases \in [LeaseId -> Lease \cup {NoLease}]
    /\ owners \subseteq LeaseId
    /\ known \in [Client -> Handle \cup {NoLease}]
    /\ input \in [Input -> Submitted \cup {NoInput}]
    /\ upsets \in 0..MaxUpsets
===============================================================================
