--------------------------- MODULE OsdControl_proofs ---------------------------
(***************************************************************************)
(* ControlInv is inductive: leases of one surface follow one another, so   *)
(* there is one controller, and input is fenced.                           *)
(***************************************************************************)
EXTENDS OsdControlInvariant, TLAPS

-------------------------------------------------------------------------------
(* Leases *)

\* What becomes of the leases acquired: they end or are renewed.
LeasesMove ==
    /\ leases' \in [LeaseId -> Lease \cup {NoLease}]
    /\ Acquired' = Acquired
    /\ Active' \subseteq Active
    /\ \A i \in Acquired :
          /\ leases'[i].holder = leases[i].holder
          /\ leases'[i].surface = leases[i].surface
          /\ leases[i].rev <= leases'[i].rev

LEMMA LeaseParts ==
    ASSUME NEW l \in Lease, NEW s \in {"active", "unbound", "over", "ended"}
    PROVE  /\ [l EXCEPT !.state = s] \in Lease
           /\ [l EXCEPT !.state = s].state = s
           /\ [l EXCEPT !.state = s].holder = l.holder
           /\ [l EXCEPT !.state = s].surface = l.surface
           /\ [l EXCEPT !.state = s].rev = l.rev
           /\ l.rev \in Nat
           /\ l # NoLease
           /\ [l EXCEPT !.state = s] # NoLease
<1>1. [l EXCEPT !.state = s] \in Lease
  BY DEF Lease
<1> QED
  BY <1>1, AbsenceAssumption, ControlAssumption
     DEF Lease, Revision, ControlAssumption

\* The same of a lease m that is known to be so.
LEMMA LeaseMoved ==
    ASSUME NEW l \in Lease, NEW s \in {"active", "unbound", "over", "ended"},
           NEW m, m = [l EXCEPT !.state = s]
    PROVE  /\ m \in Lease /\ m # NoLease
           /\ m.state = s
           /\ m.holder = l.holder
           /\ m.surface = l.surface
           /\ m.rev = l.rev
BY LeaseParts

\* Leases S end.
LEMMA EndedParts ==
    ASSUME ControlTypeOK, NEW S, S \subseteq Acquired
    PROVE  /\ Ended(S) \in [LeaseId -> Lease \cup {NoLease}]
           /\ \A i \in Acquired :
                 /\ Ended(S)[i] \in Lease
                 /\ Ended(S)[i].holder = leases[i].holder
                 /\ Ended(S)[i].surface = leases[i].surface
                 /\ Ended(S)[i].rev = leases[i].rev
                 /\ Ended(S)[i].state =
                       IF i \in S THEN "ended" ELSE leases[i].state
           /\ \A i \in LeaseId \ Acquired : Ended(S)[i] = NoLease
<1>1. \A i \in Acquired : leases[i] \in Lease
  BY DEF ControlTypeOK, Acquired
<1>2. \A i \in LeaseId \ Acquired : leases[i] = NoLease
  BY DEF Acquired
<1>3. ASSUME NEW i \in Acquired
      PROVE  /\ Ended(S)[i] \in Lease
             /\ Ended(S)[i].holder = leases[i].holder
             /\ Ended(S)[i].surface = leases[i].surface
             /\ Ended(S)[i].rev = leases[i].rev
             /\ Ended(S)[i].state =
                   IF i \in S THEN "ended" ELSE leases[i].state
  <2> DEFINE l == leases[i]
             m == [l EXCEPT !.state = "ended"]
  <2>1. l \in Lease
    BY <1>1
  <2>2. Ended(S)[i] = IF i \in S THEN m ELSE l
    BY DEF Ended, Acquired
  <2> HIDE DEF l
  <2>3. /\ m \in Lease
        /\ m.holder = l.holder
        /\ m.surface = l.surface
        /\ m.rev = l.rev
        /\ m.state = "ended"
    BY <2>1, LeaseParts
  <2> HIDE DEF m
  <2> QED
    BY <2>1, <2>2, <2>3 DEF l
<1>4. \A i \in LeaseId \ Acquired : Ended(S)[i] = NoLease
  BY <1>2 DEF Ended
<1>5. Ended(S) \in [LeaseId -> Lease \cup {NoLease}]
  <2> DEFINE e == Ended(S)
  <2>1. \A i \in LeaseId : e[i] \in Lease \cup {NoLease}
    BY <1>3, <1>4
  <2>2. e = [i \in LeaseId |-> e[i]]
    BY DEF Ended
  <2> HIDE DEF e
  <2>3. e \in [LeaseId -> Lease \cup {NoLease}]
    BY <2>1, <2>2
  <2> QED
    BY <2>3 DEF e
<1> QED
  BY <1>3, <1>4, <1>5

LEMMA LeaseTyped ==
    ASSUME ControlTypeOK, NEW i \in Acquired
    PROVE  leases[i] \in Lease /\ leases[i].rev \in Nat
<1>1. leases[i] \in Lease
  BY DEF ControlTypeOK, Acquired
<1> QED
  BY <1>1 DEF Lease, Revision

LEMMA EndingMoves ==
    ASSUME ControlTypeOK, OwnersActive, NEW S, S \subseteq Acquired, EndLeases(S)
    PROVE  LeasesMove /\ owners' = Active'
<1>1. leases' = Ended(S) /\ owners' = owners \ S
  BY DEF EndLeases
<1>2. Acquired' = Acquired
  <2>1. \A i \in Acquired : leases'[i] # NoLease
    BY <1>1, EndedParts, AbsenceAssumption
  <2>2. \A i \in LeaseId \ Acquired : leases'[i] = NoLease
    BY <1>1, EndedParts
  <2> QED
    BY <2>1, <2>2 DEF Acquired
<1>3. Active' = Active \ S
  BY <1>1, <1>2, EndedParts DEF Active
<1>4. \A i \in Acquired : leases[i].rev \in Nat
  BY LeaseTyped
<1>5. LeasesMove
  BY <1>1, <1>2, <1>3, <1>4, EndedParts DEF LeasesMove
<1> QED
  BY <1>1, <1>3, <1>5 DEF OwnersActive

LEMMA OverdueAcquired == Overdue \subseteq Acquired
BY DEF Overdue

LEMMA LookedAcquired ==
    ASSUME NEW c PROVE EndedByLook(c) \subseteq Acquired
BY DEF EndedByLook, Overdue, Active

LEMMA HandleTyped ==
    ASSUME ControlTypeOK, NEW c \in Client, known[c] # NoLease
    PROVE  known[c] \in Handle /\ known[c].rev \in Nat
BY ControlAssumption DEF ControlTypeOK, Handle, Revision, ControlAssumption

LEMMA SubmittedTyped ==
    ASSUME ControlTypeOK, NEW k \in Input, input[k] # NoInput
    PROVE  input[k] \in Submitted /\ input[k].rev \in Nat
BY ControlAssumption DEF ControlTypeOK, Submitted, Revision, ControlAssumption

\* h names a lease, and no revision to come.
Handled(h) ==
    /\ h.lease \in Acquired
    /\ h.rev <= leases[h.lease].rev

\* Whatever becomes of the leases, the rest of the invariant follows.
LEMMA MovesKeep ==
    ASSUME ControlInv, ControlTypeOK', LeasesMove, owners' = Active',
           \A c \in Client :
              \/ known'[c] \in {known[c], NoLease}
              \/ Handled(known[c])' ,
           \A k \in Input :
              \/ input'[k] = input[k]
              \/ Handled(input[k])'
    PROVE  ControlInv'
<1> USE DEF ControlInv
<1>1. OwnersActive'
  BY DEF OwnersActive
<1>2. Superseded'
  <2> SUFFICES ASSUME NEW i \in Acquired', NEW j \in Acquired', i < j,
                      SameSurface(i, j)'
               PROVE  i \notin Active'
    BY DEF Superseded
  <2>1. SameSurface(i, j)
    BY DEF LeasesMove, SameSurface
  <2> QED
    BY <2>1 DEF LeasesMove, Superseded
<1>3. Dense'
  BY DEF Dense, LeasesMove
<1>4. ASSUME NEW h, Handled(h), h.rev \in Nat
      PROVE  Handled(h)'
  <2>1. leases[h.lease].rev \in Nat
    BY <1>4, LeaseTyped DEF Handled
  <2>2. leases'[h.lease].rev \in Nat
    <3>1. h.lease \in Acquired'
      BY <1>4 DEF Handled, LeasesMove
    <3>2. h.lease \in LeaseId /\ leases'[h.lease] # NoLease
      BY <3>1 DEF Acquired
    <3>3. leases'[h.lease] \in Lease
      BY <3>2 DEF LeasesMove
    <3> QED
      BY <3>3, LeaseParts
  <2> QED
    BY <1>4, <2>1, <2>2 DEF Handled, LeasesMove
<1>5. ASSUME NEW c \in Client, known'[c] # NoLease
      PROVE  Handled(known[c])'
  <2>1. CASE known'[c] = known[c]
    <3>1. Handled(known'[c]) /\ known'[c].rev \in Nat
      BY <1>5, <2>1, HandleTyped DEF KnownMade, Handled
    <3> QED
      BY <1>4, <3>1 DEF Handled
  <2> QED
    BY <1>5, <2>1
<1>6. ASSUME NEW k \in Input, input'[k] # NoInput
      PROVE  Handled(input[k])'
  <2>1. CASE input'[k] = input[k]
    <3>1. Handled(input'[k]) /\ input'[k].rev \in Nat
      BY <1>6, <2>1, SubmittedTyped DEF InputMade, Handled
    <3> QED
      BY <1>4, <3>1 DEF Handled
  <2> QED
    BY <1>6, <2>1
<1> QED
  BY <1>1, <1>2, <1>3, <1>5, <1>6 DEF KnownMade, InputMade, Handled

-------------------------------------------------------------------------------
(* The steps *)

LEMMA AcquireKeeps ==
    ASSUME ControlInv, NEW c \in Client, NEW received \in BOOLEAN,
           Acquire(c, received)
    PROVE  ControlInv'
<1> USE DEF ControlInv
<1>1. PICK i \in LeaseId :
         /\ NextLease(i)
         /\ leases' = [Ended(Overdue) EXCEPT ![i] =
               [holder |-> c, surface |-> surface, rev |-> 1,
                state |-> "active"]]
         /\ owners' = {j \in owners \ Overdue : leases[j].surface # surface}
                        \cup {i}
         /\ known' = IF received
                      THEN [known EXCEPT ![c] = [lease |-> i, rev |-> 1]]
                      ELSE known
  BY DEF Acquire
<1>2. UNCHANGED <<accessVars, controllers, input, upsets>> /\ InTheWay = {}
  BY DEF Acquire
<1> DEFINE new == [holder |-> c, surface |-> surface, rev |-> 1,
                   state |-> "active"]
           ended == Ended(Overdue)
<1>3. /\ 1 \in Revision
      /\ i \notin Acquired
      /\ i \in Nat
  BY <1>1, ControlAssumption DEF Revision, NextLease, LeaseId, ControlAssumption
<1>4. /\ new \in Lease
      /\ new # NoLease
      /\ [lease |-> i, rev |-> 1] \in Handle
  <2>1. surface \in Surface
    BY DEF Acquire, Sees, ControlTypeOK, TypeOK
  <2>2. new \in Lease
    BY <1>3, <2>1 DEF Lease
  <2> QED
    BY <1>1, <1>3, <2>2, AbsenceAssumption DEF Handle
<1>5. /\ ended \in [LeaseId -> Lease \cup {NoLease}]
      /\ \A j \in Acquired :
            /\ ended[j] \in Lease
            /\ ended[j].holder = leases[j].holder
            /\ ended[j].surface = leases[j].surface
            /\ ended[j].rev = leases[j].rev
            /\ ended[j].state =
                  IF j \in Overdue THEN "ended" ELSE leases[j].state
      /\ \A j \in LeaseId \ Acquired : ended[j] = NoLease
  BY OverdueAcquired, EndedParts
<1>6. new.holder = c /\ new.surface = surface /\ new.rev = 1
      /\ new.state = "active"
  OBVIOUS
<1> HIDE DEF new, ended
<1>7. leases' = [ended EXCEPT ![i] = new]
  BY <1>1 DEF new, ended
<1>8. /\ leases'[i] = new
      /\ \A j \in LeaseId \ {i} : leases'[j] = ended[j]
      /\ leases' \in [LeaseId -> Lease \cup {NoLease}]
  BY <1>4, <1>5, <1>7
<1>9. Acquired' = Acquired \cup {i}
  <2>1. \A j \in Acquired : ended[j] # NoLease
    BY <1>5, AbsenceAssumption
  <2>2. ASSUME NEW j \in LeaseId
        PROVE  leases'[j] # NoLease <=> j \in Acquired \/ j = i
    BY <1>4, <1>5, <1>8, <2>1
  <2> QED
    BY <2>2 DEF Acquired
<1>10. Active' = (Active \ Overdue) \cup {i}
  <2>1. ASSUME NEW j \in Acquired
        PROVE  leases'[j].state # "ended" <=> j \in Active \ Overdue
    <3>1. leases'[j] = ended[j]
      BY <1>3, <1>8 DEF Acquired
    <3> QED
      BY <1>5, <3>1 DEF Active
  <2>2. leases'[i].state # "ended"
    BY <1>6, <1>8
  <2> QED
    BY <1>9, <2>1, <2>2 DEF Active
<1>11. \A j \in Active \ Overdue : leases[j].surface # surface
  BY <1>2 DEF OwnersActive, InTheWay
<1>12. owners' = Active'
  BY <1>1, <1>10, <1>11 DEF OwnersActive
<1>13. ControlTypeOK'
  BY <1>1, <1>2, <1>4, <1>8, <1>9, <1>10, <1>12
     DEF ControlTypeOK, TypeOK, accessVars, Acquired, Active
<1>14. Superseded'
  <2> SUFFICES ASSUME NEW a \in Acquired', NEW b \in Acquired', a < b,
                      SameSurface(a, b)'
               PROVE  a \notin Active'
    BY DEF Superseded
  <2>1. CASE a = i
    BY <1>1, <1>3, <1>9, <2>1 DEF Dense, NextLease, Acquired, LeaseId
  <2>2. CASE a # i /\ b = i
    <3>1. leases[a].surface = surface
      BY <1>5, <1>6, <1>8, <1>9, <2>2 DEF SameSurface, Acquired
    <3> QED
      BY <1>10, <1>11, <2>2, <3>1
  <2>3. CASE a # i /\ b # i
    <3>1. SameSurface(a, b)
      BY <1>5, <1>8, <1>9, <2>3 DEF SameSurface, Acquired
    <3> QED
      BY <1>9, <1>10, <2>3, <3>1 DEF Superseded
  <2> QED
    BY <2>1, <2>2, <2>3
<1>15. Dense'
  BY <1>1, <1>9 DEF Dense, NextLease
<1>16. \A j \in Acquired : /\ leases'[j].holder = leases[j].holder
                           /\ leases'[j].rev = leases[j].rev
  BY <1>3, <1>5, <1>8 DEF Acquired
<1>17. KnownMade'
  <2> SUFFICES ASSUME NEW d \in Client, known'[d] # NoLease
               PROVE  Handled(known[d])'
    BY DEF KnownMade, Handled
  <2>1. CASE known'[d] = known[d]
    BY <1>9, <1>16, <2>1 DEF KnownMade, Handled
  <2>2. CASE known'[d] # known[d]
    <3>1. d = c /\ known'[d] = [lease |-> i, rev |-> 1]
      BY <1>1, <2>2 DEF ControlTypeOK
    <3>2. known'[d].lease = i /\ known'[d].rev = 1
      BY <3>1
    <3> QED
      BY <1>6, <1>8, <1>9, <3>1, <3>2 DEF Handled
  <2> QED
    BY <2>1, <2>2
<1>18. InputMade'
  BY <1>2, <1>9, <1>16 DEF InputMade
<1> QED
  BY <1>12, <1>13, <1>14, <1>15, <1>17, <1>18 DEF OwnersActive

\* A step that ends leases S and has a client know of leases only.
LEMMA EndingKeeps ==
    ASSUME ControlInv, NEW S, S \subseteq Acquired, EndLeases(S),
           UNCHANGED <<accessVars, controllers, upsets>>,
           known' \in [Client -> Handle \cup {NoLease}],
           \A c \in Client :
              \/ known'[c] \in {known[c], NoLease}
              \/ Handled(known[c])',
           input' \in [Input -> Submitted \cup {NoInput}],
           \A k \in Input :
              \/ input'[k] = input[k]
              \/ Handled(input[k])'
    PROVE  ControlInv'
<1>1. LeasesMove /\ owners' = Active'
  BY EndingMoves DEF ControlInv
<1>2. ControlTypeOK'
  <2>1. owners' \subseteq LeaseId
    BY <1>1 DEF Active, Acquired
  <2> QED
    BY <1>1, <2>1 DEF ControlInv, ControlTypeOK, TypeOK, accessVars, LeasesMove
<1> QED
  BY <1>1, <1>2, MovesKeep

\* A lease at its revision, as leases end.
LEMMA HandledStays ==
    ASSUME ControlInv, NEW S, S \subseteq Acquired, EndLeases(S),
           NEW i \in Acquired, NEW h, h.lease = i, h.rev = leases[i].rev
    PROVE  /\ i \in Acquired'
           /\ h.rev <= leases'[i].rev
<1>1. LeasesMove
  BY EndingMoves DEF ControlInv
<1>2. leases'[i].rev = leases[i].rev /\ leases[i].rev \in Nat
  BY EndedParts, LeaseTyped DEF EndLeases, ControlInv
<1> QED
  BY <1>1, <1>2 DEF LeasesMove

LEMMA LookKeeps ==
    ASSUME ControlInv, NEW c \in Client, NEW received \in BOOLEAN,
           Look(c, received)
    PROVE  ControlInv'
<1> DEFINE S == EndedByLook(c)
<1>1. S \subseteq Acquired /\ EndLeases(S)
  BY LookedAcquired DEF Look
<1>2. UNCHANGED <<accessVars, controllers, input, upsets>>
  BY DEF Look
<1> HIDE DEF S
<1>3. CASE \E i \in InForce(c) :
              known' = [known EXCEPT ![c] = [lease |-> i, rev |-> leases[i].rev]]
  <2>1. PICK i \in InForce(c) :
           known' = [known EXCEPT ![c] = [lease |-> i, rev |-> leases[i].rev]]
    BY <1>3
  <2>2. i \in Acquired
    BY DEF InForce, Active
  <2> DEFINE h == [lease |-> i, rev |-> leases[i].rev]
  <2>3. h \in Handle /\ h.lease = i /\ h.rev = leases[i].rev
    BY <2>2, LeaseTyped DEF ControlInv, Handle, Acquired, Lease
  <2> HIDE DEF h
  <2>4. known' = [known EXCEPT ![c] = h]
    BY <2>1 DEF h
  <2>5. known' \in [Client -> Handle \cup {NoLease}]
    BY <2>3, <2>4 DEF ControlInv, ControlTypeOK
  <2>6. \A d \in Client : known'[d] = IF d = c THEN h ELSE known[d]
    BY <2>4 DEF ControlInv, ControlTypeOK
  <2>7. Handled(known[c])'
    BY <1>1, <2>2, <2>3, <2>6, HandledStays DEF Handled
  <2>8. \A d \in Client : \/ known'[d] \in {known[d], NoLease}
                          \/ Handled(known[d])'
    BY <2>6, <2>7
  <2> QED
    BY <1>1, <1>2, <2>5, <2>8, EndingKeeps DEF ControlInv, ControlTypeOK
<1>4. CASE known' \in {known, [known EXCEPT ![c] = NoLease]}
  BY <1>1, <1>2, <1>4, EndingKeeps DEF ControlInv, ControlTypeOK
<1> QED
  BY <1>3, <1>4 DEF Look

LEMMA SubmitKeeps ==
    ASSUME ControlInv, NEW c \in Client, NEW k \in Input, Submit(c, k)
    PROVE  ControlInv'
<1> DEFINE S == EndedByLook(c)
           i == known[c].lease
           x == [by |-> c, lease |-> i, rev |-> known[c].rev, received |-> FALSE]
<1>1. S \subseteq Acquired /\ EndLeases(S)
  BY LookedAcquired DEF Submit
<1>2. UNCHANGED <<accessVars, controllers, known, upsets>>
  BY DEF Submit
<1>3. known[c] # NoLease /\ i \in Acquired
  BY DEF Submit, ControlInv, KnownMade
<1>4. known[c].rev = leases[i].rev
  BY DEF Submit, AuthorityCurrent
<1>5. known[c] \in Handle
  BY <1>3, HandleTyped DEF ControlInv
<1>6. x \in Submitted
  BY <1>5 DEF Handle, Submitted
<1>7. x.by = c /\ x.lease = i /\ x.rev = leases[i].rev
  BY <1>4
<1>8. input' = [input EXCEPT ![k] = x]
  BY DEF Submit
<1> HIDE DEF S, x, i
<1>9. input' \in [Input -> Submitted \cup {NoInput}]
  BY <1>6, <1>8 DEF ControlInv, ControlTypeOK
<1>10. \A m \in Input : input'[m] = IF m = k THEN x ELSE input[m]
  BY <1>8 DEF ControlInv, ControlTypeOK
<1>11. Handled(input[k])'
  BY <1>1, <1>3, <1>7, <1>10, HandledStays DEF Handled
<1>12. \A m \in Input : \/ input'[m] = input[m]
                         \/ Handled(input[m])'
  BY <1>10, <1>11
<1> QED
  BY <1>1, <1>2, <1>9, <1>12, EndingKeeps DEF ControlInv, ControlTypeOK

LEMMA ReceiveKeeps ==
    ASSUME ControlInv, NEW k \in Input, Receive(k)
    PROVE  ControlInv'
<1> DEFINE S == EndedByLook(input[k].by)
           i == input[k].lease
           x == [input[k] EXCEPT !.received = TRUE]
<1>1. S \subseteq Acquired /\ EndLeases(S)
  BY LookedAcquired DEF Receive
<1>2. UNCHANGED <<accessVars, controllers, known, upsets>>
  BY DEF Receive
<1>3. input[k] # NoInput /\ i \in Acquired
  BY DEF Receive, ControlInv, InputMade
<1>4. input[k].rev = leases[i].rev
  BY DEF Receive, AuthorityCurrent
<1>5. input[k] \in Submitted
  BY <1>3, SubmittedTyped DEF ControlInv
<1>6. /\ x \in Submitted
      /\ x.by = input[k].by
      /\ x.lease = i
      /\ x.rev = leases[i].rev
  BY <1>4, <1>5 DEF Submitted
<1>7. input' = [input EXCEPT ![k] = x]
  BY DEF Receive
<1> HIDE DEF S, x, i
<1>8. input' \in [Input -> Submitted \cup {NoInput}]
  BY <1>6, <1>7 DEF ControlInv, ControlTypeOK
<1>9. \A m \in Input : input'[m] = IF m = k THEN x ELSE input[m]
  BY <1>7 DEF ControlInv, ControlTypeOK
<1>10. Handled(input[k])'
  BY <1>1, <1>3, <1>6, <1>9, HandledStays DEF Handled
<1>11. \A m \in Input : \/ input'[m] = input[m]
                         \/ Handled(input[m])'
  BY <1>9, <1>10
<1> QED
  BY <1>1, <1>2, <1>8, <1>11, EndingKeeps DEF ControlInv, ControlTypeOK

\* A lease that is released, or is found ended.
LEMMA RefusalKeeps ==
    ASSUME ControlInv, NEW c \in Client, NEW received \in BOOLEAN,
           \/ RefuseAcquire(c)
           \/ RefuseRenew(c, received)
           \/ Release(c, received)
    PROVE  ControlInv'
<1>1. PICK S : S \subseteq Acquired /\ EndLeases(S)
  <2>1. CASE RefuseAcquire(c)
    BY <2>1, OverdueAcquired DEF RefuseAcquire
  <2>2. CASE RefuseRenew(c, received)
    <3> DEFINE S == {j \in {known[c].lease} \cap Active : ~Stands(j)}
    <3>1. EndLeases(S)
      BY <2>2 DEF RefuseRenew
    <3>2. S \subseteq Acquired
      BY DEF Active
    <3> QED
      BY <3>1, <3>2
  <2>3. CASE Release(c, received)
    <3>1. {known[c].lease} \cap Active \subseteq Acquired
      BY DEF Active
    <3> QED
      BY <2>3, <3>1 DEF Release
  <2> QED
    BY <2>1, <2>2, <2>3
<1>2. UNCHANGED <<accessVars, controllers, input, upsets>>
  BY DEF RefuseAcquire, RefuseRenew, Release
<1>3. known' \in {known, [known EXCEPT ![c] = NoLease]}
  BY DEF RefuseAcquire, RefuseRenew, Release
<1> QED
  BY <1>1, <1>2, <1>3, EndingKeeps DEF ControlInv, ControlTypeOK

LEMMA RenewKeeps ==
    ASSUME ControlInv, NEW c \in Client, NEW received \in BOOLEAN,
           Renew(c, received)
    PROVE  ControlInv'
<1> DEFINE i == known[c].lease
           l == leases[i]
           m == [l EXCEPT !.rev = @ + 1]
<1>1. /\ known[c] # NoLease
      /\ i \in Active
      /\ i \in Acquired
      /\ l.rev = known[c].rev
      /\ l.rev < MaxRevision
      /\ leases' = [leases EXCEPT ![i] = m]
  BY DEF Renew, Active
<1>2. UNCHANGED <<accessVars, controllers, owners, input, upsets>>
  BY DEF Renew
<1>3. l \in Lease /\ l.rev \in Nat /\ l.holder = c
  BY <1>1, LeaseTyped DEF ControlInv, Renew
<1>4. l.rev + 1 \in Revision
  BY <1>1, <1>3, ControlAssumption DEF Revision, Lease, ControlAssumption
<1>5. /\ m \in Lease
      /\ m.holder = l.holder
      /\ m.surface = l.surface
      /\ m.state = l.state
      /\ m.rev = l.rev + 1
      /\ m # NoLease
  <2>1. m \in Lease
    BY <1>3, <1>4 DEF Lease
  <2> QED
    BY <1>3, <2>1, AbsenceAssumption DEF Lease
<1> DEFINE h == [known[c] EXCEPT !.rev = @ + 1]
<1>6. /\ known[c] \in Handle
      /\ h \in Handle
      /\ h.lease = i
      /\ h.rev = l.rev + 1
  <2>1. known[c] \in Handle
    BY <1>1, HandleTyped DEF ControlInv
  <2> QED
    BY <1>1, <1>4, <2>1 DEF Handle
<1>7. known' \in {known, [known EXCEPT ![c] = h]}
  BY DEF Renew
<1> HIDE DEF m, h, l
<1>8. \A j \in LeaseId : leases'[j] = IF j = i THEN m ELSE leases[j]
  BY <1>1 DEF ControlInv, ControlTypeOK
<1>9. Acquired' = Acquired
  BY <1>1, <1>5, <1>8 DEF Acquired
<1>10. Active' = Active
  BY <1>1, <1>5, <1>8, <1>9 DEF Active, Acquired, l
<1>11. leases' \in [LeaseId -> Lease \cup {NoLease}]
  BY <1>1, <1>5 DEF ControlInv, ControlTypeOK
<1>12. LeasesMove
  <2>1. ASSUME NEW j \in Acquired
        PROVE  /\ leases'[j].holder = leases[j].holder
               /\ leases'[j].surface = leases[j].surface
               /\ leases[j].rev <= leases'[j].rev
    <3>1. leases[j].rev \in Nat
      BY LeaseTyped DEF ControlInv
    <3> QED
      BY <1>3, <1>5, <1>8, <3>1 DEF l, Acquired
  <2> QED
    BY <1>9, <1>10, <1>11, <2>1 DEF LeasesMove
<1>13. owners' = Active'
  BY <1>2, <1>10 DEF ControlInv, OwnersActive
<1>14. known' \in [Client -> Handle \cup {NoLease}]
  BY <1>6, <1>7 DEF ControlInv, ControlTypeOK
<1>15. ControlTypeOK'
  BY <1>2, <1>11, <1>14 DEF ControlInv, ControlTypeOK, TypeOK, accessVars
<1>16. \A d \in Client : \/ known'[d] = known[d]
                         \/ d = c /\ known'[c] = h
  <2>1. CASE known' = known
    BY <2>1
  <2>2. CASE known' = [known EXCEPT ![c] = h]
    BY <2>2 DEF ControlInv, ControlTypeOK
  <2> QED
    BY <1>7, <2>1, <2>2
<1>17. ASSUME known'[c] = h PROVE Handled(known[c])'
  <2>1. leases'[i] = m /\ i \in Acquired'
    BY <1>1, <1>8, <1>9 DEF Acquired
  <2>2. h.rev <= m.rev
    BY <1>3, <1>5, <1>6
  <2> QED
    BY <1>3, <1>5, <1>6, <1>17, <2>1, <2>2 DEF Handled
<1> QED
  BY <1>2, <1>12, <1>13, <1>15, <1>16, <1>17, MovesKeep

\* Neither time nor a viewer that goes ends a lease by itself.
LEMMA DriftKeeps ==
    ASSUME ControlInv, TypeOK', controllers' \subseteq Client,
           upsets' \in 0..MaxUpsets, UNCHANGED <<owners, known, input>>,
           \A i \in LeaseId :
              \/ leases'[i] = leases[i]
              \/ /\ i \in Active
                 /\ \E s \in {"unbound", "over"} :
                       leases'[i] = [leases[i] EXCEPT !.state = s],
           DOMAIN leases' = LeaseId,
           leases' = [i \in LeaseId |-> leases'[i]]
    PROVE  ControlInv'
<1>1. ASSUME NEW i \in Acquired
      PROVE  /\ leases'[i] \in Lease
             /\ leases'[i] # NoLease
             /\ leases'[i].holder = leases[i].holder
             /\ leases'[i].surface = leases[i].surface
             /\ leases'[i].rev = leases[i].rev
             /\ leases'[i].state = "ended" <=> leases[i].state = "ended"
  <2>1. leases[i] \in Lease
    BY LeaseTyped DEF ControlInv
  <2>2. CASE leases'[i] = leases[i]
    BY <2>1, <2>2, AbsenceAssumption
  <2>3. ASSUME NEW s \in {"unbound", "over"}, i \in Active,
               leases'[i] = [leases[i] EXCEPT !.state = s]
        PROVE  /\ leases'[i] \in Lease
               /\ leases'[i] # NoLease
               /\ leases'[i].holder = leases[i].holder
               /\ leases'[i].surface = leases[i].surface
               /\ leases'[i].rev = leases[i].rev
               /\ leases'[i].state = s
               /\ leases[i].state # "ended"
    <3>1. leases[i].state # "ended"
      BY <2>3 DEF Active
    <3>2. leases[i] \in Lease /\ s \in {"active", "unbound", "over", "ended"}
      BY <2>1
    <3> QED
      BY <2>3, <3>1, <3>2, LeaseMoved
  <2> QED
    BY <2>2, <2>3 DEF Acquired
<1>2. \A i \in LeaseId \ Acquired : leases'[i] = NoLease
  BY DEF Active, Acquired
<1>3. Acquired' = Acquired
  BY <1>1, <1>2 DEF Acquired
<1>4. Active' = Active
  BY <1>1, <1>3 DEF Active
<1>5. leases' \in [LeaseId -> Lease \cup {NoLease}]
  BY <1>1, <1>2
<1>6. LeasesMove
  BY <1>1, <1>3, <1>4, <1>5, LeaseTyped DEF LeasesMove, ControlInv
<1>7. owners' = Active'
  BY <1>4 DEF ControlInv, OwnersActive
<1>8. ControlTypeOK'
  BY <1>5 DEF ControlInv, ControlTypeOK
<1> QED
  BY <1>6, <1>7, <1>8, MovesKeep

LEMMA LapseKeeps ==
    ASSUME ControlInv, NEW i \in LeaseId, Lapse(i)
    PROVE  ControlInv'
<1>1. /\ i \in Active
      /\ leases' = [leases EXCEPT ![i] = [leases[i] EXCEPT !.state = "over"]]
      /\ UNCHANGED <<accessVars, controllers, owners, known, input, upsets>>
  BY DEF Lapse
<1> DEFINE m == [leases[i] EXCEPT !.state = "over"]
<1>2. \A j \in LeaseId : leases'[j] = IF j = i THEN m ELSE leases[j]
  <2> HIDE DEF m
  <2> QED
    BY <1>1 DEF m, ControlInv, ControlTypeOK
<1>3. leases' = [j \in LeaseId |-> leases'[j]] /\ DOMAIN leases' = LeaseId
  BY <1>1 DEF ControlInv, ControlTypeOK
<1>4. TypeOK' /\ controllers' \subseteq Client /\ upsets' \in 0..MaxUpsets
  BY <1>1 DEF ControlInv, ControlTypeOK, TypeOK, accessVars
<1> QED
  BY <1>1, <1>2, <1>3, <1>4, DriftKeeps

LEMMA UpsetTyped ==
    ASSUME ControlTypeOK, Upset \/ UNCHANGED upsets
    PROVE  upsets' \in 0..MaxUpsets
BY ControlAssumption DEF Upset, ControlTypeOK, ControlAssumption

LEMMA GrantsKeep ==
    ASSUME ControlInv, NEW c \in Client, RevokeControl(c) \/ GrantControl(c)
    PROVE  ControlInv'
<1>1. /\ controllers' \subseteq Client
      /\ UNCHANGED <<accessVars, leases, owners, known, input>>
  BY DEF RevokeControl, GrantControl, ControlInv, ControlTypeOK
<1>2. upsets' \in 0..MaxUpsets
  BY UpsetTyped DEF RevokeControl, GrantControl, ControlInv
<1>3. TypeOK'
  BY <1>1 DEF ControlInv, ControlTypeOK, TypeOK, accessVars
<1>4. leases' = [j \in LeaseId |-> leases'[j]] /\ DOMAIN leases' = LeaseId
  BY <1>1 DEF ControlInv, ControlTypeOK
<1> QED
  BY <1>1, <1>2, <1>3, <1>4, DriftKeeps

\* What viewing does keeps its types.
LEMMA AccessTyped ==
    ASSUME TypeOK, Next
    PROVE  TypeOK'
<1> USE DEF TypeOK
<1>1. CASE ObserveSurface
  BY <1>1 DEF ObserveSurface
<1>2. ASSUME NEW c \in Client,
             Bind(c) \/ Suspend(c) \/ Unbind(c) \/ Revoke(c) \/ Grant(c)
      PROVE  TypeOK'
  <2>1. CASE Bind(c)
    <3>1. [surface |-> surface, usable |-> TRUE] \in View
      BY <2>1 DEF Bind, View
    <3> QED
      BY <2>1, <3>1 DEF Bind
  <2>2. CASE Suspend(c)
    <3>1. view[c] \in View
      BY <2>2 DEF Suspend
    <3>2. [view[c] EXCEPT !.usable = FALSE] \in View
      BY <3>1 DEF View
    <3> QED
      BY <2>2, <3>2 DEF Suspend
  <2>3. CASE Unbind(c)
    BY <2>3 DEF Unbind
  <2>4. CASE Revoke(c) \/ Grant(c)
    BY <2>4 DEF Revoke, Grant
  <2> QED
    BY <1>2, <2>1, <2>2, <2>3, <2>4
<1> QED
  BY <1>1, <1>2 DEF Next

LEMMA WatchKeeps ==
    ASSUME ControlInv, Watch
    PROVE  ControlInv'
<1>1. Next /\ (Upset \/ UNCHANGED upsets)
  BY DEF Watch, Next
<1>2. TypeOK' /\ upsets' \in 0..MaxUpsets
  BY <1>1, AccessTyped, UpsetTyped DEF ControlInv, ControlTypeOK
<1>3. leases' = [i \in LeaseId |-> Follow(leases[i])]
  BY DEF Watch
<1>4. ASSUME NEW i \in LeaseId
      PROVE  \/ leases'[i] = leases[i]
             \/ /\ i \in Active
                /\ leases'[i] = [leases[i] EXCEPT !.state = "unbound"]
  <2>1. leases'[i] = Follow(leases[i])
    BY <1>3
  <2> QED
    BY <2>1 DEF Follow, Active, Acquired
<1>5. leases' = [i \in LeaseId |-> leases'[i]] /\ DOMAIN leases' = LeaseId
  BY <1>3
<1>6. controllers' \subseteq Client /\ UNCHANGED <<owners, known, input>>
  BY DEF Watch, ControlInv, ControlTypeOK
<1> QED
  BY <1>2, <1>4, <1>5, <1>6, DriftKeeps

-------------------------------------------------------------------------------
(* The theorems *)

LEMMA Starts == ControlInit => ControlInv
<1> SUFFICES ASSUME ControlInit PROVE ControlInv
  OBVIOUS
<1>1. /\ Acquired = {}
      /\ Active = {}
      /\ owners = {}
      /\ \A c \in Client : known[c] = NoLease
      /\ \A k \in Input : input[k] = NoInput
  BY DEF ControlInit, Acquired, Active
<1>2. ControlTypeOK
  <2>1. 0 \in 0..MaxUpsets
    BY ControlAssumption DEF ControlAssumption
  <2> QED
    BY <2>1 DEF ControlInit, Init, ControlTypeOK, TypeOK
<1> QED
  BY <1>1, <1>2 DEF ControlInv, OwnersActive, Superseded, Dense, KnownMade, InputMade

LEMMA Inductive == ControlInv /\ [ControlNext]_allVars => ControlInv'
<1> SUFFICES ASSUME ControlInv, [ControlNext]_allVars PROVE ControlInv'
  OBVIOUS
<1>1. ASSUME NEW c \in Client, ControllerStep(c) PROVE ControlInv'
  BY <1>1, AcquireKeeps, RenewKeeps, RefusalKeeps, LookKeeps, SubmitKeeps,
     GrantsKeep DEF ControllerStep
<1>2. ASSUME NEW k \in Input, Receive(k) PROVE ControlInv'
  BY <1>2, ReceiveKeeps
<1>3. ASSUME NEW i \in LeaseId, Lapse(i) PROVE ControlInv'
  BY <1>3, LapseKeeps
<1>4. CASE Watch
  BY <1>4, WatchKeeps
<1>5. CASE UNCHANGED allVars
  BY <1>5 DEF allVars, accessVars, controlVars, ControlInv, ControlTypeOK, TypeOK,
              OwnersActive, Superseded, Dense, KnownMade, InputMade, Acquired,
              Active, SameSurface
<1> QED
  BY <1>1, <1>2, <1>3, <1>4, <1>5 DEF ControlNext

\* What control of the OSD rests on holds in every reachable state, for any
\* number of clients, surfaces, leases, inputs and grants withdrawn.
THEOREM ControlInvHolds == ControlSpec => []ControlInv
BY Starts, Inductive, PTL DEF ControlSpec

LEMMA SurfaceExclusive == ControlInv => OneController
<1> SUFFICES ASSUME ControlInv, NEW i \in Active, NEW j \in Active,
                    SameSurface(i, j), i # j
             PROVE  FALSE
  BY DEF OneController
<1>1. /\ i \in Acquired /\ j \in Acquired
      /\ i \in Nat /\ j \in Nat
  BY ControlAssumption DEF Active, Acquired, LeaseId, ControlAssumption
<1>2. i < j \/ j < i
  BY <1>1
<1>3. SameSurface(j, i)
  BY DEF SameSurface
<1> QED
  BY <1>1, <1>2, <1>3 DEF ControlInv, Superseded

\* No surface ever has two controllers.
THEOREM ControllerExclusive == ControlSpec => []OneController
BY SurfaceExclusive, ControlInvHolds, PTL

\* Input that is received in a step is received by Receive.
LEMMA AcceptedReceives ==
    ASSUME ControlInv, [ControlNext]_allVars, NEW k \in Input, Accepted(k)
    PROVE  Receive(k)
<1>1. input' # input
  BY DEF Accepted, Received
<1>2. ASSUME NEW c \in Client, NEW m \in Input, Submit(c, m) PROVE FALSE
  <2> DEFINE x == [by |-> c, lease |-> known[c].lease, rev |-> known[c].rev,
                   received |-> FALSE]
  <2>1. input'[k] = IF k = m THEN x ELSE input[k]
    BY <1>2 DEF Submit, ControlInv, ControlTypeOK
  <2>2. ~x.received
    OBVIOUS
  <2> HIDE DEF x
  <2> QED
    BY <2>1, <2>2 DEF Accepted, Received
<1>3. ASSUME NEW m \in Input, Receive(m) PROVE m = k
  <2>1. m # k => input'[k] = input[k]
    BY <1>3 DEF Receive, ControlInv, ControlTypeOK
  <2> QED
    BY <2>1 DEF Accepted, Received
<1>4. \/ \E c \in Client, m \in Input : Submit(c, m)
      \/ \E m \in Input : Receive(m)
  BY <1>1 DEF ControlNext, ControllerStep, Acquire, RefuseAcquire, Renew,
              RefuseRenew, Release, Look, RevokeControl, GrantControl, Lapse,
              Watch, allVars, controlVars
<1> QED
  BY <1>2, <1>3, <1>4

\* Input of an earlier controller or revision is never received late.
THEOREM FencesInput == ControlSpec => InputFenced
<1>1. ControlInv /\ [ControlNext]_allVars => FencedStep
  <2> SUFFICES ASSUME ControlInv, [ControlNext]_allVars,
                      NEW k \in Input, NEW m \in Input,
                      Accepted(k), Received(m),
                      SameSurface(input[m].lease, input[k].lease)
               PROVE  Earlier(m, k)
    BY DEF FencedStep
  <2> DEFINE i == input[k].lease
             j == input[m].lease
  <2>1. /\ i \in Active
        /\ leases[i].rev = input[k].rev
    BY AcceptedReceives DEF Receive, AuthorityCurrent, InForce
  <2>2. /\ j \in Acquired
        /\ input[m].rev <= leases[j].rev
    BY DEF ControlInv, InputMade, Received
  <2>3. i \in Acquired /\ i \in Nat /\ j \in Nat
    BY <2>1, <2>2, ControlAssumption DEF Active, Acquired, LeaseId, ControlAssumption
  <2>4. ~(i < j)
    <3>1. SameSurface(i, j)
      BY DEF SameSurface
    <3> QED
      BY <2>1, <2>2, <2>3, <3>1 DEF ControlInv, Superseded
  <2> QED
    BY <2>1, <2>2, <2>3, <2>4 DEF Earlier
<1> QED
  BY <1>1, ControlInvHolds, PTL DEF ControlSpec, InputFenced

\* Input is only received under the lease that controls the surface observed,
\* its holder's and its sender's authority current.
THEOREM AuthorityRequired == ControlSpec => ReceivedWithAuthority
<1>1. ControlInv /\ [ControlNext]_allVars =>
         \A k \in Input : Accepted(k) => Authorised(k)
  <2> SUFFICES ASSUME ControlInv, [ControlNext]_allVars, NEW k \in Input,
                      Accepted(k)
               PROVE  Authorised(k)
    OBVIOUS
  <2> DEFINE c == input[k].by
             i == input[k].lease
             l == leases[i]
  <2>1. /\ input[k] # NoInput
        /\ Sees(c)
        /\ Stands(i)
        /\ i \in Active
        /\ l.rev = input[k].rev
    BY AcceptedReceives DEF Receive, AuthorityCurrent, InForce
  <2>2. \A d \in {l.holder, c} : d \in granted /\ view[d].surface = surface
    BY <2>1 DEF Sees, Stands
  <2>3. ASSUME NEW j \in Active, leases[j].surface = surface
        PROVE  j = i
    BY <2>1, <2>3, SurfaceExclusive DEF Stands, OneController, SameSurface
  <2> QED
    BY <2>1, <2>2, <2>3 DEF Authorised, Stands
<1> QED
  BY <1>1, ControlInvHolds, PTL DEF ControlSpec, ReceivedWithAuthority
===============================================================================
