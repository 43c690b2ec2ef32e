# VDR-Suite: a verification project

TLA+ models of VDR-Suite's distributed core, the TLC instances that check them,
and TLAPS proofs about them. The subject is the C++ source; where a
document and the code disagree the models follow the code, and `PROJECT.json`
("findings") says so.

## 1. Inventory

VDR-Suite is a Control Plane ("Core", one daemon with SQLite) that manages VDR
backends through Backend Agents. An Agent is a process next to a VDR; it calls
the Core over HTTPS (never the other way round), keeps a few protected files, and
talks to its VDR through the SuiteBridge plugin.

| Component (source) | State | Operations | Interacts with |
|---|---|---|---|
| **Command ledger** (`core/agent/src/BackendAgentCommandDelivery.cpp`) | tables of commands, receipts, results, capabilities, provider facts, provider ownership, provider selections | insertAssignment, poll, receipt, result, requestReplay, set/clear ownership | Agents (HTTP), reservation services, media and OSD fences |
| **Command inbox** (`BackendAgentCommandClient.cpp`, `BackendAgentCommandStateStore.cpp`) | one protected file: assignment, receipt, dispatch state, result, acknowledgements, native evidence | reconcile, poll, execute, retire | Core, native executors, media executors |
| **Native executors** (`BackendAgentNativeTimer{Create,Delete,Modify}*`, `BackendAgentRecording{MarksModify,Cut}*`) | evidence inside the inbox file | prepare, fence, execute once, persist, recover | SuiteBridge |
| **Agent registration** (`BackendAgentRepository.cpp`, `BackendAgentLifecycle.cpp`) | identity, generation, lease, heartbeat sequence, credential versions | enroll, connect, renewLease, publishCapabilities, rotate, revoke | every other Agent endpoint fences on it |
| **Agent runtime** (`BackendAgentClient.cpp`) | identity file, synchronized flag, sequences | connect, heartbeat, fast poll, observations | Core |
| **Mutation operations** (`core/operations`) | operation rows: state, revision, idempotency key | reserve, transition (compare and set), recovery scans | all mutations |
| **Native timer runtimes** (`core/timers`, `core/daemon/src/NativeTimer*`) | outcome and readback records | reserve, dispatch, apply result, read back, complete | operations, ledger |
| **Timer intents and assignments** (`core/timers`) | intents, desired assignments, reassignments | assign, reassign, reconcile | timer runtimes |
| **OSD observation** (`suitebridge_osd_state.cpp`, `SuiteBridgeOsdFrameBuffer.cpp`, `BackendAgentOsdObservation.cpp`) | the OSD inside VDR, the Agent's frame buffer, the Core's latest observation | VDR's OSD callbacks, copy, publish, expire | VDR's main thread, Agent, Core |
| **OSD sessions and bindings** (`LegacyOsdSessionService.cpp`, `OsdViewerBindingService.cpp`) | sessions, viewer bindings with two cursors | create, status, attach, read, detach | observation, grants |
| **OSD control** (`OsdControllerLeaseService.cpp`, `LegacyOsdInputService.cpp`) | controller leases, the owner of each surface, input commands | acquire, renew, release, current, submit, receipt | viewer bindings, ledger |
| **Media sessions** (`core/media`, `core/daemon/src/LiveMediaSessionRuntime.cpp`) | sessions, route leases, workers | start, stop, expire, reap | workers |
| **Security** (`core/security`) | accounts, pairing requests, device credentials, browser sessions, grants, accountability | claim, pair, approve, rotate, issue, revoke | every request |
| **Media tools add-on** (`addons/media-tools`, `core/addons`) | operation fences, maintenance gate, review stores | approve, receipt fence, import, shrink | ledger, operations |
| **SuiteBridge plugin** (`vdr-plugin-suite-bridge`) | recent command caches, the OSD state above | execute native commands once | Agent |
| Search timers, caches and polling, EPG and metadata, recording jobs, REST, web UI | see `PROJECT.json` | | |

Who runs where: an Agent is one thread. The daemon serves all HTTP requests on one
thread (`SimpleHttpListener::runUntilStopped`) and visits open timer operations on
a polling thread. VDR's callbacks come on VDR's main thread, SuiteBridge's readers
on others. So two HTTP operations never interleave, but each interleaves with a
visit, with everything in Agents and VDRs, and with the passing of time.

What is hard in it: a native VDR call cannot be made idempotent from outside, so
everything turns on *not repeating it* although the Agent may die, its disk may
fill up, answers may be lost, VDR may restart, generations may change and an
operator may replay; clocks read in whole seconds; a durable one-command inbox
that everything else waits for; checks made in one place (lease at the poll,
deadline at the executor, grant at the receipt, generation at each call) about
facts that change before the next place. An OSD that is copied without ever
waiting for a lock, and control over it by leases nobody watches. `PROJECT.json` lists the hazards at
their lines.

What makes each component correct, in one line:

* Command delivery: one effect at most, never without a recorded receipt, never
  without a trace, and results that do not lie. An Agent is never stuck for ever.
* Agent registration: generations only grow; a fenced instance changes nothing.
* Operations: one operation per idempotency key, transitions along the table
  only, no lost update, terminal states stay.
* Timer runtimes: an operation succeeds only on evidence of the native state; a
  Core restart at any point ends in a dispatched, recoverable or failed operation.
* Timer assignments: one desired assignment per intent and a gapless succession.
* OSD observation and viewing: a viewer is never shown a frame with an unnoticed
  gap, is not told "unchanged" of a frame it does not show, and catches up.
* OSD control: one controller per surface; input only under its lease, in the order
  of control; nobody locked out for ever.
* Media sessions: bounded, each worker belongs to a session, each session ends.
* Security: a pairing code, first-administrator claim or session is used once.

## 2. Plan

Done:

1. **Command delivery**: ledger, inbox, their composition, the one-shot
   abstraction, safety proofs.
2. **Native timers** on the promise of 1, with the part of the mutation operations
   and of timer assignment and reassignment they need: admission, dispatch,
   outcome, readback, Core restarts between the steps; an abstract timer operation
   and its refinement; safety proofs.
3. **OSD frames** from VDR's callbacks to the viewer; safety proofs, one liveness
   property; the abstract viewing and its refinement.
4. **OSD control** on that abstract viewing: controller leases and input; safety
   proofs, one liveness property.

Next, in this order:

5. **Agent lifecycle**: enrollment, connection, heartbeat sequence, credential
   rotation with its pending file, revocation. Command delivery sees its generation
   and lease.
6. **OSD input delivery**: 4 composed with 1, and SuiteBridge's command caches and
   dispatch, from the accepted receipt to the key that VDR gets.
7. **Import and shrink fences, maintenance gate.**
8. **Media sessions and route leases.**
9. **Device pairing, first administrator, browser sessions.**
10. **Idempotency keys** of the mutation operations with their recovery scans, and
    the search timer and recording operations on top of them.

Runs stay few: one or two per component, each on the instance where its hazards
meet. Theorems planned: for 5 to 7 the type and the main safety invariant, for 6
the refinement of an input that is pressed at most once and under authority.

## 3. Modules

```
CommandChannel   assignment, clock, HTTPS calls
  CommandLedger  the Core's side
  CommandInbox   the Agent's side
    CommandDelivery   composition, properties, fairness, refinement mapping
      CommandInvariant   the inductive invariant
        CommandDelivery_proofs   theorems (TLAPS)
        MCCommandDelivery        instances (TLC)
OneShotCommand   abstract: one command

OperationJournal, TimerOwnership   durable operations; assignments and bindings
  NativeTimers   VDRs, Agents, one OneShotCommand per operation
    NativeTimerAdmission   HTTP handlers, vocabulary of a visit
      NativeTimerCreate, NativeTimerDelete, NativeTimerModify   the visits
        NativeTimerRuntime   composition, properties, refinement mapping
          TimerInvariant   the inductive invariants
            NativeTimerRuntime_proofs     records agree
              NativeTimerOwnership_proofs   one owner, one timer
                NativeTimerAnswers_proofs     what readbacks may conclude
                  NativeTimerPromise_proofs     refinement of TimerPromise
            MCNativeTimerRuntime
TimerPromise     abstract: one timer operation

OsdSource        the OSD in VDR and SuiteBridge's copy
  OsdObservation   Agent and Core
    OsdViewing     sessions, bindings, clients; fairness
      OsdInvariant   properties, inductive invariants, refinement mapping
        OsdViewing_proofs, MCOsdViewing
OsdAccess        abstract: who is on which surface
  OsdControl     leases and input
    OsdControlInvariant   properties, the inductive invariant
      OsdControl_proofs, MCOsdControl
```

Two joints hold the groups together. `NativeTimers` uses `OneShotCommand`, which
`CommandDelivery` implements, in place of command delivery. `OsdControl` extends
`OsdAccess`, which `OsdViewing` implements, in place of viewing.

### Command delivery

**CommandChannel.** `now` is the wall clock in seconds (`nowSeconds`); Core and
Agent read the same one. `assigned` is the immutable part of a command row. The
Agent is single threaded and waits for each HTTPS call (`postAuthenticated`), so
there is one `call` and its `reply`; a call that times out stays in `requests` and
may reach the Core any time later or never. `KindOf` picks the path through the
code: `create`, `modify` (UPDATE and TOGGLE), `delete` (DELETE and recording
marks) and `cut` are native commands with prepared evidence; `import` stands for
media import and both shrink commands, `osd` for legacy OSD input, `probe` for
`probe.noop`. (The historical result of `import` is media import's only: for a
shrink the model has a behaviour more than the code.)

**CommandLedger.** One action per handler and outcome. `poll` is `RefusePoll`,
`OfferNothing` and `Offer`; `Refresh` is the part they share: republished
capabilities and provider facts, then the expiry UPDATE, then the candidate SELECT
with its quirks (one row, oldest first, a stale native command blocks the younger
ones, cuts are filtered inside the query). `receipt` is `RefuseReceipt` and
`AcceptReceipt`: generation, recorded identity, provider selection on the first
receipt only, and the media and OSD fences in front, whose authority may change at
any time. `result` is `RefuseResult` and `RecordResult` with the two
historical exceptions to the generation fence. `Assign` is `insertAssignment` with
the admission checks its callers share; `RequestReplay` and `ChangeOwnership` are
the operator's tools.

**CommandInbox.** `inbox` is the state file and survives `Crash`; `phase` says where
a running cycle stands, `outcome` holds a native outcome not yet durable. Each
durable write (`persist`) is a step boundary. `RecoverInterrupted`, `Retire`,
`PrepareStarting`, `BeginReceipt`, `ExpireOsd`, `ResendReceipt`, `SendResult` are
the ways reconcile can go, in the order of its tests, which the guards encode;
`ExpireReady`, `Unauthorized`, `Start`, `RunDirect`, `RunNative`, `PersistOutcome`,
`PersistFails` are execution; `SendPoll`, `StoreNothing`, `StoreDuplicate`,
`StoreAssignment` the poll. `effects` is a history variable: native effects so far.
A native call whose answer is lost or malformed may or may not have had its effect.
`Quarantined` and `Historical` are the two fates of an entry of an older generation.

**CommandDelivery.** `Connect` gives every Agent process a new generation;
`Heartbeat` renews the lease only after a successful reconcile (or under quarantine)
and `RenewDuringImport` from within a running import. `AllowSameSecond` says whether a replaced
command can be received anew in the very second of its first reception (see 5).

**OneShotCommand.** Per command: permitted once, run at most once and only while
no verdict is in, at most one verdict, which does not lie. The mapping takes
`permitted` from the receipt table, `ran` from `effects`, `verdict` from the result
table.

Steps are as atomic as the code: a handler is one SQLite transaction. The check of
the generation (`agentContextMatches`) and acceptReceipt's provider check precede
the transaction; they read only what connections and refresh polls write, so the
step is placed where they read. An Agent whose receipt is on its way waits for the
answer and makes no refresh in between.

Left out: accountability events, delivery counters, injected response losses (any
call may be lost anyway), `vdr.native.probe`, the read-only import readback notice, OSD payloads
that do not parse, missing native transports, database failures (they refuse a call,
like a lost answer), the file's text format, and clocks that differ or go back.

### Native timers

One timer intent, its assignments by epoch, and any number of operations on it.
A native timer carries the Suite's marker, hence its epoch, and has a `content`, which
is what its fingerprint tells apart. `Id` gives each content the identity VDR derives
from channel, day and time: a TOGGLE keeps it, an UPDATE of the schedule does not.
Contents come back, as they do in the code: a TOGGLE is toggled again, an earlier
schedule is asked for again, and an edit behind the Suite's back may restore anything.
A request has the `content` it was admitted on and its `wish`; a MODIFY is admitted
only for a wish that differs from the bound content, which the handler checks.

**OperationJournal** is `MutationOperationRepository` for operations of distinct
idempotency keys: reservation and the compare-and-set along the table of
transitions. **TimerOwnership** has the transactions on assignments
(`schedulePrimary`, `createControlledReplacement`, `beginProvisioning`,
`bindVerified`) and on bindings (`create`, the two forms of `update`, the passive
refresh), each with its own conditions. **NativeTimers** is the far side: `Permit`
(receipt), `Run` (the effect, on the timer the executor compared), `Settle` (the
result), another Agent generation, and timers removed or edited behind the Suite's
back. `edits` is a history variable: what was edited into what.

**NativeTimerAdmission.** `AdmitCreate` is one transaction; DELETE and MODIFY read
(`Prepare`) and reserve (`AdmitDraft`) in two, and in between the polling thread may
move things. A `visit` of the polling thread is a sequence of steps, each one
transaction or one readback; what it carries from step to step is `visit`, and
`Abandon` loses it: a condition that fails, an error of the database, and a stop of
the Core are alike. Where the next visit resumes is read from the durable state.

**NativeTimerCreate, -Delete, -Modify.** The visits of each family, step by step in
the order of the productive runtimes, with the differences that matter: a CREATE's
command is reserved, claimed, and only then activated, in three transactions; that
of a DELETE or MODIFY is live from its assignment on, before the claim; a MODIFY may
be found to have had no effect, which is concluded from the content alone.

**NativeTimerRuntime** composes them and states the properties. The mapping to
**TimerPromise**: a reservation is `Admit`, `Run` is `Affect`, the three
completions are `Keep`; `CloseUnchanged`, the application of a refused result and
`ExpireModify` are `Refuse`, an edit is `Touch`; everything else is a stutter.
**TimerPromise** has what a final answer is worth. Since contents come back, that of a
MODIFY is about the timer and not always about the operation: "succeeded" says that
the timer is as asked for and "failed_verified" that it is as it was, by the
operation's own effect or the lack of it unless another MODIFY of that timer or
someone outside changed it (`ChangedByOthers`). No stronger promise holds of the code,
see the observations at the end of section 4. **TimerInvariant** has the three
inductive invariants, each built on the one before: `TimerInv`, `OwnershipInv`,
`AnswerInv`.

Left out: idempotency keys, leases and their freshness window (300 s), deadlines and
provider selection (when a step may happen, hence scheduling; a step that is never
taken is allowed), the quarantine of historical MODIFY results without evidence,
replicas, intent revisions, adopted timers. `Prepare` is bounded by the operations there are,
`PassiveRefresh` by `MaxRevision`; `MaxUpsets` bounds Agent generations and edits
together.

### OSD frames

**OsdSource.** VDR's callbacks and SuiteBridge's readers use the same lock and
neither waits. `Update` and `Clear` are calls that got it; `DropUpdate` and
`DropClear` those that did not, which leave only the broken continuity and a counter
behind. A reader copies the payload under the lock (`Copy`) and reads the two marks
after it has let the lock go (`Snapshot`); what happens between the two is in the
model. `lacks` is a history field: what a payload misses of the real OSD, since its
surface began ("inside") or from before ("opening"). What is really on `screen` is
kept beside it. An epoch, a random number in the code, is the count of the surface.

**OsdObservation.** The Agent holds each copy against its `buffer` (`Apply`, the
frame buffer with its sticky resynchronisation) and posts it; the Core keeps the last
one of the present generation. A reader that finds the lock taken delivers an
inactive, incomplete frame (`ObserveBusy`). Posts get lost, VDR and the Agent
restart, the lease runs out, the observation gets too old.

**OsdViewing.** Sessions, and one binding on each, with the two cursors (`acked`,
`delivered`). `Answer` is `read` in the order of its tests. The state column of a
session is recomputed at every look before anything reads it, so only its generation
and whether its time is over are kept; a session of an earlier generation or past its
time counts as none once it was looked at, and one whose grant was withdrawn is closed
only until there is a grant again. `Read(c, FALSE)` is a poll whose answer got
lost. `client` is the viewer outside the code: it shows what it is given and
acknowledges it with its next request. Left out: revisions, and the limits of 64
sessions, 64 bindings and 8 per session.

**OsdInvariant** has the properties. The mapping to **OsdAccess**: the surface is the
pair of generation and epoch when the Agent is online and an OSD observed; a client's
view is the surface of its binding while its session is in time.

### OSD control

**OsdAccess** says what controllers see of viewing: a surface comes and goes, grants
are given and withdrawn, a view is put on the surface observed only, is usable or
not, and goes.

**OsdControl.** `leases` in the order of acquisition; the number of a lease stands
for its random id and for `controllerLeaseEpoch`. `Lapse` and `Watch` (a viewing step)
leave a lease formally active though its time is over or its binding gone; it is ended
by whoever looks next: `Acquire`, `RefuseAcquire`, `Renew`, `RefuseRenew`, `Release`,
`Look` (`current`), `Submit`, `Receive`. A refused submission or receipt has looked
like `Look` and does nothing else, so it has no action of its own. `known` is the lease
a client was told of last: its own, by `acquire` and `renew`, or whosesoever is in
force on its surface, by `current`, which does not ask who holds it; an answer may be
lost. Clients submit under the lease they know, and `AuthorityCurrent` compares what
the code compares: the sender's own session and binding, and the lease's id, epoch and
revision, never its holder. `Receive` is the same comparison at the Agent's receipt,
where the sender's own `osd.control` is not asked for again.

Left out: the rate limit, capacities and pruning, `renewAfter`, the input's own
deadline (an input not received in time is one that `Receive` never takes), the
revision that an ended lease gets (it is never asked for), repeated input ids.
`MaxRevision` makes each holder stop renewing some time.

## 4. Runs

`MCCommandDelivery` instantiates command delivery (the first seven runs): one or
two commands, `Ttl` 1 or 2 seconds. `MCNativeTimerRuntime`, `MCOsdViewing` and
`MCOsdControl` instantiate the other groups. Deadlock checking is off in all of them:
an Agent may be down for good, operations are finished some time, and the bounds end
every behaviour.

| Run | Instance | Shows |
|---|---|---|
| late_results | a MODIFY and an import, 2 generations, clock to 3; 3.2 million states | `TypeOK`, `EffectLeavesEvidence`, `QuarantineKeepsEvidence`, `ResultIsTruthful`, `StateFollowsJournal`, `AcknowledgedIsRecorded` with crashes at every point, historical results, revoked grants, failing applications |
| stale_authority | a CREATE and an OSD input, 2 ownerships, 2 calls in flight, clock to 3; 5.8 million states | `AtMostOnceEffect`, `EffectLeavesEvidence`, `EffectNeedsReceipt`, `ResultIsTruthful` while calls are late or doubled and what a command was admitted under goes away |
| queue_replay | a cut and a probe, 2 VDR epochs, clock to 3; 1.5 million states | `IInv` and `JInv`, the invariants of the proofs, and `ImplementsOneShot` |
| delete_progress | one DELETE, fair; 11 thousand states | `InboxSettles`, `AssignedResolves` |
| overdue_create | one CREATE, fair | finding: an overdue CREATE is never rejected |
| lease_lapsed | one probe, lease 1 s, deadline 2 s | finding: a lapsed lease does not stop an execution |
| same_second | a cut and a probe, `AllowSameSecond` | finding: a replay within one second runs again |
| timer_lifecycle | three operations of any family, 3 contents with 2 identities, 2 backends, 2 epochs, a binding's revision to 2, 1 upset; 0.9 million states | `TypeOK`, the invariants of the proofs `TimerInv`, `OwnershipInv`, `AnswerInv`, and `ExclusiveTimer`, `SurvivorWasRenamed`, `BoundByOwnOperation`, `CreateDispatchedFirst`, `BasisStands`, `TimerPromiseKept` with a stop of the Core at every point |
| renamed_delete | three operations, 1 backend, no upset | finding: a DELETE is verified while its timer lives on under another name |
| osd_frames | 1 client, 2 surfaces, 4 frames, 1 dropped call, 1 upset, fair; 1.25 million states | `TypeOK`, `ViewInv`, `GapsAreSeen`, `UnchangedIsShown`, `ImplementsAccess`, `ViewerCatchesUp` |
| osd_control | 2 clients, 2 surfaces, 2 leases, 2 inputs, 2 revisions, 2 upsets, fair; 1.9 million states | `ControlInv`, `OneController`, `InputFenced`, `ReceivedWithAuthority`, `NotLockedOut` |
| foreign_lease | the same instance | finding: input is received under a lease its sender does not hold |

**Bounds and why they suffice.** *Command delivery.* Three clock values separate "assigned", "due"
(`deadline <= now` at the executor) and "expired" (`deadline < now` at the poll, and
the historical import's `deadline < now`). Two generations give every relation an
entry can have to the running Agent (same, older). Two epochs and two ownership
generations make a selection stale. Two calls in flight let an abandoned call
overtake or follow its repetition; the handlers are idempotent on repetitions, and
no property counts calls. Two commands are needed for replacement in the inbox and
for the queue; the inbox holds one entry, so a third adds no new relation. 
*Timers.* Three operations are what the hazards take: a CREATE that makes the
binding, and two more that meet on it, or a DELETE and the CREATE on the next
backend. Two epochs are one move of the intent. Revision 2 allows the passive refresh
on one side of an admission; one upset, one new Agent generation or one
edit, is what makes a condition stale. Three contents are one to be changed, another of
the same identity (a TOGGLE) and one of another identity (an UPDATE of the schedule);
each of them can be left and come back. Two constraints keep the run short:
`NamedAgentsRestart` leaves out new generations of an Agent no assignment names yet, which
loses nothing but their numbers, and `EditsMeetFewer` lets an edit from outside meet two
operations only: with it, that is the CREATE and the DELETE or MODIFY that the edit
misleads; what three operations do to each other is explored without an edit.
*OSD frames.* Two surfaces make one take the
place of another, with four frames a cursor has one frame before and one after it on a
surface, and a VDR restart makes the counter begin anew. One client is enough
for safety, as clients share nothing they could write. There is one family of OSD: that
another family takes over a payload (`StartSurfaceLocked`) is in the model and in the
proofs, which are for any families, and not in this run. *OSD control.* Two clients and two
leases make a handover, two inputs can be queued on its two sides, and a second
revision does the same within one lease; a third lease adds states without a new kind
of step. Two upsets withdraw a grant and replace the surface.

The safety theorems hold without these bounds.

**Fairness** and why the code gives it. *Command delivery* (`FairSpec` of
`CommandDelivery`). The Agent's loop takes its own
steps: weak fairness of `AgentStep`. Its main loop heartbeats and polls for ever
and repeats what failed, so a call it makes again and again is eventually made,
reaches the Core, and its answer is taken in time: strong fairness of `Heartbeat`,
`CapabilityRefresh`, `AnswerPoll`, `AnswerReport`, `TakeAnswer`. The HTTP server
works off what it has accepted: weak fairness of `WorkOff`. The clock advances to
its bound. Crashes, timeouts, failing disks, operators and VDR restarts are never
forced; the liveness properties allow the Agent to be down.

`InboxSettles` is checked where the provider does not change and for a command
that is not CREATE, MODIFY or OSD input. It does not hold for those: see the finding
overdue_create, and the hazards "liveness" in `PROJECT.json`.

*OSD frames* (`FairSpec` of `OsdViewing`). The Agent reads and posts the OSD after
each heartbeat and not every post is lost: weak fairness of `Copy`, strong fairness of
`ObserveCopy(TRUE)`, since a VDR restart or a new Agent may take the copy away. It
renews its lease (`ComeBack`), and a client that wants to see goes on asking
(`CreateSession`, `Attach`, `Read(c, TRUE)`: weak, as nothing but itself and bounded
upsets stand in the way). VDR need not call back at all. `ViewerCatchesUp` speaks of an
OSD that has come to rest on a surface SuiteBridge has whole; the bound on frames
brings it to rest, which the code does not, and the premise asks for it.

*OSD control* (`FairControlSpec`). Time passes: weak fairness of `Lapse`, for each
lease. Nobody is assumed to ask for anything. The premise of `NotLockedOut` that a
lease is no longer renewed is in the bound on revisions.

Every property has a mutant of a mapped definition (the operators marked
`Mutant` next to the definitions they stand in for) that violates it.

### Findings

* **overdue_create.** ADR-0043 has the Agent reject a command whose deadline has
  expired. For CREATE and MODIFY the rejection cannot be stored, because the
  state store insists on evidence of a native call; the cycle repeats, blocks the
  inbox and stops the lease. This is the one that matters in operation.
* **lease_lapsed.** The phase-63 document says an expired lease prevents a new
  side effect; the lease is asked for by the poll only.
* **same_second.** ADR-0040 has the Agent reject a completed command. It remembers
  one command; of an earlier one it has no memory, and the only thing that stops a
  second execution is that the second receipt differs in its `receivedAt`, in whole
  seconds.

* **renamed_delete.** ADR-0042 has the readback of a DELETE verify "that the bound
  native timer is absent". It looks for the identity the timer had when the DELETE was
  admitted, and nothing keeps an UPDATE that changes it from running beside it.
  It is the only gap of this kind: `SurvivorWasRenamed` is proved.
* **foreign_lease.** ADR-0047 says that a viewer has no control because another viewer
  of the session holds the lease. `current` tells every viewer of the surface the lease
  in force, and the authority of an input compares the lease's id, epoch and revision
  with it, and not the holder with the sender; renew and release do compare them. What
  does hold of every received input is `ReceivedWithAuthority`: the *lease's* authority
  is current, and its holder and the sender both still view the surface.

Three observations along the same lines have no run. A MODIFY that had its effect may
be closed as failed_verified: its outcome is uncertain, a second MODIFY or someone
outside has brought the earlier content back, even after the first one was verified and
before it was completed, and the readback that finds the earlier content takes the
first for one without effect (NativeTimerModifyProductiveRuntime.cpp:418-434), while
native-timer-api-v1-yavdr-hardware-acceptance-20261021.md:17 says of `failed_verified`
that "fresh authoritative readback proved no side effect". `TimerPromise` states what
remains true, and `ModifyFinds` why. Further, a replay of a command that was
replaced in the inbox makes a receipt that conflicts with the recorded one and is
refused at every attempt (phase-63-command-delivery.md:249 says a duplicate
returns the existing receipt), and the two historical results are admitted although
ADR-0040:129 has late results of obsolete generations rejected.

## 5. Proofs

Every theorem holds for all constants that satisfy the assumptions named in the
modules that declare them. The provers used are SMT, Zenon and PTL. Each proof of
invariance has one step per action; what several steps need is a lemma.

### Command delivery

`CommandDelivery_proofs`, for any number of commands, generations, calls in flight:

| Theorem | Property |
|---|---|
| `TypeCorrect` | `TypeOK` |
| `Invariance` | `IInv` |
| `OneEffect`, `ReceiptFirst`, `EvidenceStays`, `TruthfulResults`, `AcknowledgementsHold` | the safety invariants |
| `QuarantineHolds` | `QuarantineKeepsEvidence` |
| `JournalIsConsistent` | `JInv` |
| `StateIsConsistent` | `StateFollowsJournal` |
| `OneShotRefinement` | `ImplementsOneShot` |

All but `TypeCorrect` assume `~AllowSameSecond`; the run same_second shows that
the assumption cannot be dropped.

*The argument.* None of the safety properties is inductive. `AtMostOnceEffect`
alone says nothing of why an interrupted command cannot run again: that needs the
inbox (what is durable in which phase: `PhaseInv`), the call the Agent waits on
(an "ok" means the Core has the row: `CallInv`), and the truth of stored
acknowledgements (`AckInv`). The centre is `EffectInv`. While the Core has no result
of a command (`Unresolved`), its receipt, its calls in flight and its effect all
belong to the entry now in the inbox: an entry is replaced or retired only when
`Settled`, and then the Core has a result. Once the Core has a result (`Resolved`), a
replay may put the command into the inbox a second time, runnable; but the new entry's
receipt differs from the recorded one, so it is never acknowledged and never reaches
`ready`. That last step is where seconds matter.

`JInv` carries the state column: which rows exist (`KnownInv`) and
`StateFollowsJournal`. It is inductive together with `IInv`.

The refinement proof maps `AcceptReceipt` of a first receipt to `Permit`, a `Ran`
with an effect to `Run`, `RecordResult` of a first result to `Settle`, everything
else to a stutter; `IInv` provides the guards of the abstract actions.

### Native timers

`NativeTimerRuntime_proofs`, `NativeTimerOwnership_proofs`, `NativeTimerAnswers_proofs`
and `NativeTimerPromise_proofs`, for any number of operations, backends, epochs,
contents, revisions and upsets, and any identities of the contents. Assumptions: the
bounds are numbers (`OwnershipAssumption`, `NativeAssumption`), and the values for "no
assignment" and "no binding" are no rows (`AbsentRowAssumption`).

| Theorem | Property |
|---|---|
| `InvariantHolds` | `TimerInv` |
| `TypeCorrect` | `TypeOK` |
| `CreateDispatched` | `CreateDispatchedFirst` |
| `OwnershipHolds` | `OwnershipInv` |
| `BoundToOwn` | `BoundByOwnOperation` |
| `BasesStand` | `BasisStands` |
| `AnswersHold` | `AnswerInv` |
| `TimersExclusive` | `ExclusiveTimer` |
| `SurvivorsRenamed` | `SurvivorWasRenamed` |
| `PromiseRefined` | `TimerPromiseKept` |

*Records agree.* `CommandsAgree` ties the three records of an operation together: no
effect without a received command, no state past dispatching without a report, no
closing as not dispatched of what has a command.

*One owner, one timer.* `ExclusiveTimer` is about timers in VDRs, and what keeps them
apart is the order in which an intent's assignments follow one another, so
`OwnershipInv` starts there. `Succession`: only the latest assignment owns the
intent; an earlier one never had a CREATE or was superseded after a completed DELETE.
`OneTimer`: each assignment has at most one CREATE, since an assignment is claimed for
provisioning once (`beginProvisioning` compares the state), hence at most one timer
with its marker. A visit carries what it found from one transaction to the next;
`VisitsStand` says that its operation is still where the visit took it up. `TimersMade`:
whatever timer there is, seen or bound, the CREATE of its assignment made it, so a
completed CREATE had its effect.
`BindingsOwn`, `BasesKnown`, `BoundByCreate`: a binding is the work of an operation on
that assignment and newer than what that operation was admitted on, and what an
operation was admitted on is the present binding or an earlier one. The passive refresh
leaves alone what an open operation was admitted on, which is `BasisStands`. Two timers
of one intent would then be of different epochs; the older one's assignment was
released after a verified absence, and what that DELETE left was renamed
(`AbsenceTells`, below), as `ExclusiveTimer` grants.

*What readbacks may conclude.* A final answer is about the VDR, and what the runtime
has is readbacks of an earlier moment. A content that was seen proves little, because it
may have come back; so `AnswerInv` speaks of who could have changed the timer. `Noted`
collects the contents on record of a timer: bound, seen by a visit, or what an operation
was admitted on. `NotesStem`: a timer that is not as noted was given its content by an
UPDATE that had its effect or from outside, and if its identity differs, it was renamed.
`Restored`: what a MODIFY replaced comes back by others only. With these, `ModifyFinds`
says that a MODIFY which found the timer as asked for, verified that or succeeded, has
the content from an effect, its own or another's; and that one which was found to be as
it was, and yet had its effect, was undone by another. `CreateFinds`: a completed CREATE
had its effect. `AbsenceTells`: from the moment a DELETE did not find its timer, in the
visit, in the binding and in its final state, whatever is left of the timer was renamed.
By `NotesStem` this is so when it looks, and it stays so: a timer only comes about in
the place of another one of its assignment, once the assignment's CREATE has run. What
the finding renamed_delete shows is all there is.

The identity that a DELETE saw absent may come back, by an UPDATE to the earlier
schedule that was on its way. So there is no property that says it stays absent;
`SurvivorWasRenamed` is what holds.

*The promise.* The refinement takes the guards of `Keep` and `Refuse` from `ModifyFinds`
and `CreateFinds`; that an effect comes only while the operation is open follows from
`CommandsAgree`, since the report that ends it comes after.

### OSD frames

`OsdViewing_proofs`, for any number of clients, families, surfaces, frames, drops and
upsets. Assumptions: the bounds are numbers and "none" is no family
(`SourceAssumption`), `Nothing` is no picture (`NothingAssumption`), and the values for
"no observation" and "no binding" are none of those (`AbsenceAssumption`).

| Theorem | Property |
|---|---|
| `ViewInvHolds` | `ViewInv` |
| `TypeCorrect` | `TypeOK` |
| `GapsSeen` | `GapsAreSeen` |
| `UnchangedShown` | `UnchangedIsShown` |
| `AccessRefined` | `ImplementsAccess` |

*The argument* (`OsdInvariant`). `LossInv` follows a gap along its way: while its
surface is up, wherever a frame with a gap is held, the mark is beside it, in the plugin
the broken continuity or the incomplete payload, in a copy under way either of them as
they are *now*, in the buffer the incomplete frame, at the Core the resynchronisation.
The copy is why the promise is about a surface still up: the next surface clears
the flag before the reader has looked at it. `CursorInv`: what a client acknowledges is
what it shows, and one of the two cursors; a delivered cursor belongs to the binding's
surface; a resynchronisation resets both. With it, "unchanged" is the truth.
For the refinement: an unusable view only when nothing is observed, and a view only
ever on what is.

### OSD control

`OsdControl_proofs`, for any number of clients, surfaces, leases, inputs, revisions and
upsets. Assumptions: the bounds are numbers (`ControlAssumption`), the values for
"none" are none of the others (`AbsenceAssumption`).

| Theorem | Property |
|---|---|
| `ControlInvHolds` | `ControlInv` |
| `ControllerExclusive` | `OneController` |
| `FencesInput` | `InputFenced` |
| `AuthorityRequired` | `ReceivedWithAuthority` |

*The argument* (`OsdControlInvariant`). `OneController` needs to know that whoever
acquires finds the lease in the way: `OwnersActive`, the table of owners has the active
leases and no others. `Superseded` orders the leases of a surface: a later one is only
made when every earlier one has ended, and an ended one never stands again. What a client
was told of and what queued input names is a lease, anybody's, at a revision it has or
had (`KnownMade`, `InputMade`), and input is received at the lease's present revision
only; so it comes after all that was received before it. `ReceivedWithAuthority` adds to
the comparison at the receipt what makes it mean something: the lease compared is the
only one active on the surface observed, and its holder may still control and view it,
though nobody tells the lease. That the sender is that holder is not claimed: the run
foreign_lease refutes it.

### Only model-checked

The liveness properties (out of the prover's reach): `InboxSettles`, `AssignedResolves`,
`ViewerCatchesUp`, `NotLockedOut`. The findings, each a counterexample on an instance.
Every invariant and every action property that a passing run checks is a theorem.

The theorems about control are of `OsdControl` on the abstract viewing, and
`AccessRefined` is of viewing without control; that the two together give control on
the detailed viewing is the usual composition along the shared variables, and is not
itself machine-checked.

## 6. Not modelled

Section 2 is the order of what comes next; `PROJECT.json` ("components") gives the
reason for each part left out. The daemon's wiring, REST parsing and
serialisation, EPG and metadata processing, the web front end and the tooling
make most of the code by lines and carry no protocol state a model would add to.

**Liveness of the timer runtime** is not stated, because it does not hold. The code has
these ends from which an operation does not get to a final state by itself:

* a stop of the Core between the verification of a renaming UPDATE and its completion
  (the binding has the new name, the replayed result insists on the old one);
* a DELETE accepted but not assigned when its deadline passes, and a CREATE whose
  command is overdue (deferred at each visit);
* the second of two operations admitted on one binding, whose basis the first has
  changed: it stays dispatching;
* a CREATE that failed leaves its assignment provisioning;
* a new Agent generation in the middle of a CREATE;
* candidates beyond the limit of one scan (64 or 256 rows), while older ones that
  cannot move fill it.

In the model such an operation stays open, which `TimerPromise` allows: it says that
an answer is true and final, not that there is one.

**Gaps at the opening of an OSD surface** (`suitebridge_osd_state.cpp:97`): a call
dropped before the payload of its surface was started is forgotten with the broken
continuity. `lacks = "opening"` is that case, which `GapsAreSeen` leaves out; the hazard
is in `PROJECT.json`. **Input already received** when control changes hands is pressed
all the same; plan item 6 would model it.
