# TLA+ verification of LibreLinux

LibreLinux is the Linux side of LibreSCRS: a per-session smart-card agent on
D-Bus, a Qt helper that asks the holder for PIN, CAN or MRZ, and a PKCS#11
module that is a client of the agent. This directory holds TLA+ models of the
parts of it where several threads, two processes or a failure meet, the TLC runs
that check them, and proofs for the properties that matter most.

Paths below are relative to the repository. The agent library (LibreAgent:
`AgentCore`, `MonitorBridge`, `PresenceModel`, `OperationManager`,
`PromptSerializer`, `Pkcs11Broker`) is not part of this repository; what the code
here relies on is modelled from its uses and marked *external* in `PROJECT.json`.

## 1. The system

### Threads and processes

| Who | What it runs |
| --- | --- |
| monitor thread (agent) | presence events of MonitorBridge, serialised by its state mutex: `BusExporter`, `AgentFrontend::materialize*/withdrawObject`, the destructor of a withdrawn `CardObject` |
| loop thread (agent) | the sd-event loop: D-Bus dispatch, posted callbacks, timers, grants, creation of `CardObject`s |
| reader workers (agent) | one queue per reader: probes, reads, signatures; blocking prompts; emission of typed results |
| polkit thread (agent) | the authorizer's own system-bus connection |
| prompter bus thread / Qt thread | the helper: method handlers / windows and their registry |
| PKCS#11 callers | threads of a foreign application inside the module |

### Components, their state, and what makes them correct

| Component | State | Operations | What is hard, and what must hold |
| --- | --- | --- | --- |
| Card publication: `AgentFrontend` over `BusExporter` | `m_presence`, `m_readers`, `m_pendingCards`, `m_cards`, co-owned `CardObject`s, closures in flight, power hold | reader and card arrival and removal, deferred resolve, retry, publication, withdrawal, CardType update | three threads, one mutex that covers the maps but not the bus: one resolve per card, no use of a freed object, the object tree is what the readers hold, nothing is left unpublished |
| Authorized calls: `CardObject`, `AuthorizedReply.h`, `GrantGate`, `PolkitAuthorizer` | deferred reply, gate, outstanding questions | Sign, SignBatch, ManagePin, ActivateSigningKey; polkit's answer; destructor; shutdown | answer, 90 s budget, departure of the client, removal of the card and shutdown race: exactly one truthful reply, no body on a dead object |
| `EventLoopPoster` | queue, eventfd, timers | `post`, `postAfter`, drain, timer, destruction | push and wakeup are two steps against read and swap: no lost wakeup, one fate per callback, FIFO |
| Typed results: `TypedResultStore`, the channels of `OperationAdaptorFactory` | sealed memfds, recovery store, one-shot signal, final status | `emitResult`, `GetResult`, end of the operation | any allocation or seal may fail between publish, signal and status: status and store agree, every fd is closed once |
| Prompt: `PrompterClient` and the helper (`PrompterService`, `PromptRegistry`, `PromptDialog`, `CallerAuthorizer`) | blocked calls, capability verdict, window registry, entry clock | RequestSecret(s), Cancel, Reset, holder's input, deadline | two processes that restart separately, a call that may be abandoned, ids that may recur: one answer per prompt, a cancel closes its window and only it, no orphan window |
| `AgentService` | members in declaration order, hooks, shutdown token | registerOnBus, run, quiesce, destruction | a start that fails anywhere, and an ordered teardown against a monitor in mid-dispatch, answers of polkit and workers blocked in prompts: nothing reaches what is gone, every prompt that can be dismissed is, and the teardown ends |
| `SessionLifecycleWatch` | logind subscriptions | sleep, lock, session switch | one change reported in several ways, in any order, while operations go on: what the core held when the session left is forgotten, the login after a lock, the secrets too after sleep or a switch |
| `ManagerObject` | settings, anchor report and anchor cache on disk, deferred PKCS#11 replies | SetValue, Reset, master-list import, the Pkcs11_1 forwarders | two writes with a crash between them, a cache a person may delete, grants and worker answers that arrive late: rights are kept, the report never overstates, one reply per call |
| PKCS#11 module's `DBusAgentClient`, `CertificateRead` | cached snapshot, dirty flag, settled cards, generation, key cache | snapshot, certificate read, sign, decrypt, derive, login | signals and replies come on two threads, the agent restarts and reuses its paths: no invalidation is forgotten, no settled verdict sticks to another card, no `Finished` is waited for that has gone by |
| `Operation1Adaptor`, `CancelRoute` | owner, result channel | Cancel by owner, end of life | an owner check in front of the library's cancel |
| helpers (paths, caller identity, sealed memfds, wire names) | none | pure | sequential |
| prompter widgets | text fields | input validation | sequential user-interface code |

`PROJECT.json` lists every component with its status, and under `hazards` each
place where the code is exposed to something a test hardly reaches, with the
properties that cover it or the reason why none does yet.

### How they interact

* MonitorBridge calls the exporter's observers; `AgentFrontend` schedules a probe
  on the reader's worker, which posts its outcome through `EventLoopPoster`; the
  loop thread constructs and registers the `CardObject`.
* A client's method on the card is dispatched on the loop thread, asks polkit on
  another thread, comes back through the poster and runs its body under the
  card's `GrantGate`, which the destructor (monitor thread) closes.
* The body launches an operation on the reader's worker. The worker may prompt
  (blocking, its own bus connection, the helper process), then seals and emits a
  typed result, which the loop thread serves again through `GetResult`.

## 2. Modules

| Module | Models | Role |
| --- | --- | --- |
| `CardPublication` | `AgentFrontend.cpp`, parts of `BusExporter`, `CardObject`, the card-removed hook of `AgentService.cpp` | component |
| `CardDirectory` | what clients may rely on about one card: announced at most once, published only when announced, never re-published | abstract specification |
| `GrantedCall` | `CardObject.cpp` methods, `AuthorizedReply.h`, `GrantGate.h`, `PolkitAuthorizer.cpp` | component |
| `EventLoopPoster` | `EventLoopPoster.cpp` | component |
| `TypedResult` | `OperationAdaptorFactory.cpp`, `TypedResultStore.{h,cpp}` | component |
| `Prompter` | `PrompterClient.cpp`, `PrompterService.cpp`, `PromptRegistry.cpp`, `PromptDialog.cpp`, `CallerAuthorizer.cpp` | composition of two processes and the bus |
| `PromptLife` | what whoever asks for a secret may rely on: at most one window and none after a refusal, one outcome, from the window only once it is gone | abstract specification |
| `Pkcs11Client` | `DBusAgentClient::snapshot`/`enumerate`, `CertificateRead.h`, over an agent that publishes, withdraws, crashes and restarts | composition of two processes |
| `ManagerConfig` | Config1 of `ManagerObject.cpp`: settings, import, anchor report | component |
| `Pkcs11Call` | Pkcs11_1: the wrappers of `DBusAgentClient.cpp`, the forwarders of `ManagerObject.cpp`, the broker's worker | component |
| `ManagerObject` | both interfaces on one object and in one process | composition of the two (`INSTANCE`) |
| `SessionLifecycleWatch` | `SessionLifecycleWatch.cpp` and logind | component |
| `AgentService` | `AgentService.cpp`, the member order of `AgentService.h`, with the session watch | composition |
| `MCCardPublication`, `MCTypedResult`, `MCPrompter`, `MCManagerObject` | symmetry sets and input sets of the runs | TLC instances; the other runs use the component's module |
| `CardPublicationProofs`, `GrantedCallProofs`, `EventLoopPosterProofs`, `TypedResultProofs`, `PrompterProofs`, `Pkcs11ClientProofs`, `ManagerObjectProofs`, `AgentServiceProofs` | inductive invariants, lemmas and theorems, one module per component or composition | TLAPS |

Definitions whose comment starts with *MUTANT of* are deliberately wrong forms of
the definition that follows; no specification uses them. Each property has one
that breaks it (`mutants` in `PROJECT.json`), so that no property holds merely by
the shape of its model.

### Correspondence with the code

**CardPublication.** One action per critical section of `m_cardsMutex` and per bus
registration outside it. A monitor event fixes the set of observer calls it will
make (`monTodo`); they are delivered one by one, in any order the library may
choose, with `HookOrders` for the place of the card-removed hook. The loop thread
is a program counter (`loopPc`, `loopCard`) through `applyCardResolution`,
`rescheduleCardResolve` and `applyCardTypeUpdate`. `refs` counts the
`shared_ptr<CardObject>` owners; `object` is what clients have been told by
InterfacesAdded and InterfacesRemoved. Closures are counted per card, not ordered:
their order between cards is irrelevant here and is `EventLoopPoster`'s subject.
Card types, capabilities and property contents are left out.

**GrantedCall.** `stage` follows a call from dispatch through polkit and back.
`CompleteGranted` enters the gate, `BodyRefuses`/`BodyLaunches`/`BodyReturns` are
the granted body, `BeginDestroy`/`CloseGate`/`FinishDestroy` the destructor on the
monitor thread. `AskFails` is a caller whose credentials or start time cannot be
read. Option parsing is reduced to accepted or refused.

**EventLoopPoster.** `post` is two actions, push under the mutex and eventfd write
outside it; draining is read, swap, run one by one. A delayed callback travels as
an "arm" job. `Stop` and `Destroy` are the end of the loop and the destructor. The
eventfd's counter is reduced to readable or not.

**TypedResult.** The worker runs seal, publish, emit, return, finish; `GetResult`
may run between any two. Every allocation may throw: `SealFails`, `EmitReserveThrows`,
`GetResultRowThrows` and so on. A payload is the set of its entries. `held` are the fds
an owner will close, `open` those nobody closed yet; `lost` and `leaked` record the fds
that the batch channel's throwing steps let go of.

**Prompter.** The bus is a FIFO of calls to the helper, the Qt event queue a FIFO
of posted functors. `Ask`, `Send`, `CallFails` and `Receive` are `request()` and
`requestPinChange()`; `DispatchRequest`, `DispatchCancel` and `DispatchReset` the
bus-thread handlers; `Raise`, `Dismiss`, `Sweep` and `Reject` the posted functors;
`Finished` the completion that takes the registry entry first (`Take`). `Entries(i)`
are the places of the registry that answer to an id, of which the code finds the
first. Options are reduced
to kind, id and the two entry budgets; a secret to the form it was entered on. The
deferred delete of a window is not a step: a `reject` that was queued before it runs
before it, and none is queued after the entry is taken. The entry clock (`clock`) is
armed by `showEvent`, counts in `Tick`, is re-based by `SwapForm` and fires in
`Deadline`; Qt's timers are taken to fire on time, so `spent` never passes `due`.

**Pkcs11Client.** A thread's program counter walks through `snapshot()`, `enumerate()`
and `readCertificates()`; each bus call is one step that reads the agent's state at
that moment, each signal a later step of the client's event-loop thread
(`HandleSignal` forgets the settled cards, `MarkDirty` sets the flag: two critical
sections in the code, two steps here). `life` tells apart the cards a path has named
in different lives of the agent. `outdated` holds the threads whose captured
generation is no longer the current one, which is all the code compares. Assumed of
the agent: a card is seated before it is published and its reader cleared before it
is withdrawn (CardPublication); a restarted agent announces its readers;
GetManagedObjects fails only while the agent is down. The readers are the same
throughout: an agent that comes back to none at all would announce nothing, and a cached
snapshot would stay.

**ManagerConfig.** `Dispatch`, `Decided`/`Undecided`, `Enter` and the bodies follow one
call; an import is three steps (`ReadList`, `Install`, `Record`), because the process
may die, or a person delete files, between the two writes. `ToRecordedState` is the
report that is stored, `Start` the reconciliation of a stored report with the cache
that is found. Settings are one key per mutability. The store may answer
`!ok` and then keeps what it has; an import may be refused because the cache cannot be
written, and is then taken to have left it as it was. Both are the library's, and are
assumed. Not modelled: the rotation of a publisher's certificate by chaining.

**Pkcs11Call.** `Invoke` is a wrapper up to its call, `Forward*` the forwarders,
`Fulfil`/`Release`/`TearDown` the worker that answers, ends, or is torn down with
calls queued, `Receive` the wrapper after the reply, `KeepKey` and `ForgetKeys` the
key cache. Mechanisms are named by what the card does and by their wire token, which
two of them share. The null broker of the test constructor is left out.

**ManagerObject.** The steps of the two, one process: a crash or an exit ends both.

**SessionLifecycleWatch.** logind's reports are a FIFO; which of them exist depends on
what the watch managed to subscribe to. What `AgentCore::quiesce` forgets for each
reason is what `agent/tests/SessionLifecycleWatchTest.cpp` expects: every reason revokes
the login; sleep and a session switch drop the cached secrets as well, a screen lock
keeps them. Operations leave leases and secrets with the core at any moment, also after
the quiesce of a session that has left (`Remember`); `due` records what was held when the
session left. The session is not followed once the watch is dropped.

**AgentService.** The main thread is a program counter through `registerOnBus`, the
loop, `quiesce` and the member destructors; `parts` are the members that exist,
`Shares` what a worker or an answer of polkit keeps alive beyond them, `stray`
records a member reached after its end. `Stuck` workers sit in a prompt the helper
does not dismiss; they are abandoned. One drain round's 50 ms nap is taken to be
enough for every other worker to take a step, which is what the code counts on.
`PromptSerializer::serialize` (external) checks the token and takes the slot in one
step; `RegisterLive` runs the reader-identity resolver of `AgentCoreSeams.h`, which borrows
the exporter. Past the prompt a worker is on the card, which no token interrupts; a
signing may then record LastTsaUrl and run the config-changed callback, in two steps, the
test of `m_frontend` and its use (`OnConfigChanged`, `EmitConfigChanged`). Left out: the
two resolvers over the exporter that the PKCS#11 broker gets (`makeResolveReaderCard`,
`makeResolveCardKey`); on which threads, and until when, the library calls them cannot be
told from this repository.

## 3. Model-checking runs

Passing runs (deadlock is not checked: when all identities are used up, all cards
are gone and the agent has stopped, the models rightly stand still):

| Run | Bounds | Checks |
| --- | --- | --- |
| `card_publication` | 1 reader, 2 insertions, 1 retry, both hook orders | `OneResolveInFlight`, `NoUseAfterFree`, `TreeMatchesReaders`, the refinement `ImplementsDirectory`, `PendingResolves`, `WithdrawnUnexports` |
| `granted_call` | 2 calls, 2 clients | `GrantedBodyOnLiveObject`, `ReplyIsTruthful` (one reply, and a true one), `EveryCallAnswered`, `DestructorFinishes` |
| `event_loop_poster` | 3 callbacks, 1 of them delayed | `NoLostWakeup`, `RunAtMostOnce`, `RunsInOrder`, `AcceptedRuns` |
| `typed_result` | all four channel flavours, 3 entries, 3 fetches | `StatusMatchesStore`, `NoArtifactOfFailedOperation`, `FdsClosed`, `ServedStaysAvailable` |
| `prompter` | 2 prompts, 2 ids and the empty id, 2 agents, one kind of prompt | `CancelledIsTruthful`, `CancelReachesWindow`, `RegistryIsWhatStands` (with one answer per window), `PredecessorsSwept` |
| `prompter_live` | 1 prompt of every kind and budget, 2 agents, 1 helper exit, old or current helper | `SecretIsClassified`, `ShownIsDismissible`, `EntryTimeKept`, `AbandonedWindowCloses`, `ImplementsPromptLife` |
| `pkcs11_client` | 1 thread, 1 reader, 2 card paths, 2 insertions, 1 crash | `KeptSnapshotIsCurrent`, `SettledIsThisCard`, `FinishedStillComing`, `SnapshotReturns`, `PresenceSurfaces` |
| `manager_object` | 2 calls on either interface, 4 clients with none, one, the other or both rights, 12 asks, 1 fault (crash, deletion or pulled card) | `ChangeNeedsRight`, `ReportIsBorneOut`, `AnswerFitsTheAsk`, `EveryCallIsAnsweredOnce` |
| `agent_service` | 2 workers, one of them stuck in any prompt it raises, 4 drain rounds, 2 changes of the session | `NothingReachesTheDead`, `DrainLeavesOnlyTheStuck`, `LeavingForgets`, `StopsAfterSignal` |

What the newer properties say:

* `KeptSnapshotIsCurrent`: once every signal is handled and no thread enumerates, a
  cache that is clean shows the readers as they are. `PresenceSurfaces`: once readers
  and cards stop changing, the cache shows them for good, if an agent runs; a client with
  a clean cache makes no call, so after a crash nobody need bring the agent back, and the
  last snapshot is served until something does.
* `SettledIsThisCard`: a card is never skipped because of a read of another card that
  had the same path. `FinishedStillComing`: whoever waits for `Finished` armed its
  handler in time. `SnapshotReturns`: no read is waited for beyond its budget.
* `FdsClosed`: for every kind of channel and at every step, what is open is what an owner
  still holds, or what one of three batch steps let go of; so a failed seal or publish
  closes everything, in a batch as well.
* `ChangeNeedsRight`: a setting, the anchors and their report change only in the body of a
  call whose own client has the right for that very key; a call told anything but *ok*
  changes nothing; the descriptor of a caller that was turned away is never read.
* `LeavingForgets`: what the core held when the session left is gone once the reports of
  that leaving are handled, also when the holder is back by then. What a quiesce that threw
  was to forget is excepted (the watch logs and drops it); what an operation in flight
  stores after the quiesce stays.
* `ReportIsBorneOut`: the recorded anchor state never claims anchors or a replay
  protection that the cache does not bear out, except for what a person deleted since
  the last start; a process that died inside an import leaves the report of the import
  before it.
* `AnswerFitsTheAsk`: the mechanism the card ran and the family of the key returned
  are the ones asked for, though two mechanisms share a token and the key is cached.
* `NothingReachesTheDead`: no thread reaches a destroyed member, whether it shares it
  (prompter, connection, poster) or borrows it (core, exporter), and a worker the drain
  released does not go on to the card. The config-changed callback finds the frontend it
  tested until the members are destroyed; what happens then is among the remarks below.
* `EntryTimeKept`: whichever way and however often the form is switched, a window is
  up for no longer than the longest budget it was given.

Why these bounds: the races are between two cards in one reader, two calls at one gate,
two windows at one registry, an agent and its successor, an import and a second call,
a drain and two workers; each of these occurs with the values above. The agent's 40
drain rounds are 4 here: a worker needs at most three steps to leave the gate, so
further rounds repeat the last (the proof asks for three). Two changes of the session let
it leave and come back, or leave in two ways, before the first report is handled. `prompter` has no helper exit, which
`prompter_live` covers with one prompt of every kind. One retry is enough to distinguish a retry
that is left from none. Three fetches and three callbacks allow a third party to
meet two others in the middle of their steps. Every safety property of the passing runs
is also proved (section 4), and there the bounds do not matter: they matter for the
liveness properties only.

Runs that show a disagreement between the code and what is written about it
(`findings` in `PROJECT.json` quotes both):

| Run | What it shows |
| --- | --- |
| `card_hold_after_removal` | `applyCardResolution` decides on the power hold from a roster snapshot. If the card is pulled and its hook runs before `setReaderHold(true)`, an empty reader stays powered: the hook that should release it has already run. |
| `granted_call_departed` | The caller is recorded for disconnect-cancel only when its operation is launched. A client that leaves during the polkit dialog has its departure handled first; a later grant launches an operation that no disconnect cancels. |
| `pkcs11_client_threads` | Two threads in `snapshot()`: the one that enumerated first may store last. Its older snapshot is then cached with the dirty flag clear, and a card that was inserted stays invisible until the next signal. |

#### Remarks

Further disagreements that no run states:

* In the batch channel an allocation failure between sealing a row and storing its fd
  leaks that fd (`TypedResultStore.cpp:113` and, in the re-seal, `:157`; the same for all
  rows when the signal's or the reply's `reserve` throws, `OperationAdaptorFactory.cpp`),
  although `TypedResultStore.h:213` says a failure "closes every fd already sealed THIS
  call" and `:228` "none leak". The model has these steps (`PushFails`, `EmitReserveThrows`,
  `GetResultRowThrows`); `FdsClosed` admits exactly what they let go of.
* `quiesce` does not clear the config store's on-changed callback, which captured the
  service (`AgentService.cpp:389`). A worker busy on the card outlives the drain, records
  LastTsaUrl ("the config write past the flow gate", `agent/tests/SignSeamWedgeDrainTest.cpp`)
  and runs it: it finds `m_frontend` set, the main thread destroys the frontend, the worker
  calls it; or the service is gone already when it looks. The comment at
  `AgentService.cpp:387` says "a stray callback during teardown is a no-op", which holds
  only until the members are destroyed. In the model `misfired` becomes true in these steps,
  and `NothingReachesTheDead` admits it from `destroy` on.
* `publicKey()` may store a key after `InterfacesRemoved` has cleared the cache, so that
  a removed card's key is served after all (`DBusAgentClient.cpp:142` says it must not
  be). The key is that of the certificate asked for all the same.
* `sealStoredResult` is `noexcept` and copies metadata outside its `try`, so that memory
  exhaustion there ends the process.
* `prompter/src/main.cpp:103` still says that the handlers use
  `BlockingQueuedConnection`; they post with `QueuedConnection`.

### Fairness, and why the code justifies it

* `CardPublication`: the monitor finishes an event and the loop thread a closure
  (weak). The poster drops nothing and keeps its order, so a waiting closure runs
  although others come in between (strong). A full worker queue drains, so a probe
  offered again and again is accepted in the end (strong).
* `GrantedCall`: polkit answers or the call's 90 s budget does; posted completions
  run while the loop runs; an entered destructor finishes; after the loop has
  stopped the teardown goes through. Nothing is assumed of clients or cards.
* `EventLoopPoster`: a thread inside `post()` writes the eventfd; the loop reacts
  to a readable eventfd and to an expired timer.
* `Prompter`: the helper's two loops run, its deadline timers fire, a blocked call
  ends with its budget. Nothing is assumed of the holder, of the operations, of a
  crash, or of the restart of an agent.
* `Pkcs11Client`: the client's event loop handles what has arrived, a bus call returns
  or throws, the wait for `Finished` ends with its budget, and the application keeps
  asking for its slots; a running agent announces what it shows (`PendingResolves` and
  `WithdrawnUnexports` of `CardPublication`). Nothing is assumed of the operations, nor
  that a crashed agent comes back: its unit has no `Restart=`, and only a client's call
  would activate it.
* `AgentService`: the main thread and the monitor's dispatch go on. Nothing is assumed
  of workers, of the helper, of the holder, or that a signal comes.

## 4. Proofs

All theorems are checked by TLAPS for every value of the constants. They rest on the
named assumptions of the component modules and on nothing else:

| Assumption | What it asks, and why the code justifies it |
| --- | --- |
| `ConstantsAssumption`, `CallAssumption`, `DelayedAssumption`, `KindsAssumption`, `PrompterAssumption`, `ClientAssumption` | sentinels differ from identities, subsets are subsets, bounds are numbers |
| `ServiceAssumption` | `Stuck` are workers; `MaxRounds >= 3`: the code drains for 40 rounds (`kMaxDrainIterations`) |
| `RequestAssumption` | a Config1 call names a key, known or not, and an import offers finitely many lists |
| `AskAssumption` | `decrypt()` is asked for the one mechanism its wrapper knows; no error is named like a success |
| one application thread | a hypothesis of `SnapshotOfOneThread` alone; without it the statement is false (`pkcs11_client_threads`) |

The inductive invariants were checked by TLC on small instances before they were
proved. Every safety property of a passing run is a theorem.

**CardPublicationProofs.** `OneResolveInFlight` and `TreeMatchesReaders` are not
inductive: whether a withdrawal leaves a resolve behind depends on what the monitor
still has to deliver, and whether the object lives on how many owners there are.
`IInv` adds `FreshInv` (an identity that is not minted is nowhere), `MonitorInv`
(which calls may be outstanding together, and about which card), `SeatInv` (how
presence, reader object and maps relate while an event is half delivered), `MapInv`
(pending, published and withdrawn exclude each other), `LoopInv` (what the loop
thread's program counter implies) and `OwnerInv` (the owner count is exact, and the
object is exported as long as it has owners). There is one lemma per action. From
`Invariance` follow `TypeCorrect`, `UniqueResolve`, `SharedOwnershipIsSafe` and
`TreeIsFaithful`; `Refinement` shows that every step is a `CardDirectory` step or a
stutter under `life <- Life`, `listed <- object`.

**GrantedCallProofs.** `TypeCorrect`, `GrantsRunOnLiveObjects` and
`RepliesAreTruthful`, from `CallInv` (a call's stage determines its replies, its
outcome and whether it was launched) and `GateInv` (who holds the gate's mutex, and
that a destroyed object's gate is closed).

**EventLoopPosterProofs.** `TypeCorrect` and `WakeupIsNeverLost`: the two together
are inductive, because a job enters the queue and `unwritten` in one critical
section and the eventfd is read before the queue is swapped. `OneFatePerCallback` and
`QueueIsFifo` need where every callback is: `PlaceInv` (queue, batch, timer, ran and
lost exclude each other and hold all that was handed over) and `OrderInv` (what ran,
the batch and the queue, in this order, follow the order of the posts).

**TypedResultProofs.** `StatusIsStore`, `FetchedMeansOk` and the action property
`FetchDoesNotEvict`, from `StoreInv` (what the worker's program counter says about
store, signal and status) and `FetchInv` (nobody was served while the store was not
ready). `NoFdIsLeaked` from `FdInv`: the open fds are those the locals of `emitResult` own and
those that were let go of, which happens only at the steps the property names.

**PrompterProofs.** The base is `OnceInv`: a prompt is in at most one place, a call on
the bus, a queued raise or a window (`TokenInv`); the registry is the standing windows,
distinct and unanswered (`StandInv`); only a window that was raised is told to reject
(`RejectInv`). `RegistryStands` and `TypeCorrect` follow. From there:

* `ShownCanBeDismissed` from `HelperInv`: a remembered verdict "usable", a queued request
  and a window all imply the current helper.
* `SecretsAreClassified` from `SecretInv`: an answer on its way already carries the word
  that fits the form its secret was entered on.
* `EntryTimeIsKept` from `ClockInv` (the budget in force is one of the two, and the timer
  is due when that budget ends) and `ExpiredInv` (what an expired window had spent).
* `CancelledIsTrue` from `CallerInv` (ids of one agent differ; who waits is of the running
  agent), `OrderInv` and `CancelInv` (every dismissal is of a prompt that was given up).
  `OrderInv` is the heart: on the bus and in the Qt queue a Reset is behind everything
  its predecessors sent and ahead of everything its own agent sends, so that a sweep
  meets only windows of agents that are gone.
* `PredecessorsAreSwept` and `CancelReaches` share one argument, `Due`: a standing window
  that must close is already told so or the job that will tell it is queued, and such a
  job is queued behind the job that is still to raise it. `DueStep` shows that no step
  loses it; `SweepInv` and `DismissInv` say for which windows it is due.
* `PromptLifeIsKept` is the refinement: under `life <- Lives`, `outcome <- Outcomes` every
  step is a `PromptLife` step or a stutter, with one lemma per visible step. It needs
  `OnceInv` (what is queued to be raised or refused has had nothing done about it) and
  `OutcomeInv`: a caller still in its call was told nothing, an answer only a window can
  give is on its way only after the window closed, and a prompt turned down for the
  helper's age is on no queue. The mapping (`LifeOf`) takes the window where there is
  one, and else tells *asked* from *refused* by whether the helper answered.

**Pkcs11ClientProofs.** `TypeCorrect` from `Shape` (types, which cards are seated and on
the bus, where a thread is). `FinishedComes`, for any number of threads, from
`ComingInv`: the handler is armed before the status is asked for. `SettledStaysTrue`,
for any number of threads, from `FreshInv`: what is settled, and what a thread whose
generation is current is about to settle, is of the card the path names now, or a
signal is on its way. `SnapshotOfOneThread` from `KeptInv`: between taking the flag
and storing, every slot of the snapshot holds, or will be asked for again, or the
cache is already stale.

**ManagerObjectProofs.** The action property `RightIsNeeded` from `ConfigInv` (what a call was let in with
stays with it; one body runs at a time). `ReportIsTrue` from `DiskInv`: how report and
cache relate when the last import was recorded, was torn by a crash, or lost files
since. `AnswersFit` and `CallsAreAnsweredOnce` from `CryptoInv`: per call, what the card
ran and which key it returned (`FitInv`), and how many replies were sent at each stage
(`CountInv`).

**AgentServiceProofs.** `TheDeadAreLeftAlone` and `DrainEmptiesTheGate` from `LifeInv`:
which members exist while somebody may call them (`PartsInv`), when the monitor may
deliver (`MonitorInv`), that the token stays cancelled (`TokenInv`), and how far from
the end of the gate a worker can still be after so many naps (`DrainInv`), which is
why three rounds are enough for any number of workers. `SlotInv` in it says that after the
first nap nobody is about to register, so that nobody borrows the exporter when it goes.
`Unharmed`, on top of it, is the callback's part: a worker on the card implies a monitor
that was started, and with it a frontend that stands until the members go.
`LeftIsForgotten` from `WatchInv` (types, and no watch before it is built) and `DueInv`:
whatever is due is called for by a signal on its way.

Only model-checked: all liveness (`PendingResolves`, `WithdrawnUnexports`,
`EveryCallAnswered`, `DestructorFinishes`, `AcceptedRuns`, `AbandonedWindowCloses`,
`SnapshotReturns`, `PresenceSurfaces`, `StopsAfterSignal`): temporal reasoning with
fairness and ENABLED is outside this prover.

## 5. Not modelled

* Sequential, pure or input/output code: path and plugin lookup, configuration
  file contents, the parsing of sign options, widgets, wire dictionaries, names,
  logging, localisation.
* The agent library itself, beyond the calls it makes and receives here.
* Lock order between `m_cardsMutex`, the bridge's mutex and the bus lock: the last is
  taken inside sdbus-c++. Each critical section is one action. The gate against the
  destructor is modelled.
* The progressive `Identity1.Group` signal: it shares no state with the result.
* `Operation1.Cancel`: an owner check and a call into the library.
* PID reuse by another program within the life of one lookup; `Authorized` lets a
  process that has died but is not reaped pass, and no other.
* In `Prompter`, a `Cancel` that is served before the `RequestSecret` it is meant for
  finds nothing, and `CancelReachesWindow` does not speak of it. `AgentService` has this
  case in its drain, where the next round makes up for it.
* What `AgentService` assumes about the core is listed above, as are the failures that
  `ManagerConfig` leaves out.

## 6. Plan

The models are complete in the sense of section 5, and every safety property a passing
run checks is proved. What is left:

1. An abstract specification of one callback of `EventLoopPoster`, and the module shown
   to implement it, as `Prompter` is for `PromptLife`; `FateInv` is the invariant that needs,
   and the refinement would say in one property what `RunAtMostOnce` and `RunsInOrder` say.
2. For several threads of `Pkcs11Client`, what a stored snapshot may lag behind, in place
   of `KeptSnapshotIsCurrent`, which is false there.
