--------------------------- MODULE CardPublication ---------------------------
(***************************************************************************)
(* The deferred publication of Card1 objects: agent/src/AgentFrontend.cpp  *)
(* over agent/src/BusExporter.cpp.                                         *)
(*                                                                         *)
(* Three kinds of threads meet here.  The MONITOR thread delivers presence *)
(* deltas (serialised by MonitorBridge's state mutex).  The per-reader     *)
(* WORKER probes a fresh card and posts what it learned.  The event LOOP   *)
(* thread creates and exports the Card1 object, and pushes CardType        *)
(* updates.  m_cardsMutex guards the two card maps only; every bus         *)
(* registration happens outside it, so each critical section below is one  *)
(* action and the threads interleave between them.                         *)
(*                                                                         *)
(* Closures on their way to a thread are counted per card, not ordered:    *)
(* no critical section depends on the order in which two cards' closures   *)
(* run, and EventLoopPoster's own order is the subject of another module.  *)
(***************************************************************************)
EXTENDS Naturals, FiniteSets

CONSTANTS
    Readers,     \* reader ObjectIds; the per-process counter mints each once
    Cards,       \* card ObjectIds; one per insertion, never reused
    NoReader,    \* readerOf value of an ObjectId that is not minted yet
    NoCard,      \* the "/" sentinel of Reader1.Card
    NoEntry,     \* a reader path that m_presence / m_readers does not hold
    Retries,     \* the policy's retry budget ("three repeats 50 ms apart")
    HookOrders   \* where MonitorBridge may run the key tracker: first, last

ASSUME ConstantsAssumption ==
    /\ NoReader \notin Readers
    /\ NoCard \notin Cards
    /\ NoEntry \notin Cards
    /\ NoCard # NoEntry
    /\ Retries \in Nat
    /\ HookOrders \subseteq {"first", "last"}

VARIABLES
    presence,    \* BusExporter::m_presence: reader -> card it holds
    readerObj,   \* m_readers: the exported Reader1 object's Card property
    known,       \* reader ids the presence model has minted
    readerOf,    \* card id -> the reader it was inserted in
    pending,     \* keys of m_pendingCards
    attempts,    \* PendingCard::attempts
    cards,       \* keys of m_cards
    refs,        \* shared_ptr<CardObject> owners of each card's object
    object,      \* life of each card's CardObject: none, exported, destroyed
    withdrawn,   \* cards withdrawObject has run for
    queued,      \* probes queued or running on a reader's worker
    posted,      \* applyCardResolution closures posted to the loop
    timers,      \* rescheduleCardResolve closures armed or being armed
    reading,     \* identity reads in flight that will report a card type
    typePosts,   \* applyCardTypeUpdate closures posted to the loop
    hold,        \* readers the operation scheduler keeps powered
    monTodo,     \* what the monitor still has to deliver of its event
    monReader,   \* ... the reader of that event
    monCard,     \* ... the card of that event
    monHook,     \* ... and where the key tracker runs in it
    loopPc,      \* where the loop thread stands in its current closure
    loopCard     \* ... and the card that closure is about

busVars  == <<presence, readerObj, known, readerOf>>
mapVars  == <<pending, attempts, cards, withdrawn>>
objVars  == <<refs, object>>
workVars == <<queued, posted, timers>>
typeVars == <<reading, typePosts>>
monVars  == <<monTodo, monReader, monCard, monHook>>
loopVars == <<loopPc, loopCard>>
vars == <<busVars, mapVars, objVars, workVars, typeVars, hold, monVars, loopVars>>

MonitorCalls ==
    {"publish", "schedule", "seat", "clear", "withdraw", "drop", "hook", "withdrawReader"}

LoopSteps ==
    {"idle", "construct", "commit", "drop", "roster", "hold", "requeue", "touch"}

\* Cards a client finds in the object tree.
OnBus == {c \in Cards : object[c] = "exported"}

Bump(f, c) == [f EXCEPT ![c] = @ + 1]
Take(f, c) == [f EXCEPT ![c] = @ - 1]

Init ==
    /\ presence = [r \in Readers |-> NoEntry]
    /\ readerObj = [r \in Readers |-> NoEntry]
    /\ known = {}
    /\ readerOf = [c \in Cards |-> NoReader]
    /\ pending = {}
    /\ attempts = [c \in Cards |-> 0]
    /\ cards = {}
    /\ withdrawn = {}
    /\ refs = [c \in Cards |-> 0]
    /\ object = [c \in Cards |-> "none"]
    /\ queued = [c \in Cards |-> 0]
    /\ posted = [c \in Cards |-> 0]
    /\ timers = [c \in Cards |-> 0]
    /\ reading = {}
    /\ typePosts = [c \in Cards |-> 0]
    /\ hold = {}
    /\ monTodo = {}
    /\ monReader = NoReader
    /\ monCard = NoCard
    /\ monHook = "last"
    /\ loopPc = "idle"
    /\ loopCard = NoCard

-----------------------------------------------------------------------------
(***************************************************************************)
(* MONITOR thread.  An event of the external presence model fixes the      *)
(* observer calls it will make; the calls are then delivered one by one.   *)
(* Which of the observers of one event fires first is the model's choice.  *)
(***************************************************************************)

\* ~CardObject runs in whichever thread drops the last owner.
DropShare(c) ==
    /\ refs' = Take(refs, c)
    /\ object' = IF refs[c] = 1 THEN [object EXCEPT ![c] = "destroyed"] ELSE object

\* PresenceModel::onReaderAdded -> publishReader -> materializeReader.
ReaderAdded(r) ==
    /\ monTodo = {}
    /\ r \notin known
    /\ known' = known \union {r}
    /\ presence' = [presence EXCEPT ![r] = NoCard]
    /\ readerObj' = [readerObj EXCEPT ![r] = NoCard]
    /\ UNCHANGED <<readerOf, mapVars, objVars, workVars, typeVars, hold, monVars, loopVars>>

\* PresenceModel::onCardInserted mints the card's id and fires two observers.
CardInserted(r, c) ==
    /\ monTodo = {}
    /\ presence[r] = NoCard
    /\ readerOf[c] = NoReader
    /\ readerOf' = [readerOf EXCEPT ![c] = r]
    /\ monTodo' = {"publish", "seat"}
    /\ monReader' = r
    /\ monCard' = c
    /\ UNCHANGED <<presence, readerObj, known, mapVars, objVars, workVars, typeVars,
                   hold, monHook, loopVars>>

\* PresenceModel::onCardRemoved and the key tracker's removal callback.
CardRemoved(r, order) ==
    /\ monTodo = {}
    /\ presence[r] \in Cards
    /\ monTodo' = {"clear", "withdraw", "hook"}
    /\ monReader' = r
    /\ monCard' = presence[r]
    /\ monHook' = order
    /\ UNCHANGED <<busVars, mapVars, objVars, workVars, typeVars, hold, loopVars>>

\* PresenceModel::onReaderRemoved drops a seated card, then the reader.
ReaderRemoved(r, order) ==
    /\ monTodo = {}
    /\ presence[r] # NoEntry
    /\ monTodo' = {"withdrawReader"} \union
                  (IF presence[r] \in Cards THEN {"clear", "withdraw", "hook"} ELSE {})
    /\ monReader' = r
    /\ monCard' = presence[r]
    /\ monHook' = order
    /\ UNCHANGED <<busVars, mapVars, objVars, workVars, typeVars, hold, loopVars>>

\* A call that is half-way through finishes before the next one starts, and
\* the key tracker runs where MonitorBridge puts it.
Deliverable(call) ==
    /\ call \in monTodo
    /\ call \notin {"schedule", "drop"} => monTodo \intersect {"schedule", "drop"} = {}
    /\ call = "hook" /\ monHook = "last" => monTodo \subseteq {"hook", "withdrawReader"}
    /\ call # "hook" /\ monHook = "first" => "hook" \notin monTodo
    /\ call = "withdrawReader" => monTodo = {"withdrawReader"}

Delivered(call) == monTodo' = monTodo \ {call}

\* updateProperties -> updateReaderProperties: the reader's HasCard/Card moves
\* in the snapshot and then on the live Reader1 object, where there are any.
UpdateProperties(call, card) ==
    /\ Deliverable(call)
    /\ Delivered(call)
    /\ presence' = [presence EXCEPT ![monReader] = IF @ = NoEntry THEN @ ELSE card]
    /\ readerObj' = [readerObj EXCEPT ![monReader] = IF @ = NoEntry THEN @ ELSE card]
    /\ UNCHANGED <<known, readerOf, mapVars, objVars, workVars, typeVars, hold,
                   monReader, monCard, monHook, loopVars>>

\* publishCard -> materializeCard: record the card as pending ...
MaterializeCard ==
    /\ Deliverable("publish")
    /\ monTodo' = (monTodo \ {"publish"}) \union {"schedule"}
    /\ pending' = pending \union {monCard}
    /\ attempts' = [attempts EXCEPT ![monCard] = 0]
    /\ UNCHANGED <<busVars, cards, withdrawn, objVars, workVars, typeVars, hold,
                   monReader, monCard, monHook, loopVars>>

\* MUTANT of ScheduleCardResolve: the early return after a queued probe is lost.
ScheduleWithoutReturn(c) ==
    /\ \/ queued' = Bump(queued, c)
       \/ UNCHANGED queued
    /\ timers' = Bump(timers, c)
    /\ UNCHANGED posted

\* MUTANT of ScheduleCardResolve: backpressure drops the resolve.
ScheduleDropsOnBackpressure(c) ==
    /\ \/ queued' = Bump(queued, c)
       \/ UNCHANGED queued
    /\ UNCHANGED <<timers, posted>>

\* scheduleCardResolve: a probe on the reader's worker or, when the worker's
\* queue is at its cap, another try after a delay.
ScheduleCardResolve(c) ==
    /\ \/ queued' = Bump(queued, c) /\ UNCHANGED timers
       \/ timers' = Bump(timers, c) /\ UNCHANGED queued
    /\ UNCHANGED posted

\* ... and schedule its first probe, outside m_cardsMutex.
MaterializeSchedule ==
    /\ Deliverable("schedule")
    /\ Delivered("schedule")
    /\ ScheduleCardResolve(monCard)
    /\ UNCHANGED <<busVars, mapVars, objVars, typeVars, hold,
                   monReader, monCard, monHook, loopVars>>

\* withdrawObject, card branch: forget the card under m_cardsMutex and move
\* the map's share (if the card was exported) into dyingCard ...
WithdrawCard ==
    /\ Deliverable("withdraw")
    /\ monTodo' = (monTodo \ {"withdraw"}) \union (IF monCard \in cards THEN {"drop"} ELSE {})
    /\ pending' = pending \ {monCard}
    /\ cards' = cards \ {monCard}
    /\ withdrawn' = withdrawn \union {monCard}
    /\ UNCHANGED <<busVars, attempts, objVars, workVars, typeVars, hold,
                   monReader, monCard, monHook, loopVars>>

\* ... and drop that share outside the lock.
WithdrawDrop ==
    /\ Deliverable("drop")
    /\ Delivered("drop")
    /\ DropShare(monCard)
    /\ UNCHANGED <<busVars, mapVars, workVars, typeVars, hold,
                   monReader, monCard, monHook, loopVars>>

\* withdrawObject, reader branch: removeReader drains the reader's worker (a
\* probe that is already running may still report) and ~ReaderObject unexports.
WithdrawReader ==
    /\ Deliverable("withdrawReader")
    /\ Delivered("withdrawReader")
    /\ presence' = [presence EXCEPT ![monReader] = NoEntry]
    /\ readerObj' = [readerObj EXCEPT ![monReader] = NoEntry]
    /\ \E drained \in SUBSET {c \in Cards : readerOf[c] = monReader} :
          queued' = [c \in Cards |-> IF c \in drained THEN 0 ELSE queued[c]]
    /\ hold' = hold \ {monReader}
    /\ UNCHANGED <<known, readerOf, mapVars, objVars, posted, timers, typeVars,
                   monReader, monCard, monHook, loopVars>>

\* AgentService's card-removed hook: caches, leases and the reader's session
\* are the core's; of the state here it releases the reader's power hold.
KeyRemovedHook ==
    /\ Deliverable("hook")
    /\ Delivered("hook")
    /\ hold' = hold \ {monReader}
    /\ UNCHANGED <<busVars, mapVars, objVars, workVars, typeVars,
                   monReader, monCard, monHook, loopVars>>

Monitor ==
    \/ \E r \in Readers : ReaderAdded(r)
    \/ \E r \in Readers, c \in Cards : CardInserted(r, c)
    \/ \E r \in Readers, order \in HookOrders : CardRemoved(r, order)
    \/ \E r \in Readers, order \in HookOrders : ReaderRemoved(r, order)

MonitorStep ==
    \/ UpdateProperties("seat", monCard)
    \/ UpdateProperties("clear", NoCard)
    \/ MaterializeCard
    \/ MaterializeSchedule
    \/ WithdrawCard
    \/ WithdrawDrop
    \/ WithdrawReader
    \/ KeyRemovedHook

-----------------------------------------------------------------------------
(***************************************************************************)
(* WORKER threads and bus clients.                                         *)
(***************************************************************************)

\* probeOnWorker's continuation: the probe ran, its result is posted.
ProbeOnWorker(c) ==
    /\ queued[c] > 0
    /\ queued' = Take(queued, c)
    /\ posted' = Bump(posted, c)
    /\ UNCHANGED <<busVars, mapVars, objVars, timers, typeVars, hold, monVars, loopVars>>

\* A client launches ReadIdentity/GetPhoto on the exported object.  One read
\* per card at a time bounds the model; reads outlive the card's withdrawal.
LaunchRead(c) ==
    /\ c \in OnBus
    /\ c \notin reading
    /\ typePosts[c] = 0
    /\ reading' = reading \union {c}
    /\ UNCHANGED <<busVars, mapVars, objVars, workVars, typePosts, hold, monVars, loopVars>>

\* makeCardTypeResolvedCallback's closure fires on the worker and posts.
CardTypeResolved(c) ==
    /\ c \in reading
    /\ reading' = reading \ {c}
    /\ typePosts' = Bump(typePosts, c)
    /\ UNCHANGED <<busVars, mapVars, objVars, workVars, hold, monVars, loopVars>>

-----------------------------------------------------------------------------
(***************************************************************************)
(* Event LOOP thread.                                                      *)
(***************************************************************************)

LoopGoto(pc, c) == loopPc' = pc /\ loopCard' = c
LoopIdle == LoopGoto("idle", NoCard)

\* applyCardResolution, first critical section: drop, retry or claim.
ApplyCardResolution(c, opened) ==
    /\ loopPc = "idle"
    /\ posted[c] > 0
    /\ posted' = Take(posted, c)
    /\ \/ /\ c \notin pending                              \* Drop
          /\ LoopIdle
          /\ UNCHANGED <<attempts, timers>>
       \/ /\ c \in pending /\ ~opened /\ attempts[c] < Retries   \* Retry
          /\ attempts' = Bump(attempts, c)
          /\ timers' = Bump(timers, c)
          /\ LoopIdle
       \/ /\ c \in pending /\ (opened \/ attempts[c] >= Retries)  \* Claim
          /\ LoopGoto("construct", c)
          /\ UNCHANGED <<attempts, timers>>
    /\ UNCHANGED <<busVars, pending, cards, withdrawn, objVars, queued, typeVars, hold, monVars>>

\* make_shared<CardObject>: registers on the bus and announces the object.
ConstructCard ==
    /\ loopPc = "construct"
    /\ refs' = Bump(refs, loopCard)
    /\ object' = [object EXCEPT ![loopCard] = "exported"]
    /\ LoopGoto("commit", loopCard)
    /\ UNCHANGED <<busVars, mapVars, workVars, typeVars, hold, monVars>>

\* MUTANT of CommitCard: publishes without looking at m_pendingCards again.
CommitUnchecked ==
    /\ loopPc = "commit"
    /\ pending' = pending \ {loopCard}
    /\ cards' = cards \union {loopCard}
    /\ LoopGoto("roster", loopCard)
    /\ UNCHANGED <<busVars, attempts, withdrawn, objVars, workVars, typeVars, hold, monVars>>

\* applyCardResolution, second critical section: still wanted?
CommitCard ==
    /\ loopPc = "commit"
    /\ IF loopCard \in pending
       THEN /\ pending' = pending \ {loopCard}
            /\ cards' = cards \union {loopCard}
            /\ LoopGoto("roster", loopCard)
       ELSE /\ UNCHANGED <<pending, cards>>
            /\ LoopGoto("drop", loopCard)
    /\ UNCHANGED <<busVars, attempts, withdrawn, objVars, workVars, typeVars, hold, monVars>>

\* MUTANT of LoopDrop: the share is never released.
LoopDropLeaks ==
    /\ loopPc = "drop"
    /\ LoopIdle
    /\ UNCHANGED <<busVars, mapVars, objVars, workVars, typeVars, hold, monVars>>

\* Off-lock teardown of a card withdrawn while it was built, or the end of
\* applyCardTypeUpdate's co-ownership.
LoopDrop ==
    /\ loopPc = "drop"
    /\ DropShare(loopCard)
    /\ LoopIdle
    /\ UNCHANGED <<busVars, mapVars, workVars, typeVars, hold, monVars>>

\* CardResolutionPolicy::holdsReader over one presenceRoster() snapshot: a
\* card the roster no longer lists is never held.
HoldVerdict(held) ==
    /\ loopPc = "roster"
    /\ IF held /\ \E r \in Readers : presence[r] = loopCard
       THEN LoopGoto("hold", loopCard)
       ELSE LoopIdle
    /\ UNCHANGED <<busVars, mapVars, objVars, workVars, typeVars, hold, monVars>>

\* operationManager().setReaderHold(reader, true).
SetReaderHold ==
    /\ loopPc = "hold"
    /\ hold' = hold \union {readerOf[loopCard]}
    /\ LoopIdle
    /\ UNCHANGED <<busVars, mapVars, objVars, workVars, typeVars, monVars>>

\* rescheduleCardResolve's closure: probe again only while still pending ...
RetryFired(c) ==
    /\ loopPc = "idle"
    /\ timers[c] > 0
    /\ timers' = Take(timers, c)
    /\ IF c \in pending THEN LoopGoto("requeue", c) ELSE LoopIdle
    /\ UNCHANGED <<busVars, mapVars, objVars, queued, posted, typeVars, hold, monVars>>

\* ... and the lock is released before the probe is queued again.
RetrySchedule ==
    /\ loopPc = "requeue"
    /\ ScheduleCardResolve(loopCard)
    /\ LoopIdle
    /\ UNCHANGED <<busVars, mapVars, objVars, typeVars, hold, monVars>>

\* MUTANT of ApplyCardTypeUpdate: keeps a raw pointer across the unlock (the
\* shape the comment in the source calls the former one).
ApplyThroughRawPointer(c) ==
    /\ loopPc = "idle"
    /\ typePosts[c] > 0
    /\ typePosts' = Take(typePosts, c)
    /\ IF c \in cards THEN LoopGoto("touch", c) ELSE LoopIdle
    /\ UNCHANGED <<busVars, mapVars, objVars, workVars, reading, hold, monVars>>

\* applyCardTypeUpdate: look the card up and co-own it under m_cardsMutex ...
ApplyCardTypeUpdate(c) ==
    /\ loopPc = "idle"
    /\ typePosts[c] > 0
    /\ typePosts' = Take(typePosts, c)
    /\ IF c \in cards
       THEN refs' = Bump(refs, c) /\ LoopGoto("touch", c)
       ELSE UNCHANGED refs /\ LoopIdle
    /\ UNCHANGED <<busVars, mapVars, object, workVars, reading, hold, monVars>>

\* ... then emit PropertiesChanged through the share, outside the lock.
UpdateCardType ==
    /\ loopPc = "touch"
    /\ LoopGoto("drop", loopCard)
    /\ UNCHANGED <<busVars, mapVars, objVars, workVars, typeVars, hold, monVars>>

LoopStep ==
    \/ ConstructCard
    \/ CommitCard
    \/ LoopDrop
    \/ \E held \in BOOLEAN : HoldVerdict(held)
    \/ SetReaderHold
    \/ RetrySchedule
    \/ UpdateCardType

Next ==
    \/ Monitor
    \/ MonitorStep
    \/ \E c \in Cards :
          \/ ProbeOnWorker(c)
          \/ LaunchRead(c)
          \/ CardTypeResolved(c)
          \/ \E opened \in BOOLEAN : ApplyCardResolution(c, opened)
          \/ RetryFired(c)
          \/ ApplyCardTypeUpdate(c)
    \/ LoopStep

Spec == Init /\ [][Next]_vars

-----------------------------------------------------------------------------
(***************************************************************************)
(* FAIRNESS.  The monitor finishes the event it is delivering and the loop *)
(* thread finishes the closure it is running.  A queued probe ends.  The   *)
(* poster drops nothing and runs its queue in order, so a closure that     *)
(* waits is run although other closures keep the loop busy in between: the *)
(* strong fairness below.  A worker whose queue is full drains, so a probe *)
(* offered again and again is accepted in the end.                         *)
(***************************************************************************)
ProbeAccepted == RetrySchedule /\ queued' # queued

Fairness ==
    /\ WF_vars(MonitorStep)
    /\ WF_vars(LoopStep)
    /\ SF_vars(ProbeAccepted)
    /\ \A c \in Cards :
          /\ WF_vars(ProbeOnWorker(c))
          /\ SF_vars(\E opened \in BOOLEAN : ApplyCardResolution(c, opened))
          /\ SF_vars(RetryFired(c))

FairSpec == Spec /\ Fairness

-----------------------------------------------------------------------------
(***************************************************************************)
(* PROPERTIES.                                                             *)
(***************************************************************************)

\* Every variable stays in its range; in particular no owner count, closure
\* count or retry count is ever taken below zero.
TypeOK ==
    /\ presence \in [Readers -> Cards \union {NoCard, NoEntry}]
    /\ readerObj \in [Readers -> Cards \union {NoCard, NoEntry}]
    /\ known \subseteq Readers
    /\ readerOf \in [Cards -> Readers \union {NoReader}]
    /\ pending \subseteq Cards
    /\ attempts \in [Cards -> 0..Retries]
    /\ cards \subseteq Cards
    /\ withdrawn \subseteq Cards
    /\ refs \in [Cards -> Nat]
    /\ object \in [Cards -> {"none", "exported", "destroyed"}]
    /\ queued \in [Cards -> Nat]
    /\ posted \in [Cards -> Nat]
    /\ timers \in [Cards -> Nat]
    /\ reading \subseteq Cards
    /\ typePosts \in [Cards -> Nat]
    /\ hold \subseteq Readers
    /\ monTodo \subseteq MonitorCalls
    /\ monReader \in Readers \union {NoReader}
    /\ monCard \in Cards \union {NoCard, NoEntry}
    /\ monHook \in {"first", "last"}
    /\ loopPc \in LoopSteps
    /\ loopCard \in Cards \union {NoCard}

One(b) == IF b THEN 1 ELSE 0

\* The resolve of a card, wherever it currently is.
ResolvesInFlight(c) ==
    queued[c] + posted[c] + timers[c]
      + One(loopPc \in {"construct", "commit", "requeue"} /\ loopCard = c)
      + One("schedule" \in monTodo /\ monCard = c)

\* The owners of a card's CardObject: the map, a withdrawal that has not
\* dropped its share yet, and the closure the loop thread is running.
Owners(c) ==
    One(c \in cards)
      + One("drop" \in monTodo /\ monCard = c)
      + One(loopPc \in {"commit", "drop", "touch"} /\ loopCard = c)

\* "At most one resolve is ever in flight per card, so there is no competing
\* claim here" (applyCardResolution), over retries, backpressure and removals;
\* and a pending card never loses its resolve, so it cannot hang unpublished.
OneResolveInFlight ==
    \A c \in Cards :
        /\ ResolvesInFlight(c) <= 1
        /\ c \in pending => ResolvesInFlight(c) = 1
        /\ c \in cards => ResolvesInFlight(c) = 0

\* The loop thread only ever emits through, publishes or drops a CardObject
\* that is alive, whatever the monitor withdraws between its two locks.
NoUseAfterFree ==
    loopPc \in {"commit", "touch", "drop"} =>
        object[loopCard] = "exported" /\ refs[loopCard] > 0

\* Between two events the tree a client sees is the readers' contents: every
\* pending or published card is the one its reader's Card property names, every
\* card so named is pending or published, and with the loop thread idle the
\* exported Card1 objects are exactly the published cards.
TreeMatchesReaders ==
    monTodo = {} =>
        /\ readerObj = presence
        /\ \A c \in pending \union cards : presence[readerOf[c]] = c
        /\ \A r \in Readers : presence[r] \in Cards => presence[r] \in pending \union cards
        /\ loopPc = "idle" => OnBus = cards

\* A card taken in is published or withdrawn in the end, through lost opens
\* and a full worker queue ("eventually published and never silently dropped").
PendingResolves == \A c \in Cards : (c \in pending) ~> (c \in cards \union withdrawn)

\* A withdrawn card leaves the object tree and stays out of it, even when its
\* object was still being built, or was co-owned by a CardType update.
WithdrawnUnexports == \A c \in Cards : (c \in withdrawn) ~> [](c \notin OnBus)

\* Where the agent stands with each card, read off its two maps.
Life ==
    [c \in Cards |-> IF c \in cards THEN "published"
                     ELSE IF c \in pending THEN "resolving"
                     ELSE IF c \in withdrawn THEN "withdrawn"
                     ELSE "unknown"]

Directory == INSTANCE CardDirectory WITH life <- Life, listed <- object

\* The threads together implement that promise: one announcement and one
\* removal per card, no publication after a withdrawal, no re-publication.
ImplementsDirectory == Directory!Spec

\* AgentFrontend.cpp on the power hold: "Released by AgentService's card-removed
\* hook".  Between two events, a held reader therefore has a card in it.
HoldReleased ==
    monTodo = {} /\ loopPc = "idle" => \A r \in hold : presence[r] \in Cards

=============================================================================
