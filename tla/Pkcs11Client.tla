---------------------------- MODULE Pkcs11Client ----------------------------
(***************************************************************************)
(* The PKCS#11 module's view of the agent: DBusAgentClient::snapshot() in  *)
(* pkcs11-module/src/DBusAgentClient.cpp and the certificate read it does  *)
(* for every card, pkcs11-module/src/CertificateRead.h.                    *)
(*                                                                         *)
(* Application threads call snapshot(); the client's own event-loop thread *)
(* runs the ObjectManager and the Finished signal handlers.  A method      *)
(* reply is consumed by the calling thread, a signal by the event-loop     *)
(* thread some time after it was sent, so the two are not ordered.  The    *)
(* agent is the other process: it seats and publishes cards, ends          *)
(* operations, evicts them, and may crash and be started again, and then   *)
(* mints the same object paths for other cards.                            *)
(***************************************************************************)
EXTENDS Naturals

CONSTANTS
    Threads,     \* application threads inside the PKCS#11 module
    Readers,     \* Reader1 object paths
    Cards,       \* Card1 object paths; each process of the agent mints one once
    NoCard,      \* Reader1.Card of an empty reader
    NoReader,    \* the thread is not at a reader
    MaxCrashes,  \* bound on agent crashes
    MaxInserts   \* bound on card insertions

ASSUME ClientAssumption ==
    /\ NoCard \notin Cards /\ NoReader \notin Readers
    /\ MaxCrashes \in Nat /\ MaxInserts \in Nat

VARIABLES
    \* the agent
    up, crashes, inserts,
    seat,        \* Reader1.Card of each reader
    onBus,       \* cards whose Card1 object is exported
    minted,      \* card paths this agent process has used
    life,        \* how many cards a path has named so far: which card it names
    signals,     \* InterfacesAdded and InterfacesRemoved signals on their way here
    op,          \* per thread, the read operation the agent runs for it
    finished,    \* per thread, its Finished signal: none, flying, handled
    \* DBusAgentClient::Impl
    dirty, cached, settled,
    outdated,    \* threads whose readGeneration is no longer the generation
    handler,     \* the event-loop thread inside an ObjectManager handler
    \* one snapshot() call per thread
    pc, todo, at, snap, complete, armed, read

agentVars  == <<up, crashes, inserts, seat, onBus, minted, life, signals>>
opVars     == <<op, finished>>
implVars   == <<dirty, cached, settled, outdated, handler>>
threadVars == <<pc, todo, at, snap, complete, armed, read>>
vars == <<agentVars, opVars, implVars, threadVars>>

\* What a snapshot holds of a reader: the card it names, and which card that was.
Slot(c) == [card |-> c, life |-> IF c = NoCard THEN 0 ELSE life[c]]
NoSlot == [card |-> NoCard, life |-> 0]
EmptySnapshot == [r \in Readers |-> NoSlot]
Lives == 0..(MaxCrashes + 1)

\* How an operation ends, by what settled() makes of it: Ok; Refused is Cancelled
\* or an error the card or its holder gave; OnTheWay is CardRemoved,
\* CommunicationError, WatchdogTimeout or RateLimited.
Ends == {"Ok", "Refused", "OnTheWay"}
NoOp == [state |-> "none", life |-> 0, end |-> "none"]

\* What a CertificateRead knows: which card's read it was, and how it ended.
NoRead == [life |-> 0, end |-> "none"]

Steps == {"idle", "generation", "tree", "reader", "call", "arm", "completed", "status",
          "wait", "result", "settle", "store", "mark"}

Init ==
    /\ up = TRUE /\ crashes = 0 /\ inserts = 0
    /\ seat = [r \in Readers |-> NoCard]
    /\ onBus = {} /\ minted = {}
    /\ life = [c \in Cards |-> 0]
    /\ signals = 0
    /\ op = [t \in Threads |-> NoOp]
    /\ finished = [t \in Threads |-> "none"]
    /\ dirty = TRUE /\ cached = EmptySnapshot
    /\ settled = {} /\ outdated = Threads /\ handler = "idle"
    /\ pc = [t \in Threads |-> "idle"]
    /\ todo = [t \in Threads |-> {}]
    /\ at = [t \in Threads |-> NoReader]
    /\ snap = [t \in Threads |-> EmptySnapshot]
    /\ complete = [t \in Threads |-> FALSE]
    /\ armed = {}
    /\ read = [t \in Threads |-> NoRead]

-----------------------------------------------------------------------------
(***************************************************************************)
(* THE AGENT, as CardPublication and TypedResult describe it.              *)
(***************************************************************************)

\* A card is inserted: Reader1.Card changes, which is no ObjectManager signal.
Seat(r, c) ==
    /\ up /\ seat[r] = NoCard
    /\ c \notin minted /\ inserts < MaxInserts
    /\ inserts' = inserts + 1
    /\ minted' = minted \cup {c}
    /\ life' = [life EXCEPT ![c] = @ + 1]
    /\ seat' = [seat EXCEPT ![r] = c]
    /\ UNCHANGED <<up, crashes, onBus, signals, opVars, implVars, threadVars>>

\* The probed card's object is exported and announced.
Publish(r) ==
    /\ up /\ seat[r] # NoCard /\ seat[r] \notin onBus
    /\ onBus' = onBus \cup {seat[r]}
    /\ signals' = signals + 1
    /\ UNCHANGED <<up, crashes, inserts, seat, minted, life, opVars, implVars, threadVars>>

\* The card is pulled: its reader is cleared; an exported object is still there.
Clear(r) ==
    /\ up /\ seat[r] # NoCard
    /\ seat' = [seat EXCEPT ![r] = NoCard]
    /\ UNCHANGED <<up, crashes, inserts, onBus, minted, life, signals, opVars, implVars, threadVars>>

\* ... and the object of a card no reader holds is withdrawn and announced.
Withdraw(c) ==
    /\ up /\ c \in onBus /\ \A r \in Readers : seat[r] # c
    /\ onBus' = onBus \ {c}
    /\ signals' = signals + 1
    /\ UNCHANGED <<up, crashes, inserts, seat, minted, life, opVars, implVars, threadVars>>

\* The operation marks itself complete, with its terminal status ...
Complete(t) ==
    /\ up /\ op[t].state = "running"
    /\ \E end \in Ends : op' = [op EXCEPT ![t] = [@ EXCEPT !.state = "completed", !.end = end]]
    /\ UNCHANGED <<agentVars, finished, implVars, threadVars>>

\* ... and then emits Finished, which reaches the handlers armed by then.
EmitFinished(t) ==
    /\ up /\ op[t].state = "completed"
    /\ op' = [op EXCEPT ![t].state = "finished"]
    /\ finished' = [finished EXCEPT ![t] = IF t \in armed THEN "flying" ELSE "none"]
    /\ UNCHANGED <<agentVars, implVars, threadVars>>

\* The finished operation leaves the bus (retention).
Evict(t) ==
    /\ up /\ op[t].state = "finished"
    /\ op' = [op EXCEPT ![t].state = "gone"]
    /\ UNCHANGED <<agentVars, finished, implVars, threadVars>>

\* The agent's process dies: no ObjectManager signal says so.
Crash ==
    /\ up /\ crashes < MaxCrashes
    /\ up' = FALSE /\ crashes' = crashes + 1
    /\ seat' = [r \in Readers |-> NoCard]
    /\ onBus' = {} /\ minted' = {}
    /\ op' = [t \in Threads |-> [op[t] EXCEPT !.state = IF @ = "none" THEN @ ELSE "gone"]]
    /\ UNCHANGED <<inserts, life, signals, finished, implVars, threadVars>>

\* It is started again and announces its readers, which are still plugged in.
Restart ==
    /\ ~up
    /\ up' = TRUE
    /\ signals' = signals + 1
    /\ UNCHANGED <<crashes, inserts, seat, onBus, minted, life, opVars, implVars, threadVars>>

-----------------------------------------------------------------------------
(***************************************************************************)
(* The client's EVENT-LOOP thread.                                         *)
(***************************************************************************)

\* forgetSettled: one critical section of settledMtx.
ForgetSettled ==
    /\ settled' = {}
    /\ outdated' = Threads

\* The InterfacesAdded and InterfacesRemoved handlers: first this ...
HandleSignal ==
    /\ handler = "idle" /\ signals > 0
    /\ signals' = signals - 1
    /\ handler' = "marking"
    /\ ForgetSettled
    /\ UNCHANGED <<up, crashes, inserts, seat, onBus, minted, life, opVars,
                   dirty, cached, threadVars>>

\* ... then dirty; the second one also empties the key cache (see Pkcs11Call).
MarkDirty ==
    /\ handler = "marking"
    /\ handler' = "idle"
    /\ dirty' = TRUE
    /\ UNCHANGED <<agentVars, opVars, cached, settled, outdated, threadVars>>

\* The Finished handler readCertificates() armed.
HandleFinished(t) ==
    /\ finished[t] = "flying"
    /\ finished' = [finished EXCEPT ![t] = IF t \in armed THEN "handled" ELSE "none"]
    /\ UNCHANGED <<agentVars, op, implVars, threadVars>>

-----------------------------------------------------------------------------
(***************************************************************************)
(* snapshot() on an APPLICATION thread.                                    *)
(***************************************************************************)
Goto(t, step) == pc' = [pc EXCEPT ![t] = step]

\* dirty.exchange(false) found it dirty: enumerate.  A clean cache is served as it
\* is, which changes nothing.
BeginSnapshot(t) ==
    /\ pc[t] = "idle" /\ dirty
    /\ dirty' = FALSE
    /\ Goto(t, "generation")
    /\ UNCHANGED <<agentVars, opVars, cached, settled, outdated, handler,
                   todo, at, snap, complete, armed, read>>

\* enumerate(): the generation is taken before the tree is asked for.
CaptureGeneration(t) ==
    /\ pc[t] = "generation"
    /\ outdated' = outdated \ {t}
    /\ Goto(t, "tree")
    /\ UNCHANGED <<agentVars, opVars, dirty, cached, settled, handler, todo, at, snap, complete, armed, read>>

\* GetManagedObjects: a slot per reader, or an empty incomplete snapshot.
GetManagedObjects(t) ==
    /\ pc[t] = "tree"
    /\ IF up
       THEN LET tree == [r \in Readers |-> Slot(seat[r])]
            IN /\ snap' = [snap EXCEPT ![t] = tree]
               /\ todo' = [todo EXCEPT ![t] = {r \in Readers : seat[r] # NoCard}]
               /\ complete' = [complete EXCEPT ![t] = TRUE]
               /\ Goto(t, "reader")
       ELSE /\ snap' = [snap EXCEPT ![t] = EmptySnapshot]
            /\ todo' = [todo EXCEPT ![t] = {}]
            /\ complete' = [complete EXCEPT ![t] = FALSE]
            /\ Goto(t, "store")
    /\ UNCHANGED <<agentVars, opVars, implVars, at, armed, read>>

\* The next reader with a card: settled before (and settled again), or to be read.
NextReader(t) ==
    /\ pc[t] = "reader"
    /\ \/ /\ todo[t] = {}
          /\ Goto(t, "store")
          /\ UNCHANGED <<todo, at, read>>
       \/ \E r \in todo[t] :
             /\ todo' = [todo EXCEPT ![t] = @ \ {r}]
             /\ at' = [at EXCEPT ![t] = r]
             /\ LET before == {s \in settled : s.card = snap[t][r].card}
                IN IF before = {}
                   THEN /\ read' = [read EXCEPT ![t] = NoRead]
                        /\ Goto(t, "call")
                   ELSE /\ read' = [read EXCEPT ![t] = [NoRead EXCEPT !.life = (CHOOSE s \in before : TRUE).life]]
                        /\ Goto(t, "settle")
    /\ UNCHANGED <<agentVars, opVars, implVars, snap, complete, armed>>

\* The read ended for this thread, its proxy and its handler are gone: the
\* certificates were read, the card is settled, or it is asked again next time.
EndRead(t, outcome) ==
    /\ armed' = armed \ {t}
    /\ op' = [op EXCEPT ![t] = NoOp]
    /\ finished' = [finished EXCEPT ![t] = "none"]
    /\ complete' = [complete EXCEPT ![t] = @ /\ outcome # "AskAgain"]
    /\ Goto(t, IF outcome = "Settled" THEN "settle" ELSE "reader")

\* Card1.ReadCertificates: the path of a new operation, the refusal
\* UnsupportedOnThisCard, which settles, or any other error, which does not.
CallReadCertificates(t) ==
    /\ pc[t] = "call"
    /\ LET c == snap[t][at[t]].card
       IN \/ /\ up /\ c \in onBus
             /\ op' = [op EXCEPT ![t] = [state |-> "running", life |-> life[c], end |-> "none"]]
             /\ Goto(t, "arm")
             /\ UNCHANGED <<finished, complete, armed, read>>
          \/ /\ up /\ c \in onBus
             /\ read' = [read EXCEPT ![t].life = life[c]]
             /\ EndRead(t, "Settled")
          \/ EndRead(t, "AskAgain") /\ UNCHANGED read
    /\ UNCHANGED <<agentVars, implVars, todo, at, snap>>

\* MUTANT of Arm: Completed is read before the handler is armed.
ArmAfterCompleted(t) ==
    /\ \/ /\ pc[t] = "arm" /\ op[t].state # "gone"
          /\ Goto(t, IF op[t].state = "running" THEN "armLate" ELSE "status")
          /\ UNCHANGED armed
       \/ /\ pc[t] = "armLate"
          /\ armed' = armed \cup {t}
          /\ Goto(t, "wait")
    /\ UNCHANGED <<agentVars, opVars, implVars, todo, at,
                   snap, complete, read>>

\* uponSignal("Finished"): the handler is armed first ...
Arm(t) ==
    /\ pc[t] = "arm"
    /\ armed' = armed \cup {t}
    /\ Goto(t, "completed")
    /\ UNCHANGED <<agentVars, opVars, implVars, todo, at,
                   snap, complete, read>>

\* ... and then the Completed property is read.
GetCompleted(t) ==
    /\ pc[t] = "completed" /\ op[t].state # "gone"
    /\ Goto(t, IF op[t].state = "running" THEN "wait" ELSE "status")
    /\ UNCHANGED <<agentVars, opVars, implVars, todo, at,
                   snap, complete, armed, read>>

\* Whether asking again would end the same way: CertificateRead::settled().
Settles(end) == end # "OnTheWay"

\* The read's status is known: an Ok read goes on to its result.
TakeStatus(t) ==
    /\ read' = [read EXCEPT ![t] = [life |-> op[t].life, end |-> op[t].end]]
    /\ IF op[t].end = "Ok"
       THEN Goto(t, "result") /\ UNCHANGED <<op, finished, complete, armed>>
       ELSE EndRead(t, IF Settles(op[t].end) THEN "Settled" ELSE "AskAgain")
    /\ UNCHANGED <<agentVars, implVars, todo, at, snap>>

\* The Status and ErrorCode properties of an operation found complete.
GetStatus(t) == pc[t] = "status" /\ op[t].state # "gone" /\ TakeStatus(t)

\* The handler woke the waiting thread.
WakeUp(t) == pc[t] = "wait" /\ finished[t] = "handled" /\ TakeStatus(t)

\* MUTANT of TimeOut: a read is waited for without a budget.
WaitForEver(t) ==
    /\ pc[t] = "wait" /\ FALSE
    /\ UNCHANGED vars

\* The budget passed: Operation1.Cancel without a reply, and ask again next time.
TimeOut(t) ==
    /\ pc[t] = "wait" /\ finished[t] # "handled"
    /\ EndRead(t, "AskAgain")
    /\ UNCHANGED <<agentVars, implVars, todo, at, snap, read>>

\* Certificates1.GetResult.
GetResult(t) ==
    /\ pc[t] = "result" /\ op[t].state # "gone"
    /\ EndRead(t, "Read")
    /\ UNCHANGED <<agentVars, implVars, todo, at, snap, read>>

\* A call on an operation that is gone throws out of readCertificates().
CallThrows(t) ==
    /\ pc[t] \in {"completed", "status", "result"} /\ op[t].state = "gone"
    /\ EndRead(t, "AskAgain")
    /\ UNCHANGED <<agentVars, implVars, todo, at, snap, read>>

\* MUTANT of Settle: the card is recorded whatever happened since.
SettleAnyway(t) ==
    /\ pc[t] = "settle"
    /\ settled' = settled \cup {[card |-> snap[t][at[t]].card, life |-> read[t].life]}
    /\ Goto(t, "reader")
    /\ UNCHANGED <<agentVars, opVars, dirty, cached, outdated, handler,
                   todo, at, snap, complete, armed, read>>

\* settle(): recorded only if no ObjectManager signal came since enumerate() began.
Settle(t) ==
    /\ pc[t] = "settle"
    /\ settled' = IF t \notin outdated
                  THEN settled \cup {[card |-> snap[t][at[t]].card, life |-> read[t].life]}
                  ELSE settled
    /\ Goto(t, "reader")
    /\ UNCHANGED <<agentVars, opVars, dirty, cached, outdated, handler,
                   todo, at, snap, complete, armed, read>>

\* The snapshot replaces the cached one, under cacheMtx.
StoreSnapshot(t) ==
    /\ pc[t] = "store"
    /\ cached' = snap[t]
    /\ Goto(t, "mark")
    /\ UNCHANGED <<agentVars, opVars, dirty, settled, outdated, handler,
                   todo, at, snap, complete, armed, read>>

\* MUTANT of KeepOrMark: an incomplete snapshot is kept.
KeepAnyway(t) ==
    /\ pc[t] = "mark"
    /\ Goto(t, "idle")
    /\ UNCHANGED <<agentVars, opVars, implVars, todo, at, snap,
                   complete, armed, read>>

\* MUTANT of KeepOrMark: dirty is assigned, and a signal meanwhile forgotten.
KeepOrMarkOverwrites(t) ==
    /\ pc[t] = "mark"
    /\ dirty' = ~complete[t]
    /\ Goto(t, "idle")
    /\ UNCHANGED <<agentVars, opVars, cached, settled, outdated, handler, todo, at, snap,
                   complete, armed, read>>

\* An incomplete one is asked for again next time; snapshot() returns.
KeepOrMark(t) ==
    /\ pc[t] = "mark"
    /\ dirty' = (dirty \/ ~complete[t])
    /\ Goto(t, "idle")
    /\ snap' = [snap EXCEPT ![t] = EmptySnapshot]
    /\ at' = [at EXCEPT ![t] = NoReader]
    /\ read' = [read EXCEPT ![t] = NoRead]
    /\ outdated' = outdated \cup {t}
    /\ complete' = [complete EXCEPT ![t] = FALSE]
    /\ UNCHANGED <<agentVars, opVars, cached, settled, handler, todo, armed>>

-----------------------------------------------------------------------------
Agent ==
    \/ \E r \in Readers : (\E c \in Cards : Seat(r, c)) \/ Publish(r) \/ Clear(r)
    \/ \E c \in Cards : Withdraw(c)
    \/ \E t \in Threads : Complete(t) \/ EmitFinished(t) \/ Evict(t)
    \/ Crash \/ Restart

EventLoop == HandleSignal \/ MarkDirty \/ \E t \in Threads : HandleFinished(t)

ReadStep(t) ==
    \/ CallReadCertificates(t) \/ Arm(t) \/ GetCompleted(t) \/ GetStatus(t)
    \/ WakeUp(t) \/ TimeOut(t) \/ GetResult(t) \/ CallThrows(t)

SnapshotStep(t) ==
    \/ CaptureGeneration(t) \/ GetManagedObjects(t) \/ NextReader(t) \/ ReadStep(t)
    \/ Settle(t) \/ StoreSnapshot(t) \/ KeepOrMark(t)

Next ==
    \/ Agent
    \/ EventLoop
    \/ \E t \in Threads : BeginSnapshot(t) \/ SnapshotStep(t)

Spec == Init /\ [][Next]_vars

(***************************************************************************)
(* FAIRNESS.  An agent that is up finishes what it began to announce; a    *)
(* signal that was sent is handled; a call in progress goes on (a read     *)
(* ends by its budget at the latest), and the application keeps asking for *)
(* its slots.  Nothing brings a crashed agent back: its unit has no        *)
(* Restart=, and a clean cache is served without a call that would         *)
(* activate it.                                                            *)
(***************************************************************************)
Fairness ==
    /\ \A c \in Cards : WF_vars(Withdraw(c))
    /\ \A r \in Readers : WF_vars(Publish(r))
    /\ WF_vars(HandleSignal) /\ WF_vars(MarkDirty)
    /\ \A t \in Threads : WF_vars(SnapshotStep(t)) /\ WF_vars(BeginSnapshot(t))

FairSpec == Spec /\ Fairness

-----------------------------------------------------------------------------
(***************************************************************************)
(* PROPERTIES.                                                             *)
(***************************************************************************)

\* Every variable stays in its range; and a Finished handler is armed only while
\* the frame of readCertificates() it writes into lives, so no signal can be
\* delivered into a dead one.
TypeOK ==
    /\ up \in BOOLEAN /\ crashes \in 0..MaxCrashes /\ inserts \in 0..MaxInserts
    /\ seat \in [Readers -> Cards \cup {NoCard}]
    /\ onBus \subseteq Cards /\ minted \subseteq Cards
    /\ life \in [Cards -> Lives]
    /\ signals \in Nat
    /\ op \in [Threads -> [state : {"none", "running", "completed", "finished", "gone"},
                           life : Lives, end : Ends \cup {"none"}]]
    /\ finished \in [Threads -> {"none", "flying", "handled"}]
    /\ dirty \in BOOLEAN
    /\ cached \in [Readers -> [card : Cards \cup {NoCard}, life : Lives]]
    /\ settled \subseteq [card : Cards, life : Lives]
    /\ outdated \subseteq Threads
    /\ handler \in {"idle", "marking"}
    /\ pc \in [Threads -> Steps]
    /\ todo \in [Threads -> SUBSET Readers]
    /\ at \in [Threads -> Readers \cup {NoReader}]
    /\ snap \in [Threads -> [Readers -> [card : Cards \cup {NoCard}, life : Lives]]]
    /\ complete \in [Threads -> BOOLEAN]
    /\ armed \subseteq {t \in Threads : pc[t] \in {"completed", "status", "wait", "result"}}
    /\ read \in [Threads -> [life : Lives, end : Ends \cup {"none"}]]

\* No signal is on its way or being handled, and no change half announced.
Announced ==
    /\ up /\ signals = 0 /\ handler = "idle"
    /\ onBus = {seat[r] : r \in Readers} \ {NoCard}

CachedIsCurrent == cached = [r \in Readers |-> Slot(seat[r])]

\* A snapshot that is kept shows the readers as they are: whatever signal fell
\* into an enumeration, once all of them are handled and no thread enumerates, a
\* clean cache names the very card each reader holds.
\* DBusAgentClient.cpp:127 "any reader/card add or remove on the agent's
\* ObjectManager invalidates the cache so the next snapshot() re-enumerates".
KeptSnapshotIsCurrent ==
    Announced /\ ~dirty /\ (\A t \in Threads : pc[t] = "idle") => CachedIsCurrent

\* A card is left alone only because its own read settled: never the card that
\* took over its object path after an agent restart while that read was ending.
SettledIsThisCard ==
    Announced => \A s \in settled : s.life = life[s.card]

\* CertificateRead.h:14 "a read that is not Completed yet is one whose Finished
\* is still coming": a thread waits only for a signal it will receive, unless the
\* agent died under it.
FinishedStillComing ==
    \A t \in Threads :
        pc[t] = "wait" /\ op[t].state = "finished" => finished[t] # "none"

\* snapshot() returns, also when the agent dies while a read is waited for.
SnapshotReturns == \A t \in Threads : pc[t] # "idle" ~> pc[t] = "idle"

\* Once readers and cards stop changing and an agent is there to ask, the cache
\* shows them for good, whatever reads failed, timed out or were lost to a crash on
\* the way.  Without an agent it may show the readers of the dead one for ever: its
\* death is no ObjectManager signal.
PresenceSurfaces == <>[](up => CachedIsCurrent)

=============================================================================
