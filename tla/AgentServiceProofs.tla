-------------------------- MODULE AgentServiceProofs --------------------------
(***************************************************************************)
(* Proofs about the agent's life: for any number of workers, any set of    *)
(* stuck prompts, any number of drain rounds from three on and any number  *)
(* of changes of the session.                                              *)
(***************************************************************************)
EXTENDS AgentService, SequenceTheorems, TLAPS

StartupPcs == {"start", "name", "surface", "loop", "watch", "monitor"}
RunningPcs == {"run", "dropWatch", "stopMonitor"}
ClosingPcs == {"drainMonitor", "clearHandlers", "teardownLoop", "cryptoShutdown"}
DrainPcs == {"drain", "check", "nap"}
EndPcs == {"release", "destroy", "gone"}

-----------------------------------------------------------------------------
(* The inductive invariant.                                                *)

TypeInv ==
    /\ pc \in StartupPcs \cup RunningPcs \cup ClosingPcs \cup DrainPcs \cup EndPcs
    /\ monitor \in {"off", "idle", "busy", "last", "stopped"}
    /\ worker \in [Workers -> {"idle", "probe"} \cup Operating]
    /\ token \in BOOLEAN
    /\ rounds \in Nat
    /\ drained \subseteq Workers

\* Who still stands while somebody may call it.
PartsInv ==
    /\ pc \in {"loop", "watch", "monitor", "run"} => {"core", "prompter", "exporter", "frontend"} \subseteq parts
    /\ monitor # "off" /\ pc \notin {"destroy", "gone"} => {"core", "prompter", "exporter", "frontend"} \subseteq parts
    /\ pc \in DrainPcs => {"core", "prompter"} \subseteq parts

\* The monitor delivers between its start and the end of its drain, and nobody
\* works before it has started.
MonitorInv ==
    /\ pc \in StartupPcs => monitor = "off"
    /\ monitor \in {"idle", "busy"} => pc \in RunningPcs
    /\ monitor = "last" => pc = "drainMonitor"
    /\ monitor = "off" => pc # "run" /\ \A w \in Workers : worker[w] = "idle"

\* The token is cancelled for the drain, for good.
TokenInv ==
    /\ pc \in DrainPcs => token
    /\ pc \in EndPcs => token \/ monitor = "off"
    /\ pc \notin DrainPcs \cup EndPcs => rounds = 0 /\ drained = {}
    /\ drained # {} => token
    /\ \A w \in drained : worker[w] \in {"back", "idle"}

\* Where a prompt that can be dismissed may be after n naps of the drain ...
LeftAfter(n) ==
    IF n = 0 THEN InGate ELSE IF n = 1 THEN {"live", "shown", "back"} ELSE IF n = 2 THEN {"shown", "back"} ELSE {}

\* ... and after the dismissals of the next round.
LeftBy(n) == IF n < 2 THEN LeftAfter(n) ELSE LeftAfter(n) \ {"shown"}

Dismissible(left) == \A w \in Workers \ Stuck : worker[w] \in InGate => worker[w] \in left

\* Once the drain has napped, nobody in the gate has yet to register: the prompt
\* gate's resolver no longer reaches the exporter it borrows.
NoSlot == \A w \in Workers : worker[w] # "slot"

SlotInv ==
    /\ pc \in {"drain", "check"} /\ rounds > 0 => NoSlot
    /\ pc = "nap" /\ rounds > 1 => NoSlot
    /\ pc \in EndPcs => NoSlot

DrainInv ==
    /\ SlotInv
    /\ pc = "drain" => Dismissible(LeftAfter(rounds))
    /\ pc = "check" => Dismissible(LeftBy(rounds))
    /\ pc = "nap" => rounds > 0 /\ Dismissible(LeftBy(rounds - 1))
    /\ pc \in EndPcs => Dismissible({})

LifeInv == TypeInv /\ PartsInv /\ MonitorInv /\ TokenInv /\ DrainInv /\ stray = {}

USE DEF StartupPcs, RunningPcs, ClosingPcs, DrainPcs, EndPcs, SlotInv, NoSlot

\* Nothing is built and nobody works when main() begins.
LEMMA LifeInvInit == Init => LifeInv
<1> SUFFICES ASSUME Init PROVE LifeInv
  OBVIOUS
<1>1. TypeInv
  BY DEF Init, TypeInv
<1>2. PartsInv /\ MonitorInv
  BY DEF Init, PartsInv, MonitorInv
<1>3. TokenInv /\ DrainInv /\ stray = {}
  BY DEF Init, TokenInv, DrainInv
<1> QED
  BY <1>1, <1>2, <1>3 DEF LifeInv

\* registerOnBus, step by step, whether the step succeeds or throws.
LEMMA StartupKeeps == LifeInv /\ Startup => LifeInv'
<1> SUFFICES ASSUME LifeInv, Startup PROVE LifeInv'
  OBVIOUS
<1> USE DEF LifeInv, TypeInv, PartsInv, MonitorInv, TokenInv, DrainInv, Dismissible, Rest
<1>1. CASE OpenBus
  BY <1>1 DEF OpenBus
<1>2. CASE RequestName
  BY <1>2 DEF RequestName
<1>3. CASE BuildSurface
  BY <1>3 DEF BuildSurface
<1>4. CASE InstallEventLoop
  BY <1>4 DEF InstallEventLoop
<1>5. CASE WatchSession
  BY <1>5 DEF WatchSession
<1>6. CASE StartMonitor
  BY <1>6 DEF StartMonitor
<1> QED
  BY <1>1, <1>2, <1>3, <1>4, <1>5, <1>6 DEF Startup

\* A round of the drain in quiesce: dismissal, check and nap move every prompt
\* that can be dismissed one ward on.
LEMMA DrainKeeps == LifeInv /\ (DrainRound \/ DrainCheck \/ Nap) => LifeInv'
<1> SUFFICES ASSUME LifeInv, DrainRound \/ DrainCheck \/ Nap PROVE LifeInv'
  OBVIOUS
<1> USE DEF LifeInv, TypeInv, PartsInv, MonitorInv, TokenInv, DrainInv, Dismissible, MainOnly, InGate, Operating
<1>1. CASE DrainRound
  <2> DEFINE hit == {w \in LiveIds \ Stuck : worker[w] = "shown"}
  <2>1. /\ pc = "drain" /\ pc' = "check"
        /\ worker' = [w \in Workers |-> IF w \in hit THEN "back" ELSE worker[w]]
        /\ drained' = drained \cup hit
        /\ UNCHANGED <<parts, token, rounds, monitor>>
    BY <1>1 DEF DrainRound
  <2>2. stray' = {}
    BY <1>1, <2>1 DEF DrainRound, Reach, Alive
  <2>3. \A w \in Workers \ Stuck : worker'[w] # "shown"
    BY <2>1 DEF LiveIds
  <2>4. TypeInv' /\ PartsInv' /\ MonitorInv'
    BY <2>1 DEF LiveIds
  <2>5. TokenInv'
    BY <2>1 DEF LiveIds
  <2>6. DrainInv'
    BY <2>1, <2>3 DEF LeftBy, LeftAfter
  <2> QED
    BY <2>2, <2>4, <2>5, <2>6
<1>2. CASE DrainCheck
  BY <1>2 DEF DrainCheck, HasPendingPrompt, LeftBy, LeftAfter
<1>3. CASE Nap
  <2>1. /\ pc = "nap" /\ pc' \in {"release", "drain"}
        /\ pc' = "release" => rounds >= 3
        /\ worker' = [w \in Workers |-> IF w \in Stuck /\ worker[w] = "live" THEN "live" ELSE Onward(w)]
        /\ UNCHANGED <<parts, token, rounds, monitor, drained, stray>>
    BY <1>3, ServiceAssumption DEF Nap
  <2>2. \A w \in Workers : /\ worker[w] = "slot" => Onward(w) = "live"
                           /\ worker[w] = "live" => Onward(w) = "shown"
                           /\ worker[w] = "back" => Onward(w) = "idle"
                           /\ worker[w] \notin {"slot", "live", "back"} => Onward(w) = worker[w]
    BY <2>1 DEF Onward, PastThePrompt
  <2>3. TypeInv' /\ PartsInv' /\ MonitorInv'
    BY <2>1, <2>2
  <2>4. TokenInv'
    BY <2>1, <2>2
  <2>5. DrainInv'
    BY <2>1, <2>2 DEF LeftBy, LeftAfter
  <2> QED
    BY <2>1, <2>3, <2>4, <2>5
<1> QED
  BY <1>1, <1>2, <1>3

\* The main thread, from the start through quiesce to the last member's destructor.
LEMMA MainKeeps == LifeInv /\ Main => LifeInv'
<1> SUFFICES ASSUME LifeInv, Main PROVE LifeInv'
  OBVIOUS
<1>1. CASE Startup
  BY <1>1, StartupKeeps
<1>2. CASE DrainRound \/ DrainCheck \/ Nap
  BY <1>2, DrainKeeps
<1> USE DEF LifeInv, TypeInv, PartsInv, MonitorInv, TokenInv, DrainInv, Dismissible, MainOnly, Rest
<1>3. CASE ExitLoop
  BY <1>3 DEF ExitLoop
<1>4. CASE DropWatch
  BY <1>4 DEF DropWatch
<1>5. CASE StopMonitor
  BY <1>5 DEF StopMonitor
<1>6. CASE DrainMonitor
  BY <1>6 DEF DrainMonitor
<1>7. CASE Sever
  BY <1>7 DEF Sever
<1>8. CASE TeardownEventLoop
  BY <1>8 DEF TeardownEventLoop
<1>9. CASE RequestCryptoShutdown
  <2>1. /\ pc = "cryptoShutdown" /\ rounds = 0 /\ drained = {}
        /\ token' = ("core" \in parts)
        /\ UNCHANGED <<parts, rounds, monitor, worker, drained, stray>>
    BY <1>9 DEF RequestCryptoShutdown
  <2>2. CASE {"core", "prompter"} \subseteq parts
    <3>1. pc' = "drain" /\ token'
      BY <1>9, <2>1, <2>2 DEF RequestCryptoShutdown
    <3>2. Dismissible(LeftAfter(rounds))'
      BY <2>1 DEF LeftAfter
    <3> QED
      BY <2>1, <2>2, <3>1, <3>2
  <2>3. CASE ~({"core", "prompter"} \subseteq parts)
    <3>1. pc' = "release" /\ monitor = "off"
      BY <1>9, <2>1, <2>3 DEF RequestCryptoShutdown
    <3>2. Dismissible({})'
      BY <2>1, <3>1 DEF InGate
    <3> QED
      BY <2>1, <3>1, <3>2
  <2> QED
    BY <2>2, <2>3
<1>10. CASE ReleaseName
  BY <1>10 DEF ReleaseName
<1>11. CASE DestroyMember
  BY <1>11 DEF DestroyMember
<1> QED
  BY <1>1, <1>2, <1>3, <1>4, <1>5, <1>6, <1>7, <1>8, <1>9, <1>10, <1>11 DEF Main, Quiesce

-----------------------------------------------------------------------------
(* The other threads.                                                      *)

\* Every step of a worker moves it forward: into the gate only while the token
\* stands, never from the gate or the idle state into an operation, and past the
\* prompt only to the idle state once the token is cancelled.
Advance(from, to, cancelled) ==
    \/ from = "probe" /\ to = "idle"
    \/ from = "work" /\ to = (IF cancelled THEN "idle" ELSE "slot")
    \/ from \in {"work", "back"} /\ to = (IF cancelled THEN "idle" ELSE "card")
    \/ from = "card" /\ to = "changed"
    \/ from \in OnCard /\ to = (IF cancelled THEN "idle" ELSE "finish")
    \/ from = "slot" /\ to = "live"
    \/ from = "live" /\ to \in {"shown", "back"}
    \/ from = "shown" /\ to = "back"
    \/ from = "finish" /\ to = "idle"

\* A worker's step is such a move, and reaches only what the worker co-owns, or borrows
\* while it stands.
LEMMA WorkerAdvances ==
    ASSUME LifeInv, NEW w \in Workers, WorkerStep(w)
    PROVE  /\ \E to \in {"idle"} \cup Operating :
                 Advance(worker[w], to, token) /\ worker' = [worker EXCEPT ![w] = to]
           /\ stray' = {}
           /\ UNCHANGED <<mainVars, monitor, drained>>
<1> USE DEF Goes, Advance, PastThePrompt, Completion, Operating, InGate, OnCard
<1>1. stray = {} /\ UNCHANGED <<mainVars, monitor, drained>>
  BY DEF LifeInv, WorkerStep
<1>2. worker[w] \in Operating => Alive("prompter") /\ Alive("connection")
  BY DEF Alive, Shares
<1>3. worker[w] = "probe" => Alive("poster")
  BY DEF Alive, Shares
<1>4. CASE ProbeDone(w)
  BY <1>1, <1>3, <1>4 DEF ProbeDone, Reach
<1>5. CASE EnterGate(w)
  BY <1>1, <1>5 DEF EnterGate, LifeInv, TypeInv
<1>6. CASE NoPrompt(w)
  BY <1>1, <1>6 DEF NoPrompt, LifeInv, TypeInv
<1>7. CASE RegisterLive(w)
  <2>1. worker[w] = "slot" /\ pc \notin EndPcs /\ monitor # "off"
    BY <1>7 DEF RegisterLive, LifeInv, DrainInv, MonitorInv
  <2>2. Alive("exporter")
    BY <2>1 DEF Alive, LifeInv, PartsInv
  <2> QED
    BY <1>1, <1>7, <2>2 DEF RegisterLive, Reach
<1>8. CASE Raise(w)
  BY <1>1, <1>2, <1>8 DEF Raise, Reach
<1>9. CASE Answered(w)
  BY <1>1, <1>2, <1>9 DEF Answered, Reach
<1>10. CASE AfterPrompt(w)
  BY <1>1, <1>10 DEF AfterPrompt, LifeInv, TypeInv
<1>11. CASE Complete(w)
  BY <1>1, <1>2, <1>11 DEF Complete, Reach
<1>12. CASE CardDone(w)
  BY <1>1, <1>12 DEF CardDone, LifeInv, TypeInv
<1>13. CASE OnConfigChanged(w)
  BY <1>1, <1>13 DEF OnConfigChanged, LifeInv, TypeInv
<1>14. CASE EmitConfigChanged(w)
  BY <1>1, <1>14 DEF EmitConfigChanged, LifeInv, TypeInv
<1> QED
  BY <1>4, <1>5, <1>6, <1>7, <1>8, <1>9, <1>10, <1>11, <1>12, <1>13, <1>14 DEF WorkerStep

\* The rounds' wards: each is closed under going forward.
Lefts == {InGate, {"live", "shown", "back"}, {"shown", "back"}, {"back"}, {}}

\* The wards are what the rounds leave.
LEMMA LeftInLefts == \A n \in Nat : LeftAfter(n) \in Lefts /\ LeftBy(n) \in Lefts
<1> TAKE n \in Nat
<1>1. CASE n < 2
  BY <1>1 DEF LeftAfter, LeftBy, Lefts
<1>2. CASE n = 2
  <2>1. LeftAfter(n) = {"shown", "back"} /\ LeftBy(n) = {"shown", "back"} \ {"shown"}
    BY <1>2 DEF LeftAfter, LeftBy
  <2>2. {"shown", "back"} \ {"shown"} = {"back"}
    OBVIOUS
  <2> QED
    BY <2>1, <2>2 DEF Lefts
<1>3. CASE n > 2
  <2>1. LeftAfter(n) = {} /\ LeftBy(n) = {} \ {"shown"}
    BY <1>3 DEF LeftAfter, LeftBy
  <2>2. {} \ {"shown"} = {}
    OBVIOUS
  <2> QED
    BY <2>1, <2>2 DEF Lefts
<1> QED
  BY <1>1, <1>2, <1>3

\* A worker that moves on its own, at any point of the drain, stays in its ward.
LEMMA WorkerKeeps ==
    ASSUME LifeInv, NEW w \in Workers, WorkerStep(w)
    PROVE  LifeInv'
<1> USE DEF LifeInv, TypeInv, PartsInv, MonitorInv, TokenInv, mainVars
<1>1. PICK to \in {"idle"} \cup Operating :
          Advance(worker[w], to, token) /\ worker' = [worker EXCEPT ![w] = to]
  BY WorkerAdvances
<1>2. stray' = {} /\ UNCHANGED <<mainVars, monitor, drained>>
  BY WorkerAdvances
<1>3. TypeInv' /\ PartsInv' /\ MonitorInv'
  BY <1>1, <1>2 DEF Advance, OnCard
<1>4. TokenInv'
  BY <1>1, <1>2 DEF Advance, OnCard
<1>5. DrainInv'
  <2>1. token /\ to \in InGate =>
            /\ worker[w] \in InGate
            /\ to = worker[w] \/ to \in {"live", "shown", "back"}
            /\ worker[w] \in {"shown", "back"} => to = "back"
            /\ worker[w] = "live" => to \in {"shown", "back"}
    BY <1>1 DEF Advance, InGate, Operating, OnCard
  <2>2. pc \in EndPcs => token
    BY <1>1 DEF Advance, OnCard
  <2>3. ASSUME NEW left \in Lefts, token, Dismissible(left)
        PROVE  Dismissible(left)'
    BY <1>1, <1>2, <2>1, <2>3 DEF Dismissible, InGate, Lefts
  <2>4. \A n \in Nat : LeftAfter(n) \in Lefts /\ LeftBy(n) \in Lefts
    BY LeftInLefts
  <2>9. SlotInv'
    <3>1. token \/ worker[w] = "slot" => to # "slot"
      BY <1>1 DEF Advance, InGate, Operating, OnCard
    <3>2. NoSlot /\ token => NoSlot'
      BY <1>1, <3>1
    <3> QED
      BY <1>2, <2>2, <3>2 DEF DrainInv
  <2>5. CASE pc = "drain"
    BY <1>2, <2>3, <2>4, <2>5, <2>9 DEF DrainInv
  <2>6. CASE pc = "check"
    BY <1>2, <2>3, <2>4, <2>6, <2>9 DEF DrainInv
  <2>7. CASE pc = "nap"
    BY <1>2, <2>3, <2>4, <2>7, <2>9 DEF DrainInv
  <2>8. CASE pc \in EndPcs
    BY <1>2, <2>2, <2>3, <2>8, <2>9 DEF DrainInv, Lefts
  <2> QED
    BY <1>2, <2>5, <2>6, <2>7, <2>8, <2>9 DEF DrainInv
<1> QED
  BY <1>2, <1>3, <1>4, <1>5

\* The monitor, the authorizer's thread, logind, the signals and the clients.
LEMMA OthersKeep ==
    ASSUME LifeInv,
           \/ SignalArrives \/ HandleLifecycle \/ MonitorEnter \/ MonitorDeliver \/ AuthorizerAnswers \/ World
           \/ \E w \in Workers : Launch(w) \/ ClientLeaves(w)
    PROVE  LifeInv'
<1> USE DEF LifeInv, TypeInv, PartsInv, MonitorInv, TokenInv, DrainInv, Dismissible, mainVars, Operating, InGate, OnCard
<1>1. CASE SignalArrives
  BY <1>1 DEF SignalArrives
<1>2. CASE HandleLifecycle
  BY <1>2 DEF HandleLifecycle, Reach, Alive
<1>3. CASE MonitorEnter
  BY <1>3 DEF MonitorEnter
<1>4. CASE MonitorDeliver
  <2>1. stray' = {}
    BY <1>4 DEF MonitorDeliver, Reach, Alive
  <2> QED
    BY <1>4, <2>1 DEF MonitorDeliver
<1>5. CASE AuthorizerAnswers
  BY <1>5 DEF AuthorizerAnswers, Reach, Alive, AuthorizerShares
<1>6. CASE World
  BY <1>6 DEF World
<1>7. ASSUME NEW w \in Workers, Launch(w) PROVE LifeInv'
  BY <1>7 DEF Launch
<1>8. ASSUME NEW w \in Workers, ClientLeaves(w) PROVE LifeInv'
  BY <1>8 DEF ClientLeaves, Reach, Alive
<1> QED
  BY <1>1, <1>2, <1>3, <1>4, <1>5, <1>6, <1>7, <1>8

\* The invariant is inductive.
LEMMA LifeInvStep == LifeInv /\ [Next]_vars => LifeInv'
<1> SUFFICES ASSUME LifeInv, [Next]_vars PROVE LifeInv'
  OBVIOUS
<1>1. CASE Main
  BY <1>1, MainKeeps
<1>2. ASSUME NEW w \in Workers, WorkerStep(w) PROVE LifeInv'
  BY <1>2, WorkerKeeps
<1>3. CASE \/ SignalArrives \/ HandleLifecycle \/ MonitorEnter \/ MonitorDeliver \/ AuthorizerAnswers \/ World
           \/ \E w \in Workers : Launch(w) \/ ClientLeaves(w)
  BY <1>3, OthersKeep
<1>4. CASE UNCHANGED vars
  BY <1>4 DEF vars, mainVars, LifeInv, TypeInv, PartsInv, MonitorInv, TokenInv, DrainInv, Dismissible
<1> QED
  BY <1>1, <1>2, <1>3, <1>4 DEF Next

\* The inductive invariant of the agent's life holds throughout.
THEOREM LifeInvariance == Spec => []LifeInv
<1> QED
  BY LifeInvInit, LifeInvStep, PTL DEF Spec

\* Before the members are destroyed, nobody runs the config-changed callback on a
\* frontend that is no more.
Unharmed == misfired => pc \in {"destroy", "gone"}

\* A worker on the card means a monitor that was started, over a frontend that stands.
LEMMA UnharmedStep == LifeInv /\ Unharmed /\ [Next]_vars => Unharmed'
<1> SUFFICES ASSUME LifeInv, Unharmed, [Next]_vars PROVE Unharmed'
  OBVIOUS
<1> USE DEF Unharmed, mainVars
<1>1. CASE Startup
  BY <1>1 DEF Startup, OpenBus, RequestName, BuildSurface, InstallEventLoop, WatchSession, StartMonitor, Rest
<1>2. CASE ExitLoop \/ ReleaseName \/ DestroyMember
  BY <1>2 DEF ExitLoop, ReleaseName, DestroyMember, Rest
<1>3. CASE DropWatch \/ StopMonitor \/ DrainMonitor \/ Sever \/ TeardownEventLoop \/ RequestCryptoShutdown
  BY <1>3 DEF DropWatch, StopMonitor, DrainMonitor, Sever, TeardownEventLoop, RequestCryptoShutdown
<1>4. CASE DrainRound \/ DrainCheck \/ Nap
  BY <1>4 DEF DrainRound, DrainCheck, Nap
<1>5. ASSUME NEW w \in Workers, Launch(w) \/ ClientLeaves(w) PROVE Unharmed'
  BY <1>5 DEF Launch, ClientLeaves
<1>6. ASSUME NEW w \in Workers, WorkerStep(w) PROVE Unharmed'
  <2>1. CASE OnConfigChanged(w)
    BY <1>6, <2>1 DEF WorkerStep, OnConfigChanged
  <2>2. CASE EmitConfigChanged(w)
    <3>1. monitor # "off"
      BY <2>2 DEF EmitConfigChanged, LifeInv, MonitorInv
    <3>2. pc \in {"destroy", "gone"} \/ "frontend" \in parts
      BY <3>1 DEF LifeInv, PartsInv
    <3> QED
      BY <1>6, <2>2, <3>2 DEF WorkerStep, EmitConfigChanged
  <2>3. CASE \/ ProbeDone(w) \/ EnterGate(w) \/ NoPrompt(w) \/ RegisterLive(w) \/ Raise(w)
             \/ Answered(w) \/ AfterPrompt(w) \/ CardDone(w) \/ Complete(w)
    BY <1>6, <2>3 DEF WorkerStep, ProbeDone, EnterGate, NoPrompt, RegisterLive, Raise, Answered, AfterPrompt,
           CardDone, Complete
  <2> QED
    BY <1>6, <2>1, <2>2, <2>3 DEF WorkerStep
<1>7. CASE SignalArrives \/ HandleLifecycle \/ MonitorEnter \/ MonitorDeliver \/ AuthorizerAnswers \/ World
  BY <1>7 DEF SignalArrives, HandleLifecycle, MonitorEnter, MonitorDeliver, AuthorizerAnswers, World
<1>8. CASE UNCHANGED vars
  BY <1>8 DEF vars
<1> QED
  BY <1>1, <1>2, <1>3, <1>4, <1>5, <1>6, <1>7, <1>8 DEF Next, Main, Quiesce

\* No thread reaches a member of AgentService after its destruction, no worker whose
\* window quiesce dismissed completes its operation (AgentService::quiesce and the
\* member order), and the config-changed callback finds its frontend until the members
\* go, however many workers there are and however they interleave.
THEOREM TheDeadAreLeftAlone == Spec => []NothingReachesTheDead
<1>1. Init => Unharmed
  BY DEF Init, Unharmed
<1>2. LifeInv /\ Unharmed => NothingReachesTheDead
  BY DEF LifeInv, TokenInv, Unharmed, NothingReachesTheDead, OnCard
<1> QED
  BY <1>1, <1>2, UnharmedStep, LifeInvariance, PTL DEF Spec

\* After quiesce's drain only prompts the helper will not dismiss are in the gate,
\* for any number of workers and any kMaxDrainIterations of at least three.
THEOREM DrainEmptiesTheGate == Spec => []DrainLeavesOnlyTheStuck
<1>1. LifeInv => DrainLeavesOnlyTheStuck
  BY DEF LifeInv, DrainInv, Dismissible, DrainLeavesOnlyTheStuck
<1> QED
  BY <1>1, LifeInvariance, PTL

-----------------------------------------------------------------------------
(* What is forgotten when the session leaves: whatever the core still      *)
(* holds of what it has to forget is called in by a signal on its way.     *)

LogindSignals ==
    {Signal("PrepareForSleep", [Start |-> start]) : start \in BOOLEAN}
    \cup {Signal("Lock", <<>>), Signal("PropertiesChanged", [LockedHint |-> TRUE])}
    \cup {Signal("PropertiesChanged", changed) :
            changed \in UNION {[moved -> BOOLEAN] : moved \in SUBSET {"Active", "LockedHint"}}}

\* A signal of the queue makes the core forget it.
CallsIn(queue, what) == \E i \in DOMAIN queue : what \in Forgotten(Reasons(queue[i]))

WatchInv ==
    /\ watch \in {"none", "sleep", "full"}
    /\ session \in Sessions
    /\ signals \in Seq(LogindSignals)
    /\ holds \subseteq {"lease", "secret"}
    /\ pc \in StartupPcs \ {"monitor"} => watch = "none"

DueInv == \A what \in due : CallsIn(signals, what)

\* A signal that comes in leaves those ahead of it in the queue ...
LEMMA CallsAtEnd ==
    ASSUME NEW queue \in Seq(LogindSignals), NEW more \in Seq(LogindSignals), NEW what,
           CallsIn(queue, what) \/ CallsIn(more, what)
    PROVE  CallsIn(queue \o more, what)
<1>1. queue \o more \in Seq(LogindSignals) /\ Len(queue \o more) = Len(queue) + Len(more)
  BY ConcatProperties
<1>2. \A i \in DOMAIN queue : i \in DOMAIN (queue \o more) /\ (queue \o more)[i] = queue[i]
  BY <1>1, ConcatProperties, LenProperties
<1>3. \A i \in DOMAIN more : /\ Len(queue) + i \in DOMAIN (queue \o more)
                             /\ (queue \o more)[Len(queue) + i] = more[i]
  BY <1>1, ConcatProperties, LenProperties
<1> QED
  BY <1>2, <1>3 DEF CallsIn

\* ... and the one that is handled leaves those behind it.
LEMMA CallsInTail ==
    ASSUME NEW queue \in Seq(LogindSignals), queue # <<>>, NEW what, CallsIn(queue, what)
    PROVE  what \in Forgotten(Reasons(Head(queue))) \/ CallsIn(Tail(queue), what)
<1>1. \A i \in DOMAIN queue : i = 1 \/ (i - 1 \in DOMAIN Tail(queue) /\ Tail(queue)[i - 1] = queue[i])
  BY HeadTailProperties, LenProperties
<1>2. Head(queue) = queue[1]
  BY HeadTailProperties
<1> QED
  BY <1>1, <1>2 DEF CallsIn

\* A signal that is heard calls in what its reasons forget.
LEMMA HeardCalls ==
    ASSUME NEW s \in LogindSignals
    PROVE  /\ Heard(s) \in Seq(LogindSignals)
           /\ s.name \in Subscribed => \A what \in Forgotten(Reasons(s)) : CallsIn(Heard(s), what)
<1>1. <<s>> \in Seq(LogindSignals) /\ <<>> \in Seq(LogindSignals)
  OBVIOUS
<1>2. 1 \in DOMAIN <<s>> /\ <<s>>[1] = s
  OBVIOUS
<1> QED
  BY <1>1, <1>2 DEF Heard, CallsIn

\* onPrepareForSleep, onLock and onPropertiesChanged: handling the oldest signal.
LEMMA DeliverKeeps == WatchInv /\ DueInv /\ Deliver /\ UNCHANGED pc => WatchInv' /\ DueInv'
<1> SUFFICES ASSUME WatchInv, DueInv, Deliver, UNCHANGED pc PROVE WatchInv' /\ DueInv'
  OBVIOUS
<1> DEFINE heard == Reasons(Head(signals))
<1>1. /\ signals # <<>> /\ signals' = Tail(signals)
      /\ UNCHANGED <<watch, session>>
  BY DEF Deliver
<1>2. PICK thrown \in SUBSET heard :
          /\ holds' = holds \ Forgotten(heard \ thrown)
          /\ due' = (due \cap holds') \ Forgotten(thrown)
  BY DEF Deliver
<1>3. signals' \in Seq(LogindSignals)
  BY <1>1, HeadTailProperties DEF WatchInv
<1>4. WatchInv'
  BY <1>1, <1>2, <1>3 DEF WatchInv
<1>5. Forgotten(heard) \subseteq Forgotten(heard \ thrown) \cup Forgotten(thrown)
  BY DEF Forgotten
<1>6. ASSUME NEW what \in due' PROVE CallsIn(signals', what)
  <2>1. what \in due /\ what \notin Forgotten(heard)
    BY <1>2, <1>5, <1>6
  <2> QED
    BY <1>1, <2>1, CallsInTail DEF WatchInv, DueInv
<1>7. DueInv'
  BY <1>6 DEF DueInv
<1> QED
  BY <1>4, <1>7

\* Whatever logind reports: what the session's new state calls for is called in.
LEMMA ReportKeeps ==
    ASSUME WatchInv, DueInv, UNCHANGED pc,
           NEW new \in Sessions, NEW sent \in Seq(LogindSignals), Report(new, sent),
           \A what \in Owed(new) : CallsIn(sent, what)
    PROVE  WatchInv' /\ DueInv'
<1>1. /\ session' = new /\ signals' = signals \o sent /\ UNCHANGED <<watch, holds>>
      /\ due' = due \cup (holds \cap Owed(new))
  BY DEF Report
<1>2. signals' \in Seq(LogindSignals)
  BY <1>1, ConcatProperties DEF WatchInv
<1>3. ASSUME NEW what, CallsIn(signals, what) \/ CallsIn(sent, what) PROVE CallsIn(signals', what)
  BY <1>1, <1>3, CallsAtEnd DEF WatchInv
<1>4. WatchInv'
  BY <1>1, <1>2 DEF WatchInv
<1>5. DueInv'
  BY <1>1, <1>3 DEF DueInv
<1> QED
  BY <1>4, <1>5

\* Each change of the session is reported by a signal that calls in what it owes.
LEMMA WorldKeeps == WatchInv /\ DueInv /\ World => WatchInv' /\ DueInv'
<1> SUFFICES ASSUME WatchInv, DueInv, World PROVE WatchInv' /\ DueInv'
  OBVIOUS
<1>1. watch # "none" /\ UNCHANGED pc /\ session \in Sessions
  BY DEF World, mainVars, WatchInv
<1>2. ASSUME NEW start \in BOOLEAN, Sleeps(start) PROVE WatchInv' /\ DueInv'
  <2> DEFINE s == Signal("PrepareForSleep", [Start |-> start])
             new == [session EXCEPT !.asleep = start]
  <2>1. s \in LogindSignals /\ s.name \in Subscribed
    BY <1>1 DEF LogindSignals, Subscribed, Signal
  <2>2. start => Forgotten(Reasons(s)) = {"lease", "secret"}
    <3>1. start => Reasons(s) = {"SystemSleep"}
      BY DEF Reasons, Signal, OnPrepareForSleep
    <3> QED
      BY <3>1 DEF Forgotten
  <2>3. new \in Sessions /\ new.asleep = start /\ new.locked = session.locked /\ new.active = session.active
    BY <1>1 DEF Sessions
  <2>4. Owed(new) \subseteq {"lease", "secret"} /\ (~start => Owed(new) = {})
    BY <1>1, <2>3 DEF Owed, Sessions
  <2>5. Heard(s) \in Seq(LogindSignals) /\ \A what \in Owed(new) : CallsIn(Heard(s), what)
    BY <2>1, <2>2, <2>4, HeardCalls
  <2>6. Report(new, Heard(s))
    BY <1>2 DEF Sleeps
  <2> HIDE DEF new, s
  <2> QED
    BY <1>1, <2>3, <2>5, <2>6, ReportKeeps
<1>3. CASE LockRequested
  <2> DEFINE s == Signal("Lock", <<>>)
             t == Signal("PropertiesChanged", [LockedHint |-> TRUE])
             new == [session EXCEPT !.locked = TRUE]
  <2>1. s \in LogindSignals /\ t \in LogindSignals
    BY DEF LogindSignals
  <2>2. "lease" \in Forgotten(Reasons(s))
    <3>1. Reasons(s) = {"ScreenLocked"}
      BY DEF Reasons, Signal
    <3> QED
      BY <3>1 DEF Forgotten
  <2>3. Heard(s) \in Seq(LogindSignals) /\ Heard(t) \in Seq(LogindSignals) /\ <<>> \in Seq(LogindSignals)
    BY <2>1, HeardCalls
  <2>4. PICK more \in {<<>>, Heard(t)} : Report(new, Heard(s) \o more)
    BY <1>3 DEF LockRequested
  <2>5. new \in Sessions /\ new.asleep = session.asleep /\ new.locked /\ new.active = session.active
    BY <1>1 DEF Sessions
  <2>6. Owed(new) \subseteq {"lease"} /\ (watch # "full" => Owed(new) = {})
    BY <1>1, <2>5 DEF Owed, Sessions
  <2>7. watch = "full" => CallsIn(Heard(s), "lease")
    <3>1. s.name = "Lock"
      BY DEF Signal
    <3> QED
      BY <2>1, <2>2, <3>1, HeardCalls DEF Subscribed
  <2> HIDE DEF new, s, t
  <2>8. Heard(s) \o more \in Seq(LogindSignals)
    BY <2>3, ConcatProperties
  <2>9. watch = "full" => CallsIn(Heard(s) \o more, "lease")
    BY <2>3, <2>7, CallsAtEnd
  <2>10. \A what \in Owed(new) : CallsIn(Heard(s) \o more, what)
    BY <2>6, <2>9
  <2> QED
    BY <1>1, <2>4, <2>5, <2>8, <2>10, ReportKeeps
<1>4. CASE SessionChanges
  <2>1. PICK new \in Sessions \ {session} :
          LET name == [Active |-> new.active, LockedHint |-> new.locked]
              old == [Active |-> session.active, LockedHint |-> session.locked]
              moved == {p \in {"Active", "LockedHint"} : name[p] # old[p]}
          IN /\ new.asleep = session.asleep
             /\ Report(new, Heard(Signal("PropertiesChanged", [p \in moved |-> name[p]])))
    BY <1>4 DEF SessionChanges
  <2> DEFINE name == [Active |-> new.active, LockedHint |-> new.locked]
             old == [Active |-> session.active, LockedHint |-> session.locked]
             moved == {p \in {"Active", "LockedHint"} : name[p] # old[p]}
             changed == [p \in moved |-> name[p]]
             s == Signal("PropertiesChanged", changed)
  <2>2. new.asleep = session.asleep /\ Report(new, Heard(s)) /\ new \in Sessions
    BY <2>1
  <2>3. /\ "Active" \in moved <=> new.active # session.active
        /\ "LockedHint" \in moved <=> new.locked # session.locked
        /\ moved \in SUBSET {"Active", "LockedHint"}
    OBVIOUS
  <2>4. changed \in [moved -> BOOLEAN]
    BY <2>2 DEF Sessions
  <2>5. s \in LogindSignals
    BY <2>3, <2>4 DEF LogindSignals
  <2>6. /\ session.active /\ ~new.active => "SessionInactive" \in Reasons(s)
        /\ ~session.locked /\ new.locked => Reasons(s) # {}
    <3>1. Reasons(s) = OnPropertiesChanged(changed)
      BY DEF Reasons, Signal
    <3>2. /\ "Active" \in moved => changed["Active"] = new.active
          /\ "LockedHint" \in moved => changed["LockedHint"] = new.locked
      OBVIOUS
    <3>3. DOMAIN changed = moved
      OBVIOUS
    <3> QED
      BY <2>3, <3>1, <3>2, <3>3 DEF OnPropertiesChanged
  <2>7. s.name = "PropertiesChanged"
    BY DEF Signal
  <2> HIDE DEF s
  <2>8. Owed(new) \subseteq Forgotten(Reasons(s)) /\ (watch # "full" => Owed(new) = {})
    BY <1>1, <2>2, <2>6 DEF Owed, Forgotten, Sessions
  <2>9. Heard(s) \in Seq(LogindSignals) /\ \A what \in Owed(new) : CallsIn(Heard(s), what)
    BY <1>1, <2>5, <2>7, <2>8, HeardCalls DEF Subscribed
  <2> QED
    BY <1>1, <2>2, <2>9, ReportKeeps
<1>5. ASSUME NEW what \in {"lease", "secret"}, Remember(what) PROVE WatchInv' /\ DueInv'
  <2>1. UNCHANGED <<watch, session, signals, due>>
    BY <1>5 DEF Remember
  <2>2. holds' \subseteq {"lease", "secret"}
    BY <1>5 DEF Remember, WatchInv
  <2> QED
    BY <1>1, <2>1, <2>2 DEF WatchInv, DueInv
<1> QED
  BY <1>2, <1>3, <1>4, <1>5 DEF World

\* The invariants of the watch are inductive.
LEMMA WatchStep == WatchInv /\ DueInv /\ [Next]_vars => WatchInv' /\ DueInv'
<1> SUFFICES ASSUME WatchInv, DueInv, [Next]_vars PROVE WatchInv' /\ DueInv'
  OBVIOUS
<1>1. ASSUME UNCHANGED lifecycleVars, pc' \in StartupPcs \ {"monitor"} => pc \in StartupPcs \ {"monitor"}
      PROVE  WatchInv' /\ DueInv'
  BY <1>1 DEF lifecycleVars, WatchInv, DueInv
<1>2. CASE OpenBus \/ RequestName \/ BuildSurface \/ InstallEventLoop \/ StartMonitor
  BY <1>1, <1>2 DEF OpenBus, RequestName, BuildSurface, InstallEventLoop, StartMonitor
<1>3. CASE WatchSession
  <2>1. pc' = "monitor" /\ (Subscribe \/ UNCHANGED lifecycleVars)
    BY <1>3 DEF WatchSession
  <2> QED
    BY <1>1, <2>1 DEF Subscribe, WatchInv, DueInv
<1>4. CASE ExitLoop \/ StopMonitor \/ DrainMonitor \/ Sever \/ TeardownEventLoop \/ RequestCryptoShutdown
           \/ DrainRound \/ DrainCheck \/ Nap \/ ReleaseName \/ DestroyMember
  BY <1>1, <1>4 DEF ExitLoop, StopMonitor, DrainMonitor, Sever, TeardownEventLoop, RequestCryptoShutdown,
         DrainRound, DrainCheck, Nap, ReleaseName, DestroyMember
<1>5. CASE DropWatch
  <2>1. <<>> \in Seq(LogindSignals)
    OBVIOUS
  <2> QED
    BY <1>5, <2>1 DEF DropWatch, Unsubscribe, WatchInv, DueInv, Present, Sessions
<1>6. CASE SignalArrives \/ MonitorEnter \/ MonitorDeliver \/ AuthorizerAnswers
  BY <1>1, <1>6 DEF SignalArrives, MonitorEnter, MonitorDeliver, AuthorizerAnswers, mainVars
<1>7. CASE HandleLifecycle
  BY <1>7, DeliverKeeps DEF HandleLifecycle, mainVars
<1>8. ASSUME NEW w \in Workers, Launch(w) \/ ClientLeaves(w) \/ WorkerStep(w) PROVE WatchInv' /\ DueInv'
  BY <1>1, <1>8 DEF Launch, ClientLeaves, WorkerStep, mainVars
<1>9. CASE World
  BY <1>9, WorldKeeps
<1>10. CASE UNCHANGED vars
  BY <1>1, <1>10 DEF vars, mainVars
<1> QED
  BY <1>2, <1>3, <1>4, <1>5, <1>6, <1>7, <1>8, <1>9, <1>10 DEF Next, Main, Startup, Quiesce

\* What the core held when the session slept, was switched away or was locked is gone
\* once the watch has handled what logind reported, for any sequence of changes and
\* with operations leaving leases and secrets behind at any moment.
THEOREM LeftIsForgotten == Spec => []LeavingForgets
<1>1. Init => WatchInv /\ DueInv
  <2>1. <<>> \in Seq(LogindSignals) /\ Present \in Sessions
    BY DEF Present, Sessions
  <2> QED
    BY <2>1 DEF Init, LifecycleInit, WatchInv, DueInv
<1>2. WatchInv /\ DueInv => LeavingForgets
  <2>1. ASSUME signals = <<>>, NEW what PROVE ~CallsIn(signals, what)
    BY <2>1 DEF CallsIn
  <2> QED
    BY <2>1 DEF DueInv, LeavingForgets
<1> QED
  BY <1>1, <1>2, WatchStep, PTL DEF Spec

=============================================================================
