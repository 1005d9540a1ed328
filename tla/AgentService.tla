----------------------------- MODULE AgentService -----------------------------
(***************************************************************************)
(* The agent's composition root: how it is put together, runs and is taken *)
(* apart (agent/src/AgentService.cpp, the member order of AgentService.h), *)
(* with the session watch it owns (SessionLifecycleWatch).                 *)
(*                                                                         *)
(* The main thread is also the loop thread.  Beside it run the reader      *)
(* monitor, the authorizer's own bus thread and one worker per reader.  A  *)
(* worker in a prompt is blocked in a call to the prompter helper; a       *)
(* worker that cannot be joined is abandoned and outlives the composition, *)
(* reaching only what it holds a share of.                                 *)
(***************************************************************************)
EXTENDS Naturals, Sequences, FiniteSets, SessionLifecycleWatch

CONSTANTS
    Workers,    \* the readers' workers
    Stuck,      \* those whose prompt the helper neither shows nor dismisses
    MaxRounds   \* kMaxDrainIterations

\* Three rounds are what a worker on the way to its prompt takes: register, be
\* shown, be dismissed.  The code has 40.
ASSUME ServiceAssumption ==
    Stuck \subseteq Workers /\ MaxRounds \in Nat /\ MaxRounds >= 3 /\ MaxSwitches \in Nat

VARIABLES
    pc,         \* the main thread
    parts,      \* the members that are constructed and not yet destroyed
    owned,      \* the well-known name is owned
    signalled,  \* SIGTERM or SIGINT is pending or taken
    token,      \* the agent-wide shutdown token is cancelled
    observers,  \* the registry's presence observers are set
    handlers,   \* the client-disconnect handlers are set
    wired,      \* the authorizer's answers are delivered through the poster
    monitor,    \* the reader monitor's thread: off, idle, busy, last (busy, stopping), stopped
    worker,     \* what each worker does
    rounds,     \* drain iterations done
    drained,    \* workers whose window the drain dismissed
    stray,      \* history: members reached after their destruction
    misfired    \* history: the config-changed callback used the frontend, or the
                \* service, after its destruction

mainVars == <<pc, parts, owned, signalled, token, observers, handlers, wired, rounds>>
vars == <<mainVars, monitor, worker, drained, stray, misfired, lifecycleVars>>

\* The members in declaration order; they are destroyed from the last to the first.
Members == <<"connection", "authorizer", "prompter", "poster", "exporter", "core", "frontend", "bridge">>

InGate == {"slot", "live", "shown", "back"}
OnCard == {"card", "changed"}
Operating == {"work", "finish"} \cup InGate \cup OnCard

Init ==
    /\ pc = "start"
    /\ parts = {}
    /\ owned = FALSE /\ signalled = FALSE /\ token = FALSE
    /\ observers = FALSE /\ handlers = FALSE /\ wired = FALSE
    /\ monitor = "off"
    /\ worker = [w \in Workers |-> "idle"]
    /\ rounds = 0
    /\ drained = {} /\ stray = {} /\ misfired = FALSE
    /\ LifecycleInit

-----------------------------------------------------------------------------
(* Who keeps what alive.                                                   *)

\* An operation co-owns the prompter and the connection; a probe its loop-post sink.
Shares(w) ==
    CASE worker[w] \in Operating -> {"prompter", "connection"}
      [] worker[w] = "probe"     -> {"poster"}
      [] OTHER                   -> {}

\* The answers of polkit travel through a share of the poster.
AuthorizerShares == IF "authorizer" \in parts /\ wired THEN {"poster"} ELSE {}

Alive(part) ==
    part \in parts \cup AuthorizerShares \cup UNION {Shares(w) : w \in Workers}

\* A call reaches these members.
Reach(those) == stray' = stray \cup {part \in those : ~Alive(part)}

-----------------------------------------------------------------------------
(* registerOnBus                                                           *)

Rest == <<signalled, token, rounds, monitor, worker, drained, stray, misfired>>

\* The session bus, after SIGTERM and SIGINT are masked for every thread to come.
OpenBus ==
    /\ pc = "start"
    /\ \/ pc' = "name" /\ parts' = parts \cup {"connection"}
       \/ pc' = "dropWatch" /\ UNCHANGED parts
    /\ UNCHANGED <<owned, observers, handlers, wired, Rest, lifecycleVars>>

\* The name, before anything is exported.
RequestName ==
    /\ pc = "name"
    /\ \/ pc' = "surface" /\ owned' = TRUE
       \/ pc' = "dropWatch" /\ UNCHANGED owned
    /\ UNCHANGED <<parts, observers, handlers, wired, Rest, lifecycleVars>>

\* The authorizer (polkit's or the default), the prompter client (with its sweep of
\* a predecessor's windows), transport, core and frontend, and the edges between
\* them; an exception leaves what was built before it.
BuildSurface ==
    LET built == <<"authorizer", "prompter", "exporter", "core", "frontend">>
    IN /\ pc = "surface"
       /\ \E n \in 1..Len(built) :
            /\ parts' = parts \cup {built[i] : i \in 1..n}
            /\ observers' = ("core" \in parts')
            /\ handlers' = ("frontend" \in parts')
            /\ pc' \in IF n = Len(built) THEN {"loop", "dropWatch"} ELSE {"dropWatch"}
    /\ UNCHANGED <<owned, wired, Rest, lifecycleVars>>

\* installEventLoop: the loop, the signal sources and the poster.
InstallEventLoop ==
    /\ pc = "loop"
    /\ \/ pc' = "watch" /\ parts' = parts \cup {"poster"} /\ wired' = TRUE
       \/ pc' = "dropWatch" /\ UNCHANGED <<parts, wired>>
    /\ UNCHANGED <<owned, observers, handlers, Rest, lifecycleVars>>

\* The lifecycle watch; without a system bus the agent runs without it.
WatchSession ==
    /\ pc = "watch"
    /\ pc' = "monitor"
    /\ Subscribe \/ UNCHANGED lifecycleVars
    /\ UNCHANGED <<parts, owned, observers, handlers, wired, Rest>>

\* The monitor, last: a card already seated is reported from inside start().
StartMonitor ==
    /\ pc = "monitor"
    /\ parts' = parts \cup {"bridge"}
    /\ \/ pc' = "run" /\ monitor' = "idle"
       \/ pc' = "dropWatch" /\ UNCHANGED monitor
    /\ UNCHANGED <<owned, signalled, token, observers, handlers, wired, rounds, worker, drained, stray,
                   misfired, lifecycleVars>>

Startup ==
    OpenBus \/ RequestName \/ BuildSurface \/ InstallEventLoop \/ WatchSession \/ StartMonitor

-----------------------------------------------------------------------------
(* run: the loop thread dispatches.                                        *)

\* A signal may come as soon as it is masked; it waits for the loop.
SignalArrives ==
    /\ pc # "start" /\ ~signalled
    /\ signalled' = TRUE
    /\ UNCHANGED <<pc, parts, owned, token, observers, handlers, wired, rounds, monitor, worker, drained,
                   stray, misfired, lifecycleVars>>

\* onShutdownSignal exits the loop; run() returns and the destructor begins.
ExitLoop ==
    /\ pc = "run" /\ signalled
    /\ pc' = "dropWatch"
    /\ UNCHANGED <<parts, owned, observers, handlers, wired, Rest, lifecycleVars>>

\* A client's call launches an operation on a reader's worker.
Launch(w) ==
    /\ pc = "run" /\ worker[w] = "idle"
    /\ worker' = [worker EXCEPT ![w] = "work"]
    /\ UNCHANGED <<mainVars, monitor, drained, stray, misfired, lifecycleVars>>

\* A client leaves the bus: its operation is cancelled and its window dismissed.
ClientLeaves(w) ==
    /\ pc = "run" /\ handlers
    /\ worker[w] = "shown" /\ w \notin Stuck
    /\ worker' = [worker EXCEPT ![w] = "back"]
    /\ Reach({"core"})
    /\ UNCHANGED <<mainVars, monitor, drained, misfired, lifecycleVars>>

\* A signal of logind, under the state mutex.
HandleLifecycle ==
    /\ pc = "run" /\ monitor # "busy"
    /\ Deliver
    /\ Reach({"core"})
    /\ UNCHANGED <<mainVars, monitor, worker, drained, misfired>>

-----------------------------------------------------------------------------
(* quiesce                                                                 *)

MainOnly == <<owned, signalled>>

\* 0) No sleep, lock or switch reaches the core from here on.
DropWatch ==
    /\ pc = "dropWatch"
    /\ pc' = "stopMonitor"
    /\ Unsubscribe
    /\ UNCHANGED <<parts, token, observers, handlers, wired, rounds, MainOnly, monitor, worker, drained, stray, misfired>>

\* 1) The presence source takes no further event ...
StopMonitor ==
    /\ pc = "stopMonitor"
    /\ pc' = "drainMonitor"
    /\ monitor' = CASE monitor = "idle" -> "stopped" [] monitor = "busy" -> "last" [] OTHER -> monitor
    /\ UNCHANGED <<parts, token, observers, handlers, wired, rounds, MainOnly, worker, drained, stray, misfired, lifecycleVars>>

\* ... and its dispatch in flight is waited for.
DrainMonitor ==
    /\ pc = "drainMonitor" /\ monitor # "last"
    /\ pc' = "clearHandlers"
    /\ UNCHANGED <<parts, token, observers, handlers, wired, rounds, MainOnly, monitor, worker, drained, stray,
                   misfired, lifecycleVars>>

\* 2) The client-liveness watch, and 3) the presence observers.
Sever ==
    /\ pc = "clearHandlers"
    /\ pc' = "teardownLoop"
    /\ handlers' = FALSE
    /\ observers' = FALSE
    /\ UNCHANGED <<parts, token, wired, rounds, MainOnly, monitor, worker, drained, stray, misfired, lifecycleVars>>

\* 4) teardownEventLoop: the connections leave the loop, the loop is freed.
TeardownEventLoop ==
    /\ pc = "teardownLoop"
    /\ pc' = "cryptoShutdown"
    /\ UNCHANGED <<parts, token, observers, handlers, wired, rounds, MainOnly, monitor, worker, drained, stray,
                   misfired, lifecycleVars>>

\* 5) requestCryptoShutdown, before any window is dismissed ...
RequestCryptoShutdown ==
    /\ pc = "cryptoShutdown"
    /\ token' = ("core" \in parts)
    /\ pc' = IF {"core", "prompter"} \subseteq parts THEN "drain" ELSE "release"
    /\ UNCHANGED <<parts, observers, handlers, wired, rounds, MainOnly, monitor, worker, drained, stray, misfired, lifecycleVars>>

\* MUTANT of LiveIds: the live set is read in the first round only.
LiveIdsOnce == IF rounds = 0 THEN {w \in Workers : worker[w] \in {"live", "shown"}} ELSE {}

\* promptSerializer().liveIds(): the prompts registered, shown yet or not.
LiveIds == {w \in Workers : worker[w] \in {"live", "shown"}}

\* ... then a round: dismiss every live id.  A cancel has its own connection: it may
\* be served ahead of the request it names, and is then lost.
DrainRound ==
    LET hit == {w \in LiveIds \ Stuck : worker[w] = "shown"}
    IN /\ pc = "drain"
       /\ pc' = "check"
       /\ worker' = [w \in Workers |-> IF w \in hit THEN "back" ELSE worker[w]]
       /\ drained' = drained \cup hit
       /\ Reach({"prompter", "core"})
       /\ UNCHANGED <<parts, token, observers, handlers, wired, rounds, MainOnly, monitor, misfired, lifecycleVars>>

HasPendingPrompt == \E w \in Workers : worker[w] \in InGate

\* MUTANT of DrainCheck: the drain goes on until the gate is empty.
DrainUntilEmpty ==
    /\ pc = "check"
    /\ pc' = IF HasPendingPrompt THEN "nap" ELSE "release"
    /\ UNCHANGED <<parts, token, observers, handlers, wired, rounds, MainOnly, monitor, worker, drained, stray,
                   misfired, lifecycleVars>>

\* The drain is over once no prompt is pending, or after the last round's nap.
DrainCheck ==
    /\ pc = "check"
    /\ pc' = IF HasPendingPrompt THEN "nap" ELSE "release"
    /\ rounds' = IF HasPendingPrompt THEN rounds + 1 ELSE rounds
    /\ UNCHANGED <<parts, token, observers, handlers, wired, MainOnly, monitor, worker, drained, stray, misfired, lifecycleVars>>

\* The step after a prompt: bail if the agent shuts down, else work on the card.
PastThePrompt == IF token THEN "idle" ELSE "card"

Onward(w) ==
    CASE worker[w] = "slot" -> "live"
      [] worker[w] = "live" -> "shown"
      [] worker[w] = "back" -> PastThePrompt
      [] OTHER              -> worker[w]

\* 50 ms pass: a worker in the gate takes at least one step of its own; one whose
\* prompt the helper does not show stays where it waits for it.
Nap ==
    /\ pc = "nap"
    /\ pc' = IF rounds = MaxRounds THEN "release" ELSE "drain"
    /\ worker' = [w \in Workers |-> IF w \in Stuck /\ worker[w] = "live" THEN "live" ELSE Onward(w)]
    /\ UNCHANGED <<parts, token, observers, handlers, wired, rounds, MainOnly, monitor, drained, stray, misfired, lifecycleVars>>

\* 6) The name is released.
ReleaseName ==
    /\ pc = "release"
    /\ pc' = "destroy"
    /\ owned' = FALSE
    /\ UNCHANGED <<parts, observers, handlers, wired, Rest, lifecycleVars>>

Quiesce ==
    DropWatch \/ StopMonitor \/ DrainMonitor \/ Sever \/ TeardownEventLoop \/ RequestCryptoShutdown
    \/ DrainRound \/ DrainCheck \/ Nap \/ ReleaseName

\* The members go in reverse order; the core joins idle workers, abandons the rest.
DestroyMember ==
    /\ pc = "destroy"
    /\ \/ parts = {} /\ pc' = "gone" /\ UNCHANGED parts
       \/ \E i \in DOMAIN Members :
            /\ Members[i] \in parts
            /\ \A j \in DOMAIN Members : j > i => Members[j] \notin parts
            /\ parts' = parts \ {Members[i]}
            /\ UNCHANGED pc
    /\ UNCHANGED <<owned, observers, handlers, wired, Rest, lifecycleVars>>

-----------------------------------------------------------------------------
(* The other threads.                                                      *)

\* The monitor's dispatch takes the state mutex ...
MonitorEnter ==
    /\ monitor = "idle"
    /\ monitor' = "busy"
    /\ UNCHANGED <<mainVars, worker, drained, stray, misfired, lifecycleVars>>

\* ... and delivers: to the core, over the observers to the transport and, through
\* its materializer, to the frontend, which may queue a probe on a worker.
MonitorDeliver ==
    /\ monitor \in {"busy", "last"}
    /\ monitor' = IF monitor = "busy" THEN "idle" ELSE "stopped"
    /\ Reach({"core"} \cup (IF observers THEN {"exporter"} ELSE {}))
    /\ \/ UNCHANGED worker
       \/ \E w \in Workers :
            /\ observers /\ "frontend" \in parts /\ worker[w] = "idle"
            /\ worker' = [worker EXCEPT ![w] = "probe"]
    /\ UNCHANGED <<mainVars, drained, misfired, lifecycleVars>>

\* polkit's answer, on the authorizer's thread, is posted to the loop.
AuthorizerAnswers ==
    /\ "authorizer" \in parts /\ wired
    /\ Reach({"poster"})
    /\ UNCHANGED <<mainVars, monitor, worker, drained, misfired, lifecycleVars>>

Goes(w, to) == worker' = [worker EXCEPT ![w] = to]

\* The probe posts its result.
ProbeDone(w) == worker[w] = "probe" /\ Goes(w, "idle") /\ Reach({"poster"}) /\ UNCHANGED misfired

\* MUTANT of EnterGate: a waiter enters the gate whatever its token says.
EnterGateAnyway(w) ==
    /\ worker[w] = "work"
    /\ Goes(w, "slot")
    /\ UNCHANGED <<stray, misfired>>

\* serialize(): a waiter whose token is cancelled never enters the gate.
EnterGate(w) ==
    /\ worker[w] = "work"
    /\ Goes(w, IF token THEN "idle" ELSE "slot")
    /\ UNCHANGED <<stray, misfired>>

\* An operation that needs no prompt.
NoPrompt(w) == worker[w] = "work" /\ Goes(w, PastThePrompt) /\ UNCHANGED <<stray, misfired>>

\* registerLivePrompt, the dialog stamped with its reader: the identity resolver
\* borrows the exporter.
RegisterLive(w) == worker[w] = "slot" /\ Goes(w, "live") /\ Reach({"exporter"}) /\ UNCHANGED misfired

\* RequestSecret reaches the helper, and the window is up.
Raise(w) ==
    /\ worker[w] = "live" /\ w \notin Stuck
    /\ Goes(w, "shown")
    /\ Reach({"prompter"}) /\ UNCHANGED misfired

\* The holder answers, or the call's budget passes.
Answered(w) == worker[w] \in {"live", "shown"} /\ Goes(w, "back") /\ Reach({"prompter"}) /\ UNCHANGED misfired

\* The call returned: the flow's post-prompt gate.
AfterPrompt(w) == worker[w] = "back" /\ Goes(w, PastThePrompt) /\ UNCHANGED <<stray, misfired>>

\* The card has done its part, which no token interrupts: the shutdown check ahead
\* of the completion.
Completion == IF token THEN "idle" ELSE "finish"

\* An operation that records nothing, like most.
CardDone(w) == worker[w] = "card" /\ Goes(w, Completion) /\ UNCHANGED <<stray, misfired>>

\* A signing that used a time stamp records LastTsaUrl, before that check.  The
\* store's on-changed callback captured the service: it tests m_frontend ...
OnConfigChanged(w) ==
    /\ worker[w] = "card"
    /\ \/ Goes(w, "changed")
       \/ "frontend" \notin parts /\ Goes(w, Completion)
    /\ misfired' = (misfired \/ pc = "gone")
    /\ UNCHANGED stray

\* ... and calls it.
EmitConfigChanged(w) ==
    /\ worker[w] = "changed"
    /\ Goes(w, Completion)
    /\ misfired' = (misfired \/ "frontend" \notin parts)
    /\ UNCHANGED stray

\* The completion is emitted on the connection; the operation is destroyed.
Complete(w) == worker[w] = "finish" /\ Goes(w, "idle") /\ Reach({"connection"}) /\ UNCHANGED misfired

WorkerStep(w) ==
    /\ \/ ProbeDone(w) \/ EnterGate(w) \/ NoPrompt(w) \/ RegisterLive(w)
       \/ Raise(w) \/ Answered(w) \/ AfterPrompt(w)
       \/ CardDone(w) \/ OnConfigChanged(w) \/ EmitConfigChanged(w) \/ Complete(w)
    /\ UNCHANGED <<mainVars, monitor, drained, lifecycleVars>>

World ==
    /\ \/ \E start \in BOOLEAN : Sleeps(start)
       \/ LockRequested \/ SessionChanges
       \/ \E what \in {"lease", "secret"} : pc = "run" /\ Remember(what)
    /\ watch # "none"
    /\ UNCHANGED <<mainVars, monitor, worker, drained, stray, misfired>>

-----------------------------------------------------------------------------
Main == Startup \/ ExitLoop \/ Quiesce \/ DestroyMember

Next ==
    \/ \E w \in Workers : Launch(w) \/ ClientLeaves(w) \/ WorkerStep(w)
    \/ Main
    \/ SignalArrives \/ HandleLifecycle
    \/ MonitorEnter \/ MonitorDeliver \/ AuthorizerAnswers
    \/ World

(***************************************************************************)
(* FAIRNESS.  The main thread goes on, and so does the monitor's dispatch; *)
(* nothing is assumed of the workers, the helper or the holder.            *)
(***************************************************************************)
Spec == Init /\ [][Next]_vars
FairSpec == Spec /\ WF_vars(Main) /\ WF_vars(MonitorDeliver)

-----------------------------------------------------------------------------
(***************************************************************************)
(* PROPERTIES.                                                             *)
(***************************************************************************)

\* Taking the agent apart never meets a thread that still uses it: no dispatch of
\* the monitor or of a lifecycle signal, no answer of polkit, no probe and no prompt
\* or completion of a worker, joined or abandoned, reaches a destroyed member, be it
\* co-owned (prompter, connection, poster) or borrowed (core, exporter); and a worker
\* whose window the drain dismissed never goes on to the card or to its completion.
\* The config-changed callback, which quiesce does not clear and which "guards on
\* m_frontend so a stray callback during teardown is a no-op", finds the frontend it
\* tested standing until the members go; once they do, a worker still busy on the card
\* can use a frontend, or a service, that is no more.
NothingReachesTheDead ==
    /\ stray = {}
    /\ \A w \in drained : worker[w] \notin OnCard \cup {"finish"}
    /\ misfired => pc \in {"destroy", "gone"}

\* Every prompt that can be dismissed is: when the drain ends, only workers whose
\* window the helper will not dismiss are still in the gate, also if a worker was
\* about to prompt when the drain began or its request was served after a cancel;
\* no name is released, and no core destroyed, over a standing window.
DrainLeavesOnlyTheStuck ==
    pc \in {"release", "destroy", "gone"} =>
        {w \in Workers : worker[w] \in InGate} \subseteq Stuck

\* SIGTERM or SIGINT ends the agent, whenever it arrives, with workers wedged in a
\* prompt and with a helper that dismisses nothing.
StopsAfterSignal == signalled ~> (pc = "gone")

=============================================================================
