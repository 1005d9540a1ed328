----------------------------- MODULE GrantedCall -----------------------------
(***************************************************************************)
(* A Card1 method that needs authorization: Sign, SignBatch, ManagePin and *)
(* ActivateSigningKey (agent/src/dbus/CardObject.cpp) over                 *)
(* authorizeThenReply (AuthorizedReply.h), GrantGate and PolkitAuthorizer. *)
(*                                                                         *)
(* The loop thread dispatches the call and returns; polkit answers later,  *)
(* on the authorizer's own system-bus thread, which posts the answer back  *)
(* to the loop thread.  Meanwhile the monitor thread may destroy the card  *)
(* object, the client may leave the bus and the agent may be told to stop. *)
(* One card object is modelled: calls on two objects share no state here.  *)
(***************************************************************************)
EXTENDS Naturals

CONSTANTS
    Calls,      \* method calls, each dispatched once
    Clients,    \* unique bus names
    NoClient,   \* the caller of a call that is not dispatched yet
    NoCall      \* the loop thread is not inside a granted body

ASSUME CallAssumption ==
    /\ NoClient \notin Clients
    /\ NoCall \notin Calls

VARIABLES
    stage,      \* of each call: idle, asked, posted, running, done
    caller,     \* the client of each call, captured by value at dispatch
    outcome,    \* what the authority decided: none, Granted, Denied, Undecided
    reply,      \* what the client was told, "none" so far
    replies,    \* how many replies were sent for the call
    ops,        \* calls whose operation was launched and has not ended
    launched,   \* calls whose operation was ever launched
    cancelled,  \* calls whose operation was cancelled
    dropped,    \* clients whose NameOwnerChanged drop has been handled
    object,     \* the CardObject: exported, dying (in ~CardObject), destroyed
    gate,       \* GrantGate: open or closed
    running,    \* the call whose body holds the gate's mutex
    agent       \* up, stopped (loop returned), gone (authorizer destroyed)

callVars  == <<stage, caller, outcome, reply, replies>>
opVars    == <<ops, launched, cancelled>>
objVars   == <<object, gate>>
vars == <<callVars, opVars, dropped, objVars, running, agent>>

Stages   == {"idle", "asked", "posted", "running", "done"}
Outcomes == {"none", "Granted", "Denied", "Undecided"}
Replies  == {"none", "Refused", "NotAuthorized", "NoAnswer", "WentAway", "Stopped", "Operation"}

\* Replies that tell the client that nothing was changed.
NothingChanged == {"Refused", "NotAuthorized", "NoAnswer", "WentAway", "Stopped"}

Init ==
    /\ stage = [k \in Calls |-> "idle"]
    /\ caller = [k \in Calls |-> NoClient]
    /\ outcome = [k \in Calls |-> "none"]
    /\ reply = [k \in Calls |-> "none"]
    /\ replies = [k \in Calls |-> 0]
    /\ ops = {}
    /\ launched = {}
    /\ cancelled = {}
    /\ dropped = {}
    /\ object = "exported"
    /\ gate = "open"
    /\ running = NoCall
    /\ agent = "up"

-----------------------------------------------------------------------------
\* The loop thread is free to dispatch a message or run a posted closure.
LoopFree == agent = "up" /\ running = NoCall

\* One reply to call k, which is then finished.
Answer(k, r) ==
    /\ stage' = [stage EXCEPT ![k] = "done"]
    /\ reply' = [reply EXCEPT ![k] = r]
    /\ replies' = [replies EXCEPT ![k] = @ + 1]

\* A method entry that fails its capability or argument check.
DispatchRefused(k, c) ==
    /\ LoopFree
    /\ object # "destroyed"
    /\ stage[k] = "idle"
    /\ c \notin dropped
    /\ caller' = [caller EXCEPT ![k] = c]
    /\ Answer(k, "Refused")
    /\ UNCHANGED <<outcome, opVars, dropped, objVars, running, agent>>

\* The question cannot be put to polkit: the caller's pid, start time and uid do
\* not make a subject, or the call cannot be sent.  Answered inside the dispatch.
AskFails(k, c) ==
    /\ LoopFree
    /\ object # "destroyed"
    /\ stage[k] = "idle"
    /\ c \notin dropped
    /\ caller' = [caller EXCEPT ![k] = c]
    /\ outcome' = [outcome EXCEPT ![k] = "Undecided"]
    /\ Answer(k, "NoAnswer")
    /\ UNCHANGED <<opVars, dropped, objVars, running, agent>>

\* The method asks polkit and returns without a reply; the dispatcher holds
\* the bus lock, so the object is not unregistered under it.
DispatchAsks(k, c) ==
    /\ LoopFree
    /\ object # "destroyed"
    /\ stage[k] = "idle"
    /\ c \notin dropped
    /\ caller' = [caller EXCEPT ![k] = c]
    /\ stage' = [stage EXCEPT ![k] = "asked"]
    /\ UNCHANGED <<outcome, reply, replies, opVars, dropped, objVars, running, agent>>

\* The reply handler on the system-bus thread: an error or the 90 s budget is
\* Undecided; deliver() posts the completion to the loop.
PolkitAnswers(k, decided) ==
    /\ agent # "gone"
    /\ stage[k] = "asked"
    /\ stage' = [stage EXCEPT ![k] = "posted"]
    /\ outcome' = [outcome EXCEPT ![k] = decided]
    /\ UNCHANGED <<caller, reply, replies, opVars, dropped, objVars, running, agent>>

\* MUTANT of CompleteRefused: an undecided authorization is reported as denied.
CompleteAllAsDenied(k) ==
    /\ LoopFree
    /\ stage[k] = "posted"
    /\ outcome[k] # "Granted"
    /\ Answer(k, "NotAuthorized")
    /\ UNCHANGED <<caller, outcome, opVars, dropped, objVars, running, agent>>

\* The completion on the loop thread, without a grant.
CompleteRefused(k) ==
    /\ LoopFree
    /\ stage[k] = "posted"
    /\ outcome[k] # "Granted"
    /\ Answer(k, IF outcome[k] = "Denied" THEN "NotAuthorized" ELSE "NoAnswer")
    /\ UNCHANGED <<caller, outcome, opVars, dropped, objVars, running, agent>>

\* MUTANT of CompleteGranted: the gate is not asked whether it is open.
CompleteUngated(k) ==
    /\ LoopFree
    /\ stage[k] = "posted"
    /\ outcome[k] = "Granted"
    /\ stage' = [stage EXCEPT ![k] = "running"]
    /\ running' = k
    /\ UNCHANGED <<caller, outcome, reply, replies, opVars, dropped, objVars, agent>>

\* The completion with a grant: runIfOpen takes the gate's mutex and enters the
\* body, or finds the gate closed.
CompleteGranted(k) ==
    /\ LoopFree
    /\ stage[k] = "posted"
    /\ outcome[k] = "Granted"
    /\ IF gate = "open"
       THEN /\ stage' = [stage EXCEPT ![k] = "running"]
            /\ running' = k
            /\ UNCHANGED <<reply, replies>>
       ELSE /\ Answer(k, "WentAway")
            /\ UNCHANGED running
    /\ UNCHANGED <<caller, outcome, opVars, dropped, objVars, agent>>

\* The granted body throws: rate limit, unreadable or empty document, rejected
\* options, unknown credential, or a full operation backlog.
BodyRefuses(k) ==
    /\ running = k
    /\ k \notin launched
    /\ Answer(k, "Refused")
    /\ running' = NoCall
    /\ UNCHANGED <<caller, outcome, opVars, dropped, objVars, agent>>

\* launch(): the operation is recorded for the caller, then queued.
BodyLaunches(k) ==
    /\ running = k
    /\ k \notin launched
    /\ launched' = launched \union {k}
    /\ ops' = ops \union {k}
    /\ UNCHANGED <<callVars, cancelled, dropped, objVars, running, agent>>

\* MUTANT of BodyReturns: runIfOpen leaves the gate's mutex locked.
BodyReturnsLocked(k) ==
    /\ running = k
    /\ k \in launched
    /\ stage[k] = "running"
    /\ Answer(k, "Operation")
    /\ UNCHANGED <<caller, outcome, opVars, dropped, objVars, running, agent>>

\* replyWith returns the operation's path; the gate's mutex is released.
BodyReturns(k) ==
    /\ running = k
    /\ k \in launched
    /\ Answer(k, "Operation")
    /\ running' = NoCall
    /\ UNCHANGED <<caller, outcome, opVars, dropped, objVars, agent>>

\* The operation scheduler ends an operation (external).
OperationEnds(k) ==
    /\ k \in ops
    /\ ops' = ops \ {k}
    /\ UNCHANGED <<callVars, launched, cancelled, dropped, objVars, running, agent>>

\* NameOwnerChanged: every operation recorded for that caller is cancelled.
ClientDrops(c) ==
    /\ LoopFree
    /\ c \notin dropped
    /\ dropped' = dropped \union {c}
    /\ cancelled' = cancelled \union {k \in ops : caller[k] = c}
    /\ UNCHANGED <<callVars, ops, launched, objVars, running, agent>>

\* The last owner drops the CardObject: monitor thread, or teardown.
BeginDestroy ==
    /\ object = "exported"
    /\ object' = "dying"
    /\ UNCHANGED <<callVars, opVars, dropped, gate, running, agent>>

\* GrantGate::close() waits for the mutex a running body holds.
CloseGate ==
    /\ object = "dying"
    /\ gate = "open"
    /\ running = NoCall
    /\ gate' = "closed"
    /\ UNCHANGED <<callVars, opVars, dropped, object, running, agent>>

\* The rest of ~CardObject: InterfacesRemoved, unregisterAdaptor, members.
FinishDestroy ==
    /\ object = "dying"
    /\ gate = "closed"
    /\ object' = "destroyed"
    /\ UNCHANGED <<callVars, opVars, dropped, gate, running, agent>>

\* SIGTERM: sd_event_loop returns between two closures.
StopLoop ==
    /\ LoopFree
    /\ agent' = "stopped"
    /\ UNCHANGED <<callVars, opVars, dropped, objVars, running>>

\* Calls whose completion was still held by the authorizer or by the poster.
Unanswered == {k \in Calls : stage[k] \in {"asked", "posted"}}

\* MUTANT of DestroyAuthorizer: PendingReply has no destructor.
DropCompletionsSilently ==
    /\ agent = "stopped"
    /\ object = "destroyed"
    /\ agent' = "gone"
    /\ stage' = [k \in Calls |-> IF k \in Unanswered THEN "done" ELSE stage[k]]
    /\ UNCHANGED <<caller, outcome, reply, replies, opVars, dropped, objVars, running>>

\* Teardown: the frontend and its objects are gone; ~PolkitAuthorizer drops the
\* outstanding questions and, with the poster, the completions the loop never
\* ran.  ~PendingReply answers each of them.
DestroyAuthorizer ==
    /\ agent = "stopped"
    /\ object = "destroyed"
    /\ agent' = "gone"
    /\ stage' = [k \in Calls |-> IF k \in Unanswered THEN "done" ELSE stage[k]]
    /\ reply' = [k \in Calls |-> IF k \in Unanswered THEN "Stopped" ELSE reply[k]]
    /\ replies' = [k \in Calls |-> IF k \in Unanswered THEN replies[k] + 1 ELSE replies[k]]
    /\ UNCHANGED <<caller, outcome, opVars, dropped, objVars, running>>

CallStep(k) ==
    \/ \E c \in Clients : DispatchRefused(k, c) \/ AskFails(k, c) \/ DispatchAsks(k, c)
    \/ \E decided \in {"Granted", "Denied", "Undecided"} : PolkitAnswers(k, decided)
    \/ CompleteRefused(k)
    \/ CompleteGranted(k)
    \/ BodyRefuses(k)
    \/ BodyLaunches(k)
    \/ BodyReturns(k)
    \/ OperationEnds(k)

Destroy == BeginDestroy \/ CloseGate \/ FinishDestroy

Next ==
    \/ \E k \in Calls : CallStep(k)
    \/ \E c \in Clients : ClientDrops(c)
    \/ Destroy
    \/ StopLoop
    \/ DestroyAuthorizer

Spec == Init /\ [][Next]_vars

-----------------------------------------------------------------------------
(***************************************************************************)
(* FAIRNESS.  polkit answers, or the 90 s budget does.  The loop runs      *)
(* every posted completion while it runs at all (other closures come in    *)
(* between, hence strong), a body ends, and a destructor that was entered  *)
(* finishes.  Once the loop has stopped, the teardown goes through.        *)
(***************************************************************************)
Fairness ==
    /\ \A k \in Calls :
          /\ WF_vars(\E decided \in {"Granted", "Denied", "Undecided"} : PolkitAnswers(k, decided))
          /\ SF_vars(CompleteRefused(k) \/ CompleteGranted(k))
          /\ WF_vars(BodyRefuses(k) \/ BodyLaunches(k) \/ BodyReturns(k))
    /\ SF_vars(CloseGate)
    /\ WF_vars(FinishDestroy)
    /\ WF_vars(agent = "stopped" /\ BeginDestroy)
    /\ WF_vars(DestroyAuthorizer)

FairSpec == Spec /\ Fairness

-----------------------------------------------------------------------------
(***************************************************************************)
(* PROPERTIES.                                                             *)
(***************************************************************************)

\* Every variable stays in its range.
TypeOK ==
    /\ stage \in [Calls -> Stages]
    /\ caller \in [Calls -> Clients \union {NoClient}]
    /\ outcome \in [Calls -> Outcomes]
    /\ reply \in [Calls -> Replies]
    /\ replies \in [Calls -> 0..1]
    /\ ops \subseteq Calls
    /\ launched \subseteq Calls
    /\ cancelled \subseteq Calls
    /\ dropped \subseteq Clients
    /\ object \in {"exported", "dying", "destroyed"}
    /\ gate \in {"open", "closed"}
    /\ running \in Calls \union {NoCall}
    /\ agent \in {"up", "stopped", "gone"}

\* A grant never runs on a destroyed object: the destructor that races it waits
\* for the body, and a later grant finds the gate closed (GrantGate).
GrantedBodyOnLiveObject ==
    running # NoCall => object # "destroyed" /\ gate = "open"

\* A call gets at most one reply, whichever of completion, closed gate and teardown
\* answers it, and what the client is told is what happened: an operation exists only after a
\* grant, a reply that nothing was changed means that no operation was launched,
\* and "not authorized" is said only of a refusal the authority really made.
ReplyIsTruthful ==
    \A k \in Calls :
        /\ replies[k] <= 1
        /\ k \in launched => outcome[k] = "Granted" /\ reply[k] \in {"none", "Operation"}
        /\ reply[k] \in NothingChanged => k \notin launched
        /\ reply[k] = "Operation" => k \in launched
        /\ reply[k] = "NotAuthorized" => outcome[k] = "Denied"
        /\ outcome[k] = "Undecided" => reply[k] \in {"none", "NoAnswer", "Stopped"}

\* Every call the agent took is answered, also when the card is pulled during
\* the password dialog and when the agent stops before polkit answers.
EveryCallAnswered ==
    \A k \in Calls : (stage[k] # "idle") ~> (replies[k] = 1)

\* The monitor thread, in ~CardObject under the bridge's state mutex, is not
\* held up for ever by the grants of the calls still pending on the card.
DestructorFinishes == (object = "dying") ~> (object = "destroyed")

\* TypedResultStore.h: "card removal, or owner-client disconnect all destroy the
\* op".  Once a client's drop was handled, no operation of it runs uncancelled.
DepartedClientHasNoOperation ==
    \A k \in ops : caller[k] \in dropped => k \in cancelled

=============================================================================
