------------------------------ MODULE Prompter ------------------------------
(***************************************************************************)
(* The credential prompt, end to end: the agent's PrompterClient, the      *)
(* session bus between the two processes, and the prompter helper with its *)
(* bus thread, its Qt main thread and its registry of standing windows.    *)
(*                                                                         *)
(* A worker of the agent asks for one secret: it refuses a helper that is  *)
(* too old, sends RequestSecret on a connection of its own and blocks for  *)
(* at most the interactive budget.  The helper's bus thread authorises the *)
(* call and posts to the Qt thread, which raises a window, registers it    *)
(* under the caller's pid and the prompt's id, and answers when the window *)
(* finishes.  Cancel names one window, Reset closes them all.  The agent   *)
(* may crash and be started again while windows stand, and the helper may  *)
(* exit and be activated again.                                            *)
(***************************************************************************)
EXTENDS Naturals, Sequences, SequencesExt, FiniteSets

CONSTANTS
    Prompts,      \* the prompts asked for in one behaviour
    Ids,          \* the values a prompt_id option takes
    NoId,         \* the empty prompt_id: an unaddressable prompt
    Nobody,       \* no prompt (fills the unused field of a message)
    Asks,         \* the requests asked: [kind, budget, alt], the entry times 0 where unset
    MaxAgents,    \* bound: agent processes, one after the other
    MaxExits      \* bound: exits of the helper

Kinds == {"secret", "offer", "change"}

ASSUME PrompterAssumption ==
    /\ NoId \notin Ids
    /\ Nobody \notin Prompts
    /\ Asks \subseteq [kind : Kinds, budget : Nat, alt : Nat]
    /\ MaxAgents \in Nat \ {0}
    /\ MaxExits \in Nat

VARIABLES
    agent,        \* the pid of the newest agent process: 1, 2, ...
    up,           \* that process runs
    capability,   \* PrompterClient::m_capability
    call,         \* per prompt, where the worker's request() stands
    owner,        \* per prompt, the pid of the agent that asked (0: not asked)
    id,           \* per prompt, options.promptId
    ask,          \* per prompt, what was asked
    result,       \* per prompt, the PromptResult handed to the worker's caller
    helper,       \* the contract the running helper implements
    bus,          \* calls routed to the helper, oldest first
    gui,          \* functors posted to the Qt main thread, oldest first
    registry,     \* PromptRegistry: the standing prompts, in raise order
    window,       \* per prompt, its PromptDialog
    form,         \* per prompt, the form its dialog shows
    clock,        \* per prompt, m_entryBudget, the time since m_shownAt and when
                  \*   m_deadlineTimer is due on that scale (0: no timer)
    reply,        \* per prompt, the answer on its way back
    exits,        \* exits of the helper so far
    replies,      \* history: how often each prompt was answered
    cancels,      \* history: prompts whose operation was cancelled
    declined,     \* history: prompts the holder cancelled in the window
    dismissed,    \* history: prompts named by a Cancel served after them
    resetBy       \* history: the newest agent whose Reset was served

agentVars == <<agent, up, capability, call, owner, id, ask, result>>
helperVars == <<helper, gui, registry, window, form, clock, reply, exits>>
history == <<replies, cancels, declined, dismissed, resetBy>>
vars == <<agentVars, helperVars, bus, history>>

NoSecret == "none"
Words == {"none", "ok", "okMrz", "cancelled", "timeout", "error", "unauthorized"}
Statuses == {"none", "Ok", "Cancelled", "Timeout", "Error", "HelperTooOld"}
Forms == {"asked", "mrz"}
Pids == 0..MaxAgents

NoAnswer == [word |-> "none", fd |-> NoSecret]
NoResult == [status |-> "none", chosen |-> NoSecret, secret |-> NoSecret]
Failed(status) == [status |-> status, chosen |-> NoSecret, secret |-> NoSecret]

Message(what, p, i, pid) == [do |-> what, prompt |-> p, id |-> i, by |-> pid]
Request(p) == Message("request", p, id[p], owner[p])
CancelOf(p) == Message("cancel", Nobody, id[p], owner[p])
ResetBy(pid) == Message("reset", Nobody, NoId, pid)
RejectOf(p) == Message("reject", p, NoId, 0)

Calls == [do : {"request", "cancel", "reset"}, prompt : Prompts \cup {Nobody},
          id : Ids \cup {NoId}, by : Pids]
Jobs == [do : {"raise", "dismiss", "sweep", "reject"},
         prompt : Prompts \cup {Nobody}, id : Ids \cup {NoId}, by : Pids]

Running(p) == up /\ owner[p] = agent
Shown(p) == window[p] = "shown"

-----------------------------------------------------------------------------
(* The agent: PrompterClient                                               *)

\* MUTANT of Usability: every helper passes for a usable one.
UsabilityUnchecked == {"usable"}

\* What prompterUsability answers: the remembered verdict, or else a probe of
\* the helper's ProtocolVersion, which may also not be reached.
Usability ==
    IF capability # "unknown" THEN {capability}
    ELSE {"unreachable", IF helper = "current" THEN "usable" ELSE "tooOld"}

\* Only a definite verdict is remembered.
Remembered(verdict) == IF verdict = "unreachable" THEN capability ELSE verdict

\* refuseUnlessUsable: what a request is answered with before any window.
Refusal(verdict) == Failed(IF verdict = "tooOld" THEN "HelperTooOld" ELSE "Error")

\* A worker enters request()/requestPinChange() and the helper is judged.  The
\* id is the caller's: two prompts of one agent carry two ids, but a restarted
\* agent may mint the ids of its predecessor again.
Ask(p, i) ==
    /\ up /\ call[p] = "idle"
    /\ \A q \in Prompts : (owner[q] = agent /\ i # NoId) => id[q] # i
    /\ \E verdict \in Usability :
         /\ capability' = Remembered(verdict)
         /\ IF verdict = "usable"
              THEN call' = [call EXCEPT ![p] = "cleared"] /\ UNCHANGED result
              ELSE /\ call' = [call EXCEPT ![p] = "done"]
                   /\ result' = [result EXCEPT ![p] = Refusal(verdict)]
    /\ owner' = [owner EXCEPT ![p] = agent]
    /\ id' = [id EXCEPT ![p] = i]
    /\ UNCHANGED <<agent, up, ask, helperVars, bus, history>>

\* The worker's own connection carries RequestSecret(s) to the helper.
Send(p) ==
    /\ Running(p) /\ call[p] = "cleared"
    /\ call' = [call EXCEPT ![p] = "waiting"]
    /\ bus' = Append(bus, Request(p))
    /\ UNCHANGED <<agent, up, capability, owner, id, ask, result, helperVars, history>>

\* MUTANT of CallFails: the abandoned window is left to itself.
CallFailsWithoutCancel(p) ==
    /\ Running(p) /\ call[p] \in {"cleared", "waiting"}
    /\ call' = [call EXCEPT ![p] = "done"]
    /\ result' = [result EXCEPT ![p] = Failed("Error")]
    /\ UNCHANGED <<agent, up, capability, owner, id, ask, helperVars, bus, history>>

\* The call throws sdbus::Error: no connection, the helper gone, or the
\* interactive budget spent, possibly with the answer already on its way.  The
\* abandoned window is dismissed by its id; that Cancel may itself be lost.
CallFails(p) ==
    /\ Running(p) /\ call[p] \in {"cleared", "waiting"}
    /\ \/ call' = [call EXCEPT ![p] = "done"] /\ bus' = Append(bus, CancelOf(p))
       \/ call' = [call EXCEPT ![p] = "stranded"] /\ UNCHANGED bus
    /\ result' = [result EXCEPT ![p] = Failed("Error")]
    /\ UNCHANGED <<agent, up, capability, owner, id, ask, helperVars, history>>

\* The status a reply word stands for (promptStatusFor of the agent library):
\* the MRZ word is a success only to a caller that offered the switch.
Status(word, offered) ==
    CASE word = "ok" -> "Ok"
      [] word = "okMrz" -> IF offered THEN "Ok" ELSE "Error"
      [] word = "cancelled" -> "Cancelled"
      [] word = "timeout" -> "Timeout"
      [] OTHER -> "Error"

\* parseRequestSecretStatus and the memfd read that follows a success: a secret
\* that cannot be read (or half of a PIN change) leaves no secret and no kind.
Parsed(p, readable) ==
    LET status == Status(reply[p].word, ask[p].kind = "offer") IN
    IF status # "Ok" THEN Failed(status)
    ELSE IF ~readable THEN Failed("Error")
    ELSE [status |-> "Ok", secret |-> reply[p].fd,
          chosen |-> IF reply[p].word = "okMrz" THEN "mrz" ELSE NoSecret]

\* The blocked call returns with the helper's answer.
Receive(p) ==
    /\ Running(p) /\ call[p] = "waiting" /\ reply[p] # NoAnswer
    /\ call' = [call EXCEPT ![p] = "done"]
    /\ \E readable \in BOOLEAN : result' = [result EXCEPT ![p] = Parsed(p, readable)]
    /\ reply' = [reply EXCEPT ![p] = NoAnswer]
    /\ UNCHANGED <<agent, up, capability, owner, id, ask, helper, gui, registry, window,
                   form, clock, exits, bus, history>>

\* The operation behind the prompt is cancelled: another thread calls cancel()
\* with the prompt's id, on a connection of its own, whatever the worker does.
OperationCancelled(p) ==
    /\ Running(p) /\ call[p] \in {"cleared", "waiting"} /\ p \notin cancels
    /\ bus' = Append(bus, CancelOf(p))
    /\ cancels' = cancels \cup {p}
    /\ UNCHANGED <<agentVars, helperVars, replies, declined, dismissed, resetBy>>

\* The agent process dies; the helper is a unit of its own and keeps running.
AgentCrash ==
    /\ up /\ agent < MaxAgents
    /\ up' = FALSE
    /\ capability' = "unknown"
    /\ call' = [p \in Prompts |-> IF call[p] \in {"cleared", "waiting"} THEN "lost" ELSE call[p]]
    /\ UNCHANGED <<agent, owner, id, ask, result, helperVars, bus, history>>

\* A new agent claims its name and, before anything can prompt, calls
\* resetPrompter(), which may fail to reach the helper.
AgentStart ==
    /\ ~up
    /\ agent' = agent + 1
    /\ up' = TRUE
    /\ bus' \in {bus, Append(bus, ResetBy(agent + 1))}
    /\ UNCHANGED <<capability, call, owner, id, ask, result, helperVars, history>>

-----------------------------------------------------------------------------
(* The helper's bus thread: PrompterService's method handlers              *)

\* authorizeCaller: the pinned /proc lookup passes the running agent.  It fails
\* closed for a process that is gone, unless it has not been reaped yet.
Authorized(pid) == IF up /\ pid = agent THEN {TRUE} ELSE BOOLEAN

\* answerSecret / answerSecrets: the prompt is answered.  The answer is lost on a
\* caller that is gone, and when the empty memfd of a no-secret reply could not be
\* made: the wire cannot carry -1, and the throw is swallowed.
Answer(p, word, fd) ==
    /\ \/ /\ call[p] = "waiting"
          /\ reply' = [reply EXCEPT ![p] = [word |-> word, fd |-> fd]]
       \/ /\ call[p] # "waiting" \/ fd = NoSecret
          /\ UNCHANGED reply
    /\ replies' = [replies EXCEPT ![p] = @ + 1]

NextCall(what) == bus # <<>> /\ Head(bus).do = what /\ bus' = Tail(bus)

\* MUTANT of DispatchRequest: a post that was taken is answered as one that failed.
DispatchRequestUnsure ==
    /\ NextCall("request")
    /\ LET m == Head(bus) IN
         /\ gui' = Append(gui, [m EXCEPT !.do = "raise"])
         /\ Answer(m.prompt, "error", NoSecret)
    /\ UNCHANGED <<agentVars, helper, registry, window, form, clock, exits,
                   cancels, declined, dismissed, resetBy>>

\* RequestSecret / RequestSecrets: refused, posted to the Qt thread, or failed
\* because the post was not taken.
DispatchRequest ==
    /\ NextCall("request")
    /\ LET m == Head(bus) IN
         \/ /\ TRUE \in Authorized(m.by)
            /\ gui' = Append(gui, [m EXCEPT !.do = "raise"])
            /\ UNCHANGED <<reply, replies>>
         \/ /\ TRUE \in Authorized(m.by)
            /\ Answer(m.prompt, "error", NoSecret)
            /\ UNCHANGED gui
         \/ /\ FALSE \in Authorized(m.by)
            /\ Answer(m.prompt, "unauthorized", NoSecret)
            /\ UNCHANGED gui
    /\ UNCHANGED <<agentVars, helper, registry, window, form, clock, exits,
                   cancels, declined, dismissed, resetBy>>

\* The prompts a Cancel of id i by pid is about: raised, or about to be.
Addressed(i, pid) ==
    {p \in Prompts : /\ i # NoId /\ id[p] = i /\ owner[p] = pid
                     /\ \/ Shown(p)
                        \/ \E k \in DOMAIN gui : gui[k].do = "raise" /\ gui[k].prompt = p}

\* MUTANT of DispatchCancel: the registry is searched at once, on the bus thread.
DispatchCancelAtOnce ==
    /\ NextCall("cancel")
    /\ LET m == Head(bus)
           found == SelectSeq(registry, LAMBDA p : m.id # NoId /\ id[p] = m.id /\ owner[p] = m.by)
       IN /\ gui' = gui \o [k \in DOMAIN found |-> RejectOf(found[k])]
          /\ dismissed' = dismissed \cup Addressed(m.id, m.by)
    /\ UNCHANGED <<agentVars, helper, registry, window, form, clock, reply, exits,
                   replies, cancels, declined, resetBy>>

\* Cancel: the lookup itself is posted.  A helper of protocol 1 has no such method.
DispatchCancel ==
    /\ NextCall("cancel")
    /\ LET m == Head(bus) IN
         \/ /\ helper = "current" /\ TRUE \in Authorized(m.by)
            /\ gui' = Append(gui, [m EXCEPT !.do = "dismiss"])
            /\ dismissed' = dismissed \cup Addressed(m.id, m.by)
         \/ /\ helper = "old" \/ FALSE \in Authorized(m.by)
            /\ UNCHANGED <<gui, dismissed>>
    /\ UNCHANGED <<agentVars, helper, registry, window, form, clock, reply, exits,
                   replies, cancels, declined, resetBy>>

\* Reset: the binary-identity gate only, then a posted sweep.
DispatchReset ==
    /\ NextCall("reset")
    /\ LET m == Head(bus) IN
         \/ /\ helper = "current" /\ TRUE \in Authorized(m.by)
            /\ gui' = Append(gui, [m EXCEPT !.do = "sweep"])
            /\ resetBy' = m.by
         \/ /\ helper = "old" \/ FALSE \in Authorized(m.by)
            /\ UNCHANGED <<gui, resetBy>>
    /\ UNCHANGED <<agentVars, helper, registry, window, form, clock, reply, exits,
                   replies, cancels, declined, dismissed>>

-----------------------------------------------------------------------------
(* The helper's Qt main thread: windows and PromptRegistry                 *)

\* MUTANT of Entries: the empty id is looked up like any other.
EntriesOfAnyId(i) == {k \in DOMAIN registry : id[registry[k]] = i}

\* PromptRegistry::indexOfPromptId: where the entries answering to i are, of which
\* the first is found; the empty id addresses none.
Entries(i) == {k \in DOMAIN registry : i # NoId /\ id[registry[k]] = i}

\* PromptRegistry::take: the entry is erased, if it is still there.
Take(p) ==
    \/ \E k \in DOMAIN registry : registry[k] = p /\ registry' = RemoveAt(registry, k)
    \/ ~Contains(registry, p) /\ UNCHANGED registry

RunJob(what) == gui # <<>> /\ Head(gui).do = what

\* MUTANT of Finished: answers without taking the registry entry.
FinishedUntaken(p, word, fd) ==
    /\ window' = [window EXCEPT ![p] = "closed"]
    /\ Take(p)
    /\ Answer(p, word, fd)

\* QDialog::finished: the window closes and the completion takes the registry
\* entry first; whoever finds it taken answers nothing.  (The deferred delete
\* comes after every reject already queued, so it is not seen.)
Finished(p, word, fd) ==
    /\ window' = [window EXCEPT ![p] = "closed"]
    /\ Take(p)
    /\ IF Contains(registry, p) THEN Answer(p, word, fd) ELSE UNCHANGED <<reply, replies>>

\* PromptRegistry::add gives a handle unless the id stands already.
CanAdd(p) == Entries(id[p]) = {}

\* setEntryDeadline and showEvent: the clock starts when the window is shown; a
\* zero budget arms no timer.
Armed(budget) == [budget |-> budget, spent |-> 0, due |-> budget]

\* raiseWindow / raiseChangePinWindow: an id that stands already is refused,
\* else the window is registered and shown.
Raise ==
    /\ RunJob("raise")
    /\ gui' = Tail(gui)
    /\ LET p == Head(gui).prompt IN
         \/ /\ CanAdd(p)
            /\ registry' = Append(registry, p)
            /\ window' = [window EXCEPT ![p] = "shown"]
            /\ clock' = [clock EXCEPT ![p] = Armed(ask[p].budget)]
            /\ UNCHANGED <<reply, replies>>
         \/ /\ ~CanAdd(p)
            /\ Answer(p, "error", NoSecret)
            /\ UNCHANGED <<registry, window, clock>>
    /\ UNCHANGED <<agentVars, helper, bus, form, exits,
                   cancels, declined, dismissed, resetBy>>

\* dismissOnGuiThread: the one window of that id, if the caller raised it, is
\* told to reject; its completion answers.
Dismiss ==
    /\ RunJob("dismiss")
    /\ LET found == Entries(Head(gui).id) IN
         \/ /\ found = {}
            /\ gui' = Tail(gui)
         \/ \E k \in found :
              /\ \A j \in found : k <= j
              /\ gui' = IF owner[registry[k]] = Head(gui).by
                        THEN Append(Tail(gui), RejectOf(registry[k])) ELSE Tail(gui)
    /\ UNCHANGED <<agentVars, helper, bus, registry, window, form, clock, reply, exits, history>>

\* MUTANT of Swept: only the caller's own windows are swept.
SweptOwn(pid) == SelectSeq(registry, LAMBDA p : owner[p] = pid)

\* dismissEveryWindowOnGuiThread: every standing window, whoever raised it.
Swept(pid) == registry

Sweep ==
    /\ RunJob("sweep")
    /\ LET swept == Swept(Head(gui).by) IN
         gui' = Tail(gui) \o [k \in DOMAIN swept |-> RejectOf(swept[k])]
    /\ UNCHANGED <<agentVars, helper, bus, registry, window, form, clock, reply, exits, history>>

\* A queued QDialog::reject: on a window that finished meanwhile it emits
\* finished once more.
Reject ==
    /\ RunJob("reject")
    /\ gui' = Tail(gui)
    /\ Finished(Head(gui).prompt, "cancelled", NoSecret)
    /\ UNCHANGED <<agentVars, helper, bus, form, clock, exits,
                   cancels, declined, dismissed, resetBy>>

\* The holder declines in the window.
HolderCancels(p) ==
    /\ Shown(p)
    /\ Finished(p, "cancelled", NoSecret)
    /\ declined' = declined \cup {p}
    /\ UNCHANGED <<agentVars, helper, bus, gui, form, clock, exits, cancels, dismissed, resetBy>>

\* MUTANT of OkWord: the switched form answers with the plain success word.
OkWordPlain(p) == "ok"

\* The success word: the MRZ word only where the switch was offered and taken.
OkWord(p) == IF ask[p].kind = "offer" /\ form[p] = "mrz" THEN "okMrz" ELSE "ok"

\* The holder submits.  The secret is captured into a sealed memfd, which may
\* fail; a PIN change whose capture is partial fails whole.
HolderAccepts(p) ==
    /\ Shown(p)
    /\ \/ Finished(p, OkWord(p), form[p])
       \/ Finished(p, "error", NoSecret)
    /\ UNCHANGED <<agentVars, helper, bus, gui, form, clock, exits,
                   cancels, declined, dismissed, resetBy>>

\* MUTANT of RebasedRemaining: the alternative form gets its whole time afresh.
RebasedAfresh(current, alternative, elapsed) ==
    IF alternative <= current THEN 0 ELSE alternative

\* rebasedRemaining: what the alternative's budget leaves after the time already
\* spent, and nothing unless it is the longer of the two.
RebasedRemaining(current, alternative, elapsed) ==
    IF alternative <= current \/ alternative <= elapsed THEN 0 ELSE alternative - elapsed

\* rebaseEntryDeadlineOnAlternative: no timer, or nothing to grant, leaves the
\* clock alone; else m_entryBudget becomes the alternative's, so it is one-way.
Rebased(c, alternative) ==
    LET remaining == RebasedRemaining(c.budget, alternative, c.spent) IN
    IF c.due = 0 \/ remaining = 0 THEN c
    ELSE [c EXCEPT !.budget = alternative, !.due = c.spent + remaining]

\* swapInputKind: offered on a CAN request whose caller takes an MRZ too; every
\* switch of the form ends by re-basing the entry clock.
SwapForm(p) ==
    /\ Shown(p) /\ ask[p].kind = "offer"
    /\ form' = [form EXCEPT ![p] = IF @ = "mrz" THEN "asked" ELSE "mrz"]
    /\ clock' = [clock EXCEPT ![p] = Rebased(@, ask[p].alt)]
    /\ UNCHANGED <<agentVars, helper, bus, gui, registry, window, reply, exits, history>>

\* One unit of time passes for a window whose timer is not due yet.
Tick(p) ==
    /\ Shown(p) /\ clock[p].spent < clock[p].due
    /\ clock' = [clock EXCEPT ![p].spent = @ + 1]
    /\ UNCHANGED <<agentVars, helper, bus, gui, registry, window, form, reply, exits, history>>

\* m_deadlineTimer fires: expired is recorded, then the window rejects itself.
Deadline(p) ==
    /\ Shown(p) /\ clock[p].due > 0 /\ clock[p].spent = clock[p].due
    /\ Finished(p, "timeout", NoSecret)
    /\ UNCHANGED <<agentVars, helper, bus, gui, form, clock, exits,
                   cancels, declined, dismissed, resetBy>>

\* The helper exits with its windows and queues; calls routed to it are lost, the
\* later ones activate the next helper, which an upgrade may have replaced.
HelperExit ==
    /\ exits < MaxExits
    /\ exits' = exits + 1
    /\ gui' = <<>> /\ registry' = <<>>
    /\ window' = [p \in Prompts |-> IF Shown(p) THEN "closed" ELSE window[p]]
    /\ \E k \in 0..Len(bus) : bus' = SubSeq(bus, k + 1, Len(bus))
    /\ helper' \in {helper, "current"}
    /\ UNCHANGED <<agentVars, form, clock, reply, history>>

-----------------------------------------------------------------------------
Init ==
    /\ agent = 1 /\ up = TRUE /\ capability = "unknown"
    /\ call = [p \in Prompts |-> "idle"]
    /\ owner = [p \in Prompts |-> 0]
    /\ id = [p \in Prompts |-> NoId]
    /\ ask \in [Prompts -> Asks]
    /\ result = [p \in Prompts |-> NoResult]
    /\ helper \in {"old", "current"}
    /\ bus = <<>> /\ gui = <<>> /\ registry = <<>>
    /\ window = [p \in Prompts |-> "none"]
    /\ form = [p \in Prompts |-> "asked"]
    /\ clock = [p \in Prompts |-> Armed(0)]
    /\ reply = [p \in Prompts |-> NoAnswer]
    /\ exits = 0
    /\ replies = [p \in Prompts |-> 0]
    /\ cancels = {} /\ declined = {} /\ dismissed = {}
    /\ resetBy = 0

Worker(p) ==
    \/ \E i \in Ids \cup {NoId} : Ask(p, i)
    \/ Send(p)
    \/ CallFails(p)
    \/ Receive(p)

Dispatch == DispatchRequest \/ DispatchCancel \/ DispatchReset

QtThread == Raise \/ Dismiss \/ Sweep \/ Reject

Holder(p) == HolderCancels(p) \/ HolderAccepts(p) \/ SwapForm(p)

Next ==
    \/ \E p \in Prompts : Worker(p) \/ OperationCancelled(p) \/ Holder(p) \/ Tick(p) \/ Deadline(p)
    \/ AgentCrash \/ AgentStart \/ HelperExit
    \/ Dispatch \/ QtThread

Spec == Init /\ [][Next]_vars

\* The helper's two loops run on, its timers fire, and a blocked call ends by its
\* budget at the latest.  Nothing is assumed of the holder, of the operations, or
\* of a crash and its restart.
Fairness ==
    /\ WF_vars(Dispatch)
    /\ WF_vars(QtThread)
    /\ \A p \in Prompts : WF_vars(Tick(p)) /\ WF_vars(Deadline(p)) /\ WF_vars(CallFails(p))

FairSpec == Spec /\ Fairness

-----------------------------------------------------------------------------
(***************************************************************************)
(* PROPERTIES.                                                             *)
(***************************************************************************)

\* Every variable stays in its range.
TypeOK ==
    /\ agent \in 1..MaxAgents /\ up \in BOOLEAN
    /\ capability \in {"unknown", "usable", "tooOld"}
    /\ call \in [Prompts -> {"idle", "cleared", "waiting", "done", "stranded", "lost"}]
    /\ owner \in [Prompts -> Pids]
    /\ id \in [Prompts -> Ids \cup {NoId}]
    /\ ask \in [Prompts -> Asks]
    /\ result \in [Prompts -> [status : Statuses, chosen : {NoSecret, "mrz"},
                               secret : Forms \cup {NoSecret}]]
    /\ helper \in {"old", "current"}
    /\ bus \in Seq(Calls) /\ gui \in Seq(Jobs) /\ registry \in Seq(Prompts)
    /\ window \in [Prompts -> {"none", "shown", "closed"}]
    /\ form \in [Prompts -> Forms]
    /\ clock \in [Prompts -> [budget : Nat, spent : Nat, due : Nat]]
    /\ reply \in [Prompts -> [word : Words, fd : Forms \cup {NoSecret}]]
    /\ exits \in 0..MaxExits
    /\ replies \in [Prompts -> 0..1]
    /\ cancels \subseteq Prompts /\ declined \subseteq Prompts
    /\ dismissed \subseteq Prompts
    /\ resetBy \in Pids

\* The registry lists exactly the windows that stand, each once and unanswered,
\* no two of them answer to one id, and no prompt is answered twice, whichever of
\* holder, deadline, dismissal and sweep meet at its window (PromptRegistry,
\* take-first completion).
RegistryIsWhatStands ==
    /\ \A p \in Prompts : Shown(p) <=> Contains(registry, p)
    /\ \A p \in Prompts : replies[p] <= IF Shown(p) THEN 0 ELSE 1
    /\ \A j, k \in DOMAIN registry : j # k =>
         /\ registry[j] # registry[k]
         /\ id[registry[j]] = NoId \/ id[registry[j]] # id[registry[k]]

\* A secret is handed on as what it is: an MRZ is announced as an MRZ, nothing
\* else is, and a failed prompt carries neither secret nor kind.
SecretIsClassified ==
    \A p \in Prompts :
        /\ result[p].status = "Ok" => /\ result[p].secret # NoSecret
                                      /\ (result[p].secret = "mrz") <=> (result[p].chosen = "mrz")
        /\ result[p].status # "Ok" => result[p].secret = NoSecret /\ result[p].chosen = NoSecret

\* A worker is told "cancelled" only if the holder declined that very window or
\* its own operation was cancelled: no other prompt's Cancel and no agent's Reset
\* closes a window somebody still waits for.
CancelledIsTruthful ==
    \A p \in Prompts : result[p].status = "Cancelled" => p \in declined \cup cancels

\* A Cancel served after the request it names ends that window, also when the
\* window was still to be raised: once the Qt thread is idle it does not stand.
CancelReachesWindow ==
    gui = <<>> => \A p \in dismissed : ~Shown(p)

\* The longest a window may stand: the transport that carries its prompt is
\* pinned against this, never against the sum of the two budgets.
LongestEntry(a) == IF a.kind = "offer" /\ a.alt > a.budget /\ a.budget > 0 THEN a.alt ELSE a.budget

\* "A switched window therefore lives the LONGER of the two budgets, never their
\* sum" (PromptDialog.h), however often and however late the form is switched.
\* And no holder is cut short: a window that expired had a budget, has spent all
\* of it, and the longer one if it expired on the alternative form.
EntryTimeKept ==
    \A p \in Prompts :
        /\ clock[p].spent <= LongestEntry(ask[p])
        /\ "timeout" = reply[p].word \/ "Timeout" = result[p].status =>
             /\ ask[p].budget > 0
             /\ clock[p].spent >= IF form[p] = "mrz" THEN LongestEntry(ask[p]) ELSE ask[p].budget

\* Once an agent's Reset is served and the Qt thread is idle, no window of an
\* earlier agent stands (AgentService::registerOnBus).
PredecessorsSwept ==
    gui = <<>> => \A p \in Prompts : Shown(p) => owner[p] >= resetBy

\* PrompterWire.h: "The agent refuses to raise a prompt it could not dismiss".
ShownIsDismissible == \A p \in Prompts : Shown(p) => helper = "current"

\* Where a prompt stands with the holder: a window, or an answer without one.
LifeOf(p) ==
    CASE call[p] = "idle" -> "unasked"
      [] call[p] # "idle" /\ window[p] # "none" -> window[p]
      [] OTHER -> IF replies[p] > 0 \/ result[p].status = "HelperTooOld" THEN "refused" ELSE "asked"

Lives == [p \in Prompts |-> LifeOf(p)]
Outcomes == [p \in Prompts |-> result[p].status]

Life == INSTANCE PromptLife WITH life <- Lives, outcome <- Outcomes

\* Agent, bus and helper together keep the promise of PromptLife: one window per
\* prompt and none after a refusal, one outcome, and what only the holder or the
\* deadline can bring about is told only once the window is gone, although calls
\* fail, answers come late and either process may die.
ImplementsPromptLife == Life!Spec

\* A window whose call was abandoned closes, through the Cancel that follows the
\* failed call or through its deadline, as long as the agent that raised it runs.
AbandonedWindowCloses ==
    \A p \in Prompts :
        /\ (Shown(p) /\ call[p] = "done" /\ id[p] # NoId) ~> (~Shown(p) \/ ~Running(p))
        /\ (Shown(p) /\ call[p] = "stranded" /\ ask[p].budget > 0) ~> ~Shown(p)

=============================================================================
