------------------------ MODULE SessionLifecycleWatch ------------------------
(***************************************************************************)
(* The agent's answer to sleep, screen lock and session switch:            *)
(* agent/src/SessionLifecycleWatch.cpp.                                    *)
(*                                                                         *)
(* logind reports on the system bus, in order; the agent's loop thread     *)
(* handles one signal at a time and makes the core forget what the reason  *)
(* calls for, under the state mutex the reader monitor also takes.         *)
(***************************************************************************)
EXTENDS Naturals, Sequences, FiniteSets

CONSTANTS
    MaxSwitches     \* bound on changes of the session

VARIABLES
    watch,          \* the watch: none, sleep (logind named no session), full
    session,        \* the holder's session as logind knows it, while the watch stands
    signals,        \* logind's signals on their way, oldest first
    holds,          \* what the core holds: a login lease, cached secrets
    due,            \* history: what it held when the session left and has yet to forget
    switches        \* changes of the session so far

lifecycleVars == <<watch, session, signals, holds, due, switches>>

Sessions == [asleep : BOOLEAN, active : BOOLEAN, locked : BOOLEAN]
Present == [asleep |-> FALSE, active |-> TRUE, locked |-> FALSE]

Signal(name, changed) == [name |-> name, changed |-> changed]

LifecycleInit ==
    /\ watch = "none"
    /\ session = Present
    /\ signals = <<>>
    /\ holds = {} /\ due = {}
    /\ switches = 0

-----------------------------------------------------------------------------
(* logind and the holder (external).                                       *)

\* What the watch subscribed to; nothing else reaches the agent.
Subscribed ==
    CASE watch = "none"  -> {}
      [] watch = "sleep" -> {"PrepareForSleep"}
      [] OTHER           -> {"PrepareForSleep", "Lock", "PropertiesChanged"}

\* A signal, as far as it reaches the agent.
Heard(s) == IF s.name \in Subscribed THEN <<s>> ELSE <<>>

\* What has to go when the session becomes new: all of it when the machine sleeps or
\* the session is switched away, the login when the screen is locked; with no
\* session to watch only sleep counts.
Owed(new) ==
    LET leaves == \/ new.asleep /\ ~session.asleep
                  \/ watch = "full" /\ ~new.active /\ session.active
        locks  == watch = "full" /\ new.locked /\ ~session.locked
    IN IF leaves THEN {"lease", "secret"} ELSE IF locks THEN {"lease"} ELSE {}

Report(new, sent) ==
    /\ switches < MaxSwitches
    /\ switches' = switches + 1
    /\ session' = new
    /\ signals' = signals \o sent
    /\ due' = due \cup (holds \cap Owed(new))
    /\ UNCHANGED <<watch, holds>>

\* The machine goes to sleep, or wakes up.
Sleeps(start) ==
    /\ session.asleep # start
    /\ Report([session EXCEPT !.asleep = start],
              Heard(Signal("PrepareForSleep", [Start |-> start])))

\* Somebody asks logind to lock; the locker may or may not say it did.
LockRequested ==
    \E hint \in BOOLEAN :
        Report([session EXCEPT !.locked = TRUE],
               Heard(Signal("Lock", <<>>))
               \o IF hint /\ ~session.locked
                  THEN Heard(Signal("PropertiesChanged", [LockedHint |-> TRUE])) ELSE <<>>)

\* The session is switched away or back, the locker locks or unlocks, or both
\* at once; one signal carries exactly the properties that changed.
SessionChanges ==
    \E new \in Sessions \ {session} :
        LET name == [Active |-> new.active, LockedHint |-> new.locked]
            old == [Active |-> session.active, LockedHint |-> session.locked]
            moved == {p \in {"Active", "LockedHint"} : name[p] # old[p]}
        IN /\ new.asleep = session.asleep
           /\ Report(new, Heard(Signal("PropertiesChanged", [p \in moved |-> name[p]])))

\* An operation leaves a lease or a secret with the core, at any moment: one that is
\* still in flight when the session leaves may do so after the core was quiesced.
Remember(what) ==
    /\ holds' = holds \cup {what}
    /\ UNCHANGED <<watch, session, signals, due, switches>>

-----------------------------------------------------------------------------
(* The watch.                                                              *)

\* The constructor: PrepareForSleep first, then the session's signals, unless
\* logind names no session within the lookup budget.  What the session is by then
\* is not asked for.
Subscribe ==
    /\ watch' \in {"sleep", "full"}
    /\ UNCHANGED <<session, signals, holds, due, switches>>

\* PrepareForSleep(true).
OnPrepareForSleep(changed) == IF changed["Start"] THEN {"SystemSleep"} ELSE {}

\* MUTANT of OnPropertiesChanged: a lock is expected as the Lock signal only.
OnActiveChanged(changed) ==
    {r \in {"SessionInactive"} : "Active" \in DOMAIN changed /\ ~changed["Active"]}

\* PropertiesChanged of the session: each property on its own, a value is a
\* transition, one that is absent says nothing.
OnPropertiesChanged(changed) ==
    {r \in {"SessionInactive"} : "Active" \in DOMAIN changed /\ ~changed["Active"]}
    \cup {r \in {"ScreenLocked"} : "LockedHint" \in DOMAIN changed /\ changed["LockedHint"]}

\* The reasons a signal is delivered for.
Reasons(s) ==
    CASE s.name = "PrepareForSleep" -> OnPrepareForSleep(s.changed)
      [] s.name = "Lock"            -> {"ScreenLocked"}
      [] OTHER                      -> OnPropertiesChanged(s.changed)

\* AgentCore::quiesce (external): every reason revokes the login; sleep and a session
\* switch also forget the card's secrets, which a screen lock keeps
\* (SessionLifecycleWatchTest.cpp).
Forgotten(reasons) ==
    (IF reasons = {} THEN {} ELSE {"lease"}) \cup (IF reasons \subseteq {"ScreenLocked"} THEN {} ELSE {"secret"})

\* quiesceUnderLock for each reason; deliver swallows one that throws, and what that
\* one was to forget is not waited for.
Deliver ==
    /\ watch # "none" /\ signals # <<>>
    /\ signals' = Tail(signals)
    /\ \E thrown \in SUBSET Reasons(Head(signals)) :
         /\ holds' = holds \ Forgotten(Reasons(Head(signals)) \ thrown)
         /\ due' = (due \cap holds') \ Forgotten(thrown)
    /\ UNCHANGED <<watch, session, switches>>

\* The watch is destroyed; its proxies unsubscribe, and the model follows the
\* session no further.
Unsubscribe ==
    /\ watch' = "none"
    /\ signals' = <<>>
    /\ session' = Present
    /\ due' = {}
    /\ UNCHANGED <<holds, switches>>

-----------------------------------------------------------------------------
(***************************************************************************)
(* PROPERTIES.                                                             *)
(***************************************************************************)

\* What the core held when the session left is gone once the signals of that leaving
\* are handled, also when the session has come back by then: the login after a lock,
\* the secrets too after sleep or a switch, in whatever order the changes came and
\* however they were reported (by logind, by the locker, or both in one message).
\* It says nothing of what a quiesce that threw, which the watch logs and drops, was
\* to forget, nor of what an operation still in flight leaves after the quiesce.
LeavingForgets == watch # "none" /\ signals = <<>> => due = {}

=============================================================================
