--------------------------- MODULE EventLoopPoster ---------------------------
(***************************************************************************)
(* The hop onto the sd-event loop thread: agent/src/EventLoopPoster.cpp.   *)
(*                                                                         *)
(* Any thread queues a callback under m_mutex and then, outside it, writes *)
(* the wakeup eventfd.  The loop thread reads the eventfd and then, in a   *)
(* separate critical section, swaps the queue out and runs it.  A delayed  *)
(* callback travels as a wrapper that arms a one-shot timer on the loop.   *)
(* The eventfd's counter is abstracted to whether it is readable.          *)
(***************************************************************************)
EXTENDS Naturals, Sequences, SequencesExt, FiniteSets

CONSTANTS
    Callbacks,  \* the callbacks handed to the poster, each once
    Delayed     \* those handed to postAfter with a positive delay

ASSUME DelayedAssumption == Delayed \subseteq Callbacks

VARIABLES
    issued,     \* callbacks handed over so far
    pending,    \* m_pending: queued jobs
    unwritten,  \* jobs queued by a post() that has not written the eventfd yet
    readable,   \* the wakeup eventfd is readable
    loop,       \* the loop thread: idle, drain, run, stopped, destroyed
    batch,      \* drain()'s local batch, what is left to run of it
    timers,     \* callbacks of the armed one-shot timers
    ran,        \* callbacks run, in order
    lost,       \* callbacks destroyed without having run
    order       \* undelayed callbacks in the order they were queued

vars == <<issued, pending, unwritten, readable, loop, batch, timers, ran, lost, order>>

\* A queued std::function: the callback itself, or postAfter's wrapper of it.
Jobs == [fn : Callbacks, does : {"run"}] \union [fn : Delayed, does : {"arm"}]
Job(c, does) == [fn |-> c, does |-> does]
Fns(jobs) == {jobs[i].fn : i \in 1..Len(jobs)}

Init ==
    /\ issued = {}
    /\ pending = <<>>
    /\ unwritten = {}
    /\ readable = FALSE
    /\ loop = "idle"
    /\ batch = <<>>
    /\ timers = {}
    /\ ran = <<>>
    /\ lost = {}
    /\ order = <<>>

-----------------------------------------------------------------------------
(***************************************************************************)
(* ANY thread, the loop thread inside a callback included.                 *)
(***************************************************************************)

\* The critical section of post().
Push(job) ==
    /\ pending' = Append(pending, job)
    /\ unwritten' = unwritten \union {job}

\* post(), and postAfter() with a non-positive delay: queue the callback.
Post(c) ==
    /\ loop # "destroyed"
    /\ c \in Callbacks \ (issued \union Delayed)
    /\ issued' = issued \union {c}
    /\ Push(Job(c, "run"))
    /\ order' = Append(order, c)
    /\ UNCHANGED <<readable, loop, batch, timers, ran, lost>>

\* postAfter(): queue a wrapper that will arm the timer on the loop thread.
PostAfter(c) ==
    /\ loop # "destroyed"
    /\ c \in Delayed \ issued
    /\ issued' = issued \union {c}
    /\ Push(Job(c, "arm"))
    /\ UNCHANGED <<readable, loop, batch, timers, ran, lost, order>>

\* Queueing fails to allocate: the callback is dropped, nothing is written.
PostDropped(c) ==
    /\ loop # "destroyed"
    /\ c \in Callbacks \ issued
    /\ issued' = issued \union {c}
    /\ lost' = lost \union {c}
    /\ UNCHANGED <<pending, unwritten, readable, loop, batch, timers, ran, order>>

\* The rest of post(): write the eventfd, after the mutex was released.
Wake(job) ==
    /\ job \in unwritten
    /\ unwritten' = unwritten \ {job}
    /\ readable' = TRUE
    /\ UNCHANGED <<issued, pending, loop, batch, timers, ran, lost, order>>

-----------------------------------------------------------------------------
(***************************************************************************)
(* The LOOP thread.                                                        *)
(***************************************************************************)

\* onReadable: drain the eventfd's counter first ...
OnReadable ==
    /\ loop = "idle"
    /\ readable
    /\ readable' = FALSE
    /\ loop' = "drain"
    /\ UNCHANGED <<issued, pending, unwritten, batch, timers, ran, lost, order>>

\* ... then drain() swaps the queue out under the mutex.
Drain ==
    /\ loop = "drain"
    /\ batch' = pending
    /\ pending' = <<>>
    /\ loop' = "run"
    /\ UNCHANGED <<issued, unwritten, readable, timers, ran, lost, order>>

\* armTimer on the loop thread: the clock cannot be read (run at once), the
\* context cannot be allocated (dropped), the timer cannot be added (post
\* instead), or it is armed.
ArmTimer(c) ==
    \/ ran' = Append(ran, c) /\ UNCHANGED <<pending, unwritten, timers, lost>>
    \/ lost' = lost \union {c} /\ UNCHANGED <<pending, unwritten, timers, ran>>
    \/ Push(Job(c, "run")) /\ UNCHANGED <<timers, ran, lost>>
    \/ timers' = timers \union {c} /\ UNCHANGED <<pending, unwritten, ran, lost>>

\* MUTANT of RunJob: the batch is taken from its back.
RunLastJob ==
    /\ loop = "run"
    /\ batch # <<>>
    /\ batch' = Front(batch)
    /\ IF Last(batch).does = "arm"
       THEN ArmTimer(Last(batch).fn)
       ELSE ran' = Append(ran, Last(batch).fn) /\ UNCHANGED <<pending, unwritten, timers, lost>>
    /\ UNCHANGED <<issued, readable, loop, order>>

\* drain() runs one job of its batch, outside the mutex; a throw is swallowed.
RunJob ==
    /\ loop = "run"
    /\ batch # <<>>
    /\ batch' = Tail(batch)
    /\ IF Head(batch).does = "arm"
       THEN ArmTimer(Head(batch).fn)
       ELSE ran' = Append(ran, Head(batch).fn) /\ UNCHANGED <<pending, unwritten, timers, lost>>
    /\ UNCHANGED <<issued, readable, loop, order>>

\* MUTANT of BatchDone: the eventfd is drained after the queue, not before it.
BatchDoneReads ==
    /\ loop = "run"
    /\ batch = <<>>
    /\ loop' = "idle"
    /\ readable' = FALSE
    /\ UNCHANGED <<issued, pending, unwritten, batch, timers, ran, lost, order>>

\* onReadable returns to the loop, once the writes of the loop thread's own
\* re-posts are done.
BatchDone ==
    /\ loop = "run"
    /\ batch = <<>>
    /\ \A c \in Delayed : Job(c, "run") \notin unwritten
    /\ loop' = "idle"
    /\ UNCHANGED <<issued, pending, unwritten, readable, batch, timers, ran, lost, order>>

\* MUTANT of OnTimer: the fired timer stays armed.
OnTimerRepeats(c) ==
    /\ loop = "idle"
    /\ c \in timers
    /\ Len(ran) <= Cardinality(Callbacks)
    /\ ran' = Append(ran, c)
    /\ UNCHANGED <<issued, pending, unwritten, readable, loop, batch, timers, lost, order>>

\* onTimer: release the one-shot timer, then run its callback.
OnTimer(c) ==
    /\ loop = "idle"
    /\ c \in timers
    /\ timers' = timers \ {c}
    /\ ran' = Append(ran, c)
    /\ UNCHANGED <<issued, pending, unwritten, readable, loop, batch, lost, order>>

\* sd_event_loop returns between two dispatches (external).
Stop ==
    /\ loop = "idle"
    /\ loop' = "stopped"
    /\ UNCHANGED <<issued, pending, unwritten, readable, batch, timers, ran, lost, order>>

\* ~EventLoopPoster: timers that never fired and queued callbacks are destroyed.
\* The members that post are destroyed before it, so no post() is half-way.
Destroy ==
    /\ loop = "stopped"
    /\ unwritten = {}
    /\ loop' = "destroyed"
    /\ lost' = lost \union timers \union Fns(pending)
    /\ timers' = {}
    /\ pending' = <<>>
    /\ UNCHANGED <<issued, unwritten, readable, batch, ran, order>>

Loop == OnReadable \/ Drain \/ RunJob \/ BatchDone

Next ==
    \/ \E c \in Callbacks : Post(c) \/ PostAfter(c) \/ PostDropped(c) \/ OnTimer(c)
    \/ \E job \in unwritten : Wake(job)
    \/ Loop
    \/ Stop
    \/ Destroy

Spec == Init /\ [][Next]_vars

(***************************************************************************)
(* FAIRNESS.  A thread inside post() reaches its write, the loop thread    *)
(* dispatches a readable source and finishes its batch, and a timer that   *)
(* has expired is dispatched although the eventfd keeps the loop busy.     *)
(***************************************************************************)
Fairness ==
    /\ \A job \in Jobs : WF_vars(Wake(job))
    /\ WF_vars(Drain \/ RunJob \/ BatchDone)
    /\ SF_vars(OnReadable)
    /\ \A c \in Callbacks : SF_vars(OnTimer(c))

FairSpec == Spec /\ Fairness

-----------------------------------------------------------------------------
(***************************************************************************)
(* PROPERTIES.                                                             *)
(***************************************************************************)

\* Every variable stays in its range, and only delayed callbacks see a timer.
TypeOK ==
    /\ issued \subseteq Callbacks
    /\ pending \in Seq(Jobs)
    /\ unwritten \subseteq Jobs
    /\ readable \in BOOLEAN
    /\ loop \in {"idle", "drain", "run", "stopped", "destroyed"}
    /\ batch \in Seq(Jobs)
    /\ timers \subseteq Delayed
    /\ ran \in Seq(Callbacks)
    /\ lost \subseteq Callbacks
    /\ order \in Seq(Callbacks)

\* A queued callback never waits on a loop nobody will wake: whenever the loop
\* is not about to swap the queue out, a non-empty queue has a readable eventfd
\* or a post() that still has to write it.
NoLostWakeup ==
    pending # <<>> /\ loop # "drain" => readable \/ unwritten # {}

\* Where a callback can be, and how often it is there.
Places(c) ==
    Cardinality({i \in DOMAIN pending : pending[i].fn = c})
      + Cardinality({i \in DOMAIN batch : batch[i].fn = c})
      + Cardinality({i \in DOMAIN ran : ran[i] = c})
      + Cardinality({c} \intersect timers)
      + Cardinality({c} \intersect lost)

\* Every callback handed over is in one place only: it is never run twice, never
\* run after it was dropped, and never vanishes unaccounted for, whichever of
\* armTimer's fall-backs and of the destructor's clean-ups it meets.
RunAtMostOnce == \A c \in issued : Places(c) = 1

\* Undelayed callbacks run in the order in which they were queued, over any
\* number of batches and posts made while a batch runs: when one has run, every
\* one queued before it has run before it.
RunsInOrder ==
    \A n \in DOMAIN order, j \in DOMAIN ran : ran[j] = order[n] =>
        \A m \in 1..(n - 1) : \E i \in 1..(j - 1) : ran[i] = order[m]

\* A callback that was accepted runs, unless the loop stops first or arming its
\* timer ran out of memory.
AcceptedRuns ==
    \A c \in Callbacks :
        (c \in issued) ~> (c \in Range(ran) \union lost \/ loop \in {"stopped", "destroyed"})

=============================================================================
