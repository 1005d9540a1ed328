------------------------ MODULE EventLoopPosterProofs ------------------------
(***************************************************************************)
(* Proofs about EventLoopPoster, for any set of callbacks.  That no wakeup *)
(* is lost is inductive together with the types: a queue only becomes non- *)
(* empty by a post() that still has to write the eventfd.  That a callback *)
(* meets one fate, and that the undelayed ones run in order, are inductive *)
(* once it is said where every callback is and what stands before it.      *)
(***************************************************************************)
EXTENDS EventLoopPoster, SequenceTheorems, FiniteSetTheorems, TLAPS

IInv == TypeOK /\ NoLostWakeup

\* The callbacks and the jobs a queue element may be.
LEMMA JobType ==
    /\ \A job \in Jobs : job.fn \in Callbacks
    /\ \A job \in Jobs : job.does = "arm" => job.fn \in Delayed
    /\ \A c \in Callbacks : Job(c, "run") \in Jobs
    /\ \A c \in Delayed : Job(c, "arm") \in Jobs
  BY DelayedAssumption DEF Jobs, Job

\* The first state: nothing queued, nothing to wake for.
LEMMA InitIInv == Init => IInv
<1>. SUFFICES ASSUME Init PROVE IInv
  OBVIOUS
<1>1. <<>> \in Seq(Jobs) /\ <<>> \in Seq(Callbacks)
  BY EmptySeq
<1>. QED BY <1>1 DEF Init, IInv, TypeOK, NoLostWakeup

\* Queueing a job keeps the queue typed, and its write is still to come.
LEMMA PushType ==
    ASSUME TypeOK, NEW job \in Jobs, Push(job)
    PROVE  pending' \in Seq(Jobs) /\ unwritten' \subseteq Jobs /\ unwritten' # {}
  BY AppendProperties DEF TypeOK, Push

\* armTimer, on each of its four ways out.
LEMMA ArmTimerType ==
    ASSUME TypeOK, NEW c \in Delayed, ArmTimer(c)
    PROVE  /\ pending' \in Seq(Jobs) /\ unwritten' \subseteq Jobs
           /\ unwritten' # {} \/ (pending' = pending /\ unwritten' = unwritten)
           /\ timers' \subseteq Delayed /\ ran' \in Seq(Callbacks) /\ lost' \subseteq Callbacks
<1>1. c \in Callbacks
  BY DelayedAssumption
<1>2. CASE ran' = Append(ran, c) /\ UNCHANGED <<pending, unwritten, timers, lost>>
  BY <1>1, <1>2, AppendProperties DEF TypeOK
<1>3. CASE lost' = lost \union {c} /\ UNCHANGED <<pending, unwritten, timers, ran>>
  BY <1>1, <1>3 DEF TypeOK
<1>4. CASE Push(Job(c, "run")) /\ UNCHANGED <<timers, ran, lost>>
  BY <1>1, <1>4, JobType, PushType DEF TypeOK
<1>5. CASE timers' = timers \union {c} /\ UNCHANGED <<pending, unwritten, ran, lost>>
  BY <1>5 DEF TypeOK
<1>. QED BY <1>2, <1>3, <1>4, <1>5 DEF ArmTimer

\* The loop runs one job of its batch.
LEMMA RunJobIInv == IInv /\ RunJob => IInv'
<1>. SUFFICES ASSUME IInv, RunJob PROVE IInv'
  OBVIOUS
<1>. USE DEF IInv
<1>1. batch \in Seq(Jobs) /\ batch # <<>>
  BY DEF TypeOK, RunJob
<1>2. Head(batch) \in Jobs /\ Tail(batch) \in Seq(Jobs)
  BY <1>1, HeadTailProperties
<1>3. CASE Head(batch).does = "arm"
  <2>1. Head(batch).fn \in Delayed
    BY <1>2, <1>3, JobType
  <2>2. ArmTimer(Head(batch).fn)
    BY <1>3 DEF RunJob
  <2>3. /\ pending' \in Seq(Jobs) /\ unwritten' \subseteq Jobs
        /\ unwritten' # {} \/ (pending' = pending /\ unwritten' = unwritten)
        /\ timers' \subseteq Delayed /\ ran' \in Seq(Callbacks) /\ lost' \subseteq Callbacks
    BY <2>1, <2>2, ArmTimerType
  <2>. QED BY <1>2, <2>3 DEF RunJob, TypeOK, NoLostWakeup
<1>4. CASE Head(batch).does # "arm"
  <2>1. ran' \in Seq(Callbacks)
    BY <1>2, <1>4, JobType, AppendProperties DEF RunJob, TypeOK
  <2>. QED BY <1>2, <1>4, <2>1 DEF RunJob, TypeOK, NoLostWakeup
<1>. QED BY <1>3, <1>4

\* Every step, and every stuttering step, keeps the invariant.
LEMMA NextIInv == IInv /\ [Next]_vars => IInv'
<1>. SUFFICES ASSUME IInv, [Next]_vars PROVE IInv'
  OBVIOUS
<1>. USE DEF IInv
<1>1. ASSUME NEW c \in Callbacks, Post(c) PROVE IInv'
  <2>1. pending' \in Seq(Jobs) /\ unwritten' \subseteq Jobs /\ unwritten' # {}
    BY <1>1, JobType, PushType DEF Post
  <2>2. order' \in Seq(Callbacks)
    BY <1>1, AppendProperties DEF Post, TypeOK
  <2>. QED BY <1>1, <2>1, <2>2 DEF Post, TypeOK, NoLostWakeup
<1>2. ASSUME NEW c \in Callbacks, PostAfter(c) PROVE IInv'
  <2>1. pending' \in Seq(Jobs) /\ unwritten' \subseteq Jobs /\ unwritten' # {}
    BY <1>2, JobType, PushType DEF PostAfter
  <2>. QED BY <1>2, <2>1 DEF PostAfter, TypeOK, NoLostWakeup
<1>3. ASSUME NEW c \in Callbacks, PostDropped(c) PROVE IInv'
  BY <1>3 DEF PostDropped, TypeOK, NoLostWakeup
<1>4. ASSUME NEW c \in Callbacks, OnTimer(c) PROVE IInv'
  <2>1. ran' \in Seq(Callbacks)
    BY <1>4, AppendProperties DEF OnTimer, TypeOK
  <2>. QED BY <1>4, <2>1 DEF OnTimer, TypeOK, NoLostWakeup
<1>5. ASSUME NEW job \in unwritten, Wake(job) PROVE IInv'
  BY <1>5 DEF Wake, TypeOK, NoLostWakeup
<1>6. CASE OnReadable
  BY <1>6 DEF OnReadable, TypeOK, NoLostWakeup
<1>7. CASE Drain
  BY <1>7, EmptySeq DEF Drain, TypeOK, NoLostWakeup
<1>8. CASE RunJob
  BY <1>8, RunJobIInv
<1>9. CASE BatchDone
  BY <1>9 DEF BatchDone, TypeOK, NoLostWakeup
<1>10. CASE Stop
  BY <1>10 DEF Stop, TypeOK, NoLostWakeup
<1>11. CASE Destroy
  <2>1. \A i \in 1..Len(pending) : pending[i] \in Jobs
    BY ElementOfSeq DEF TypeOK
  <2>2. Fns(pending) \subseteq Callbacks
    BY <2>1, JobType DEF Fns
  <2>3. timers \subseteq Callbacks
    BY DelayedAssumption DEF TypeOK
  <2>4. <<>> \in Seq(Jobs)
    BY EmptySeq
  <2>. QED BY <1>11, <2>2, <2>3, <2>4 DEF Destroy, TypeOK, NoLostWakeup
<1>12. CASE UNCHANGED vars
  BY <1>12 DEF vars, TypeOK, NoLostWakeup
<1>. QED
  BY <1>1, <1>2, <1>3, <1>4, <1>5, <1>6, <1>7, <1>8, <1>9, <1>10, <1>11, <1>12 DEF Next, Loop

\* Whatever the threads do between queueing and writing the eventfd, and the
\* loop between reading it and swapping the queue out, no wakeup is lost.
THEOREM WakeupIsNeverLost == Spec => []NoLostWakeup
<1>1. IInv => NoLostWakeup
  BY DEF IInv
<1>. QED BY <1>1, InitIInv, NextIInv, PTL DEF Spec

\* Types, and with them that only delayed callbacks are ever given to a timer.
THEOREM TypeCorrect == Spec => []TypeOK
<1>1. IInv => TypeOK
  BY DEF IInv
<1>. QED BY <1>1, InitIInv, NextIInv, PTL DEF Spec

-----------------------------------------------------------------------------
(***************************************************************************)
(* One fate per callback, and FIFO order.                                  *)
(***************************************************************************)

\* The callbacks a record of runs names.
Runs(r) == {r[i] : i \in 1..Len(r)}

\* No queue holds a callback twice.
Distinct(jobs) == \A i, j \in 1..Len(jobs) : jobs[i].fn = jobs[j].fn => i = j

\* The five places a callback can be in exclude each other, and between them
\* they hold every callback that was handed over.
PlaceInv ==
    /\ loop # "run" => batch = <<>>
    /\ Distinct(pending) /\ Distinct(batch)
    /\ \A i, j \in 1..Len(ran) : ran[i] = ran[j] => i = j
    /\ issued = Fns(pending) \union Fns(batch) \union Runs(ran) \union timers \union lost
    /\ \A c \in Fns(pending) : c \notin Fns(batch) \union Runs(ran) \union timers \union lost
    /\ \A c \in Fns(batch) : c \notin Runs(ran) \union timers \union lost
    /\ \A c \in Runs(ran) : c \notin timers \union lost
    /\ \A c \in timers : c \notin lost

\* The callbacks o names stand in that order: what comes before a callback in o
\* has run before it (r), or stands before it in the batch b or the queue p.
Ordered(r, b, p, o) ==
    \A n, m \in 1..Len(o) : m < n =>
        /\ \A j \in 1..Len(r) : r[j] = o[n] => \E i \in 1..Len(r) : i < j /\ r[i] = o[m]
        /\ \A j \in 1..Len(b) : b[j].fn = o[n] =>
              o[m] \in Runs(r) \/ \E i \in 1..Len(b) : i < j /\ b[i].fn = o[m]
        /\ \A j \in 1..Len(p) : p[j].fn = o[n] =>
              \/ o[m] \in Runs(r) \union Fns(b)
              \/ \E i \in 1..Len(p) : i < j /\ p[i].fn = o[m]

\* The undelayed callbacks queued so far are in the order they were queued in, and
\* none of them is lost before the poster is destroyed.
OrderInv ==
    /\ \A n \in 1..Len(order) : order[n] \in issued \ Delayed
    /\ loop # "destroyed" => \A n \in 1..Len(order) : order[n] \notin lost
    /\ Ordered(ran, batch, pending, order)

FateInv == IInv /\ PlaceInv /\ OrderInv

\* What queueing a job does to a queue.
LEMMA FnsAppend ==
    ASSUME NEW jobs \in Seq(Jobs), NEW job \in Jobs
    PROVE  /\ Fns(Append(jobs, job)) = Fns(jobs) \union {job.fn}
           /\ Distinct(jobs) /\ job.fn \notin Fns(jobs) => Distinct(Append(jobs, job))
<1>1. /\ Len(Append(jobs, job)) = Len(jobs) + 1 /\ Len(jobs) \in Nat
      /\ \A i \in 1..Len(jobs) : Append(jobs, job)[i] = jobs[i]
      /\ Append(jobs, job)[Len(jobs) + 1] = job
  BY AppendProperties, LenProperties
<1>. QED BY <1>1 DEF Fns, Distinct

\* What taking the first job does to a queue.
LEMMA FnsTail ==
    ASSUME NEW jobs \in Seq(Jobs), jobs # <<>>, Distinct(jobs)
    PROVE  /\ Fns(Tail(jobs)) = Fns(jobs) \ {Head(jobs).fn}
           /\ Head(jobs).fn \in Fns(jobs)
           /\ Distinct(Tail(jobs))
<1>1. /\ Len(jobs) \in Nat \ {0}
      /\ Len(Tail(jobs)) = Len(jobs) - 1
      /\ \A i \in 1..Len(Tail(jobs)) : Tail(jobs)[i] = jobs[i + 1]
      /\ Head(jobs) = jobs[1]
  BY HeadTailProperties, EmptySeq
<1>2. Head(jobs).fn \in Fns(jobs)
  BY <1>1 DEF Fns
<1>3. Distinct(Tail(jobs))
  BY <1>1 DEF Distinct
<1>4. ASSUME NEW c \in Fns(Tail(jobs)) PROVE c \in Fns(jobs) \ {Head(jobs).fn}
  <2>1. PICK i \in 1..Len(Tail(jobs)) : c = Tail(jobs)[i].fn
    BY <1>4 DEF Fns
  <2>2. i + 1 \in 1..Len(jobs) /\ c = jobs[i + 1].fn /\ i + 1 # 1 /\ 1 \in 1..Len(jobs)
    BY <1>1, <2>1
  <2>. QED BY <1>1, <2>2 DEF Fns, Distinct
<1>5. ASSUME NEW c \in Fns(jobs), c # Head(jobs).fn PROVE c \in Fns(Tail(jobs))
  <2>1. PICK i \in 1..Len(jobs) : c = jobs[i].fn
    BY <1>5 DEF Fns
  <2>2. i - 1 \in 1..Len(Tail(jobs)) /\ Tail(jobs)[i - 1] = jobs[i]
    BY <1>1, <1>5, <2>1
  <2>. QED BY <2>1, <2>2 DEF Fns
<1>. QED BY <1>2, <1>3, <1>4, <1>5

\* What running a callback does to the record of those that have run.
LEMMA RunsAppend ==
    ASSUME NEW r \in Seq(Callbacks), NEW c \in Callbacks
    PROVE  /\ Runs(Append(r, c)) = Runs(r) \union {c}
           /\ Len(Append(r, c)) = Len(r) + 1 /\ Len(r) \in Nat
           /\ \A i \in 1..Len(r) : Append(r, c)[i] = r[i]
           /\ Append(r, c)[Len(r) + 1] = c
<1>1. /\ Len(Append(r, c)) = Len(r) + 1 /\ Len(r) \in Nat
      /\ \A i \in 1..Len(r) : Append(r, c)[i] = r[i]
      /\ Append(r, c)[Len(r) + 1] = c
  BY AppendProperties, LenProperties
<1>. QED BY <1>1 DEF Runs

\* A delayed callback's job joins the end of the queue: nothing is displaced.
LEMMA PushKeepsOrder ==
    ASSUME NEW r \in Seq(Callbacks), NEW b \in Seq(Jobs), NEW p \in Seq(Jobs),
           NEW o \in Seq(Callbacks \ Delayed), Ordered(r, b, p, o),
           NEW job \in Jobs, job.fn \in Delayed
    PROVE  Ordered(r, b, Append(p, job), o)
<1>1. /\ Len(Append(p, job)) = Len(p) + 1 /\ Len(p) \in Nat
      /\ \A i \in 1..Len(p) : Append(p, job)[i] = p[i]
      /\ Append(p, job)[Len(p) + 1] = job
  BY AppendProperties, LenProperties
<1>2. ASSUME NEW n \in 1..Len(o), NEW m \in 1..Len(o), m < n,
             NEW j \in 1..Len(Append(p, job)), Append(p, job)[j].fn = o[n]
      PROVE  \/ o[m] \in Runs(r) \union Fns(b)
             \/ \E i \in 1..Len(Append(p, job)) : i < j /\ Append(p, job)[i].fn = o[m]
  <2>1. o[n] \notin Delayed
    BY ElementOfSeq
  <2>2. j \in 1..Len(p) /\ p[j].fn = o[n]
    BY <1>1, <1>2, <2>1
  <2>3. o[m] \in Runs(r) \union Fns(b) \/ \E i \in 1..Len(p) : i < j /\ p[i].fn = o[m]
    BY <1>2, <2>2 DEF Ordered
  <2>. QED BY <1>1, <2>3
<1>. QED BY <1>2 DEF Ordered

\* A delayed callback runs: nothing is overtaken.
LEMMA DelayedRunKeepsOrder ==
    ASSUME NEW r \in Seq(Callbacks), NEW b \in Seq(Jobs), NEW p \in Seq(Jobs),
           NEW o \in Seq(Callbacks \ Delayed), Ordered(r, b, p, o), NEW c \in Delayed
    PROVE  Ordered(Append(r, c), b, p, o)
<1>1. c \in Callbacks
  BY DelayedAssumption
<1>2. /\ Runs(Append(r, c)) = Runs(r) \union {c}
      /\ Len(Append(r, c)) = Len(r) + 1 /\ Len(r) \in Nat
      /\ \A i \in 1..Len(r) : Append(r, c)[i] = r[i]
      /\ Append(r, c)[Len(r) + 1] = c
  BY <1>1, RunsAppend
<1>3. ASSUME NEW n \in 1..Len(o), NEW m \in 1..Len(o), m < n,
             NEW j \in 1..Len(Append(r, c)), Append(r, c)[j] = o[n]
      PROVE  \E i \in 1..Len(Append(r, c)) : i < j /\ Append(r, c)[i] = o[m]
  <2>1. o[n] \notin Delayed
    BY ElementOfSeq
  <2>2. j \in 1..Len(r) /\ r[j] = o[n]
    BY <1>2, <1>3, <2>1
  <2>3. PICK i \in 1..Len(r) : i < j /\ r[i] = o[m]
    BY <1>3, <2>2 DEF Ordered
  <2>. QED BY <1>2, <2>3
<1>. QED BY <1>2, <1>3 DEF Ordered

\* The first job of the batch is taken: what stood behind a delayed callback still
\* stands in order.
LEMMA TakeKeepsOrder ==
    ASSUME NEW r \in Seq(Callbacks), NEW b \in Seq(Jobs), NEW p \in Seq(Jobs),
           NEW o \in Seq(Callbacks \ Delayed), Ordered(r, b, p, o),
           b # <<>>, Distinct(b), Head(b).fn \in Delayed
    PROVE  Ordered(r, Tail(b), p, o)
<1>1. /\ Len(b) \in Nat \ {0} /\ Len(Tail(b)) = Len(b) - 1 /\ Head(b) = b[1]
      /\ \A i \in 1..Len(Tail(b)) : Tail(b)[i] = b[i + 1]
  BY HeadTailProperties, EmptySeq
<1>2. Fns(Tail(b)) = Fns(b) \ {Head(b).fn}
  BY FnsTail
<1>3. ASSUME NEW n \in 1..Len(o), NEW m \in 1..Len(o), m < n
      PROVE  /\ \A j \in 1..Len(Tail(b)) : Tail(b)[j].fn = o[n] =>
                   o[m] \in Runs(r) \/ \E i \in 1..Len(Tail(b)) : i < j /\ Tail(b)[i].fn = o[m]
             /\ o[m] \in Fns(b) => o[m] \in Fns(Tail(b))
  <2>1. o[m] # Head(b).fn
    BY ElementOfSeq
  <2>2. ASSUME NEW j \in 1..Len(Tail(b)), Tail(b)[j].fn = o[n], o[m] \notin Runs(r)
        PROVE  \E i \in 1..Len(Tail(b)) : i < j /\ Tail(b)[i].fn = o[m]
    <3>1. j + 1 \in 1..Len(b) /\ b[j + 1].fn = o[n]
      BY <1>1, <2>2
    <3>2. PICK i \in 1..Len(b) : i < j + 1 /\ b[i].fn = o[m]
      BY <1>3, <2>2, <3>1 DEF Ordered
    <3>3. i - 1 \in 1..Len(Tail(b)) /\ i - 1 < j /\ Tail(b)[i - 1].fn = o[m]
      BY <1>1, <2>1, <3>2
    <3>. QED BY <3>3
  <2>. QED BY <1>2, <2>1, <2>2
<1>4. ASSUME NEW n \in 1..Len(o), NEW m \in 1..Len(o), m < n,
             NEW j \in 1..Len(p), p[j].fn = o[n]
      PROVE  \/ o[m] \in Runs(r) \union Fns(Tail(b))
             \/ \E i \in 1..Len(p) : i < j /\ p[i].fn = o[m]
  <2>1. o[m] \in Runs(r) \union Fns(b) \/ \E i \in 1..Len(p) : i < j /\ p[i].fn = o[m]
    BY <1>4 DEF Ordered
  <2>2. o[m] \in Fns(b) => o[m] \in Fns(Tail(b))
    BY <1>3, <1>4
  <2>. QED BY <2>1, <2>2
<1>5. \A n, m \in 1..Len(o) : m < n =>
        \A j \in 1..Len(r) : r[j] = o[n] => \E i \in 1..Len(r) : i < j /\ r[i] = o[m]
  BY DEF Ordered
<1>. QED BY <1>3, <1>4, <1>5 DEF Ordered

\* The first job of the batch runs: whatever was queued before it has run.
LEMMA RunHeadKeepsOrder ==
    ASSUME NEW r \in Seq(Callbacks), NEW b \in Seq(Jobs), NEW p \in Seq(Jobs),
           NEW o \in Seq(Callbacks \ Delayed), Ordered(r, b, p, o), b # <<>>, Distinct(b)
    PROVE  Ordered(Append(r, Head(b).fn), Tail(b), p, o)
<1>. DEFINE c == Head(b).fn
<1>1. /\ Len(b) \in Nat \ {0} /\ Len(Tail(b)) = Len(b) - 1 /\ Head(b) = b[1]
      /\ \A i \in 1..Len(Tail(b)) : Tail(b)[i] = b[i + 1]
      /\ Head(b) \in Jobs
  BY HeadTailProperties, EmptySeq
<1>2. c \in Callbacks
  BY <1>1, JobType
<1>3. Fns(Tail(b)) = Fns(b) \ {c}
  BY FnsTail
<1>4. /\ Runs(Append(r, c)) = Runs(r) \union {c}
      /\ Len(Append(r, c)) = Len(r) + 1 /\ Len(r) \in Nat
      /\ \A i \in 1..Len(r) : Append(r, c)[i] = r[i]
      /\ Append(r, c)[Len(r) + 1] = c
  BY <1>2, RunsAppend
<1>. HIDE DEF c
<1>5. ASSUME NEW n \in 1..Len(o), NEW m \in 1..Len(o), m < n
      PROVE  /\ \A j \in 1..Len(Append(r, c)) : Append(r, c)[j] = o[n] =>
                   \E i \in 1..Len(Append(r, c)) : i < j /\ Append(r, c)[i] = o[m]
             /\ \A j \in 1..Len(Tail(b)) : Tail(b)[j].fn = o[n] =>
                   o[m] \in Runs(Append(r, c))
                     \/ \E i \in 1..Len(Tail(b)) : i < j /\ Tail(b)[i].fn = o[m]
             /\ \A j \in 1..Len(p) : p[j].fn = o[n] =>
                   \/ o[m] \in Runs(Append(r, c)) \union Fns(Tail(b))
                   \/ \E i \in 1..Len(p) : i < j /\ p[i].fn = o[m]
  <2>1. ASSUME NEW j \in 1..Len(Append(r, c)), Append(r, c)[j] = o[n]
        PROVE  \E i \in 1..Len(Append(r, c)) : i < j /\ Append(r, c)[i] = o[m]
    <3>1. CASE j \in 1..Len(r)
      <4>1. PICK i \in 1..Len(r) : i < j /\ r[i] = o[m]
        BY <1>4, <1>5, <2>1, <3>1 DEF Ordered
      <4>. QED BY <1>4, <4>1
    <3>2. CASE j = Len(r) + 1
      <4>1. 1 \in 1..Len(b) /\ b[1].fn = o[n]
        BY <1>1, <1>4, <2>1, <3>2 DEF c
      <4>2. o[m] \in Runs(r)
        BY <1>1, <1>5, <4>1 DEF Ordered
      <4>3. PICK i \in 1..Len(r) : r[i] = o[m]
        BY <4>2 DEF Runs
      <4>. QED BY <1>4, <3>2, <4>3
    <3>. QED BY <1>4, <2>1, <3>1, <3>2
  <2>2. ASSUME NEW j \in 1..Len(Tail(b)), Tail(b)[j].fn = o[n], o[m] \notin Runs(r), o[m] # c
        PROVE  \E i \in 1..Len(Tail(b)) : i < j /\ Tail(b)[i].fn = o[m]
    <3>1. j + 1 \in 1..Len(b) /\ b[j + 1].fn = o[n]
      BY <1>1, <2>2
    <3>2. PICK i \in 1..Len(b) : i < j + 1 /\ b[i].fn = o[m]
      BY <1>5, <2>2, <3>1 DEF Ordered
    <3>3. i - 1 \in 1..Len(Tail(b)) /\ i - 1 < j /\ Tail(b)[i - 1].fn = o[m]
      BY <1>1, <2>2, <3>2 DEF c
    <3>. QED BY <3>3
  <2>3. ASSUME NEW j \in 1..Len(p), p[j].fn = o[n]
        PROVE  \/ o[m] \in Runs(Append(r, c)) \union Fns(Tail(b))
               \/ \E i \in 1..Len(p) : i < j /\ p[i].fn = o[m]
    BY <1>3, <1>4, <1>5, <2>3 DEF Ordered
  <2>. QED BY <1>4, <2>1, <2>2, <2>3
<1>6. Ordered(Append(r, c), Tail(b), p, o)
  BY <1>5 DEF Ordered
<1>. QED BY <1>6 DEF c

\* The queue becomes the batch.
LEMMA SwapKeepsOrder ==
    ASSUME NEW r, NEW p \in Seq(Jobs), NEW o, Ordered(r, <<>>, p, o)
    PROVE  Ordered(r, p, <<>>, o)
<1>1. Len(<<>>) = 0 /\ Fns(<<>>) = {}
  BY EmptySeq DEF Fns
<1>. QED BY <1>1 DEF Ordered

\* The queue is dropped.
LEMMA DropKeepsOrder ==
    ASSUME NEW r, NEW b, NEW p, NEW o, Ordered(r, b, p, o)
    PROVE  Ordered(r, b, <<>>, o)
<1>1. Len(<<>>) = 0
  BY EmptySeq
<1>. QED BY <1>1 DEF Ordered

\* A callback that is nowhere yet is queued behind all that are not lost.
LEMMA PostKeepsOrder ==
    ASSUME NEW r \in Seq(Callbacks), NEW b \in Seq(Jobs), NEW p \in Seq(Jobs),
           NEW o \in Seq(Callbacks \ Delayed), Ordered(r, b, p, o),
           NEW job \in Jobs, job.fn \notin Delayed,
           job.fn \notin Runs(r) \union Fns(b) \union Fns(p),
           \A n \in 1..Len(o) : o[n] # job.fn /\ o[n] \in Runs(r) \union Fns(b) \union Fns(p)
    PROVE  Ordered(r, b, Append(p, job), Append(o, job.fn))
<1>. DEFINE q == Append(p, job)
<1>. DEFINE w == Append(o, job.fn)
<1>1. /\ Len(q) = Len(p) + 1 /\ Len(p) \in Nat
      /\ \A i \in 1..Len(p) : q[i] = p[i]
      /\ q[Len(p) + 1] = job
  BY AppendProperties, LenProperties
<1>2. /\ Len(w) = Len(o) + 1 /\ Len(o) \in Nat
      /\ \A i \in 1..Len(o) : w[i] = o[i]
      /\ w[Len(o) + 1] = job.fn
  <2>1. job.fn \in Callbacks \ Delayed
    BY JobType
  <2>. QED BY <2>1, AppendProperties, LenProperties
<1>. HIDE DEF q, w
<1>3. ASSUME NEW n \in 1..Len(w), NEW m \in 1..Len(w), m < n
      PROVE  /\ \A j \in 1..Len(r) : r[j] = w[n] => \E i \in 1..Len(r) : i < j /\ r[i] = w[m]
             /\ \A j \in 1..Len(b) : b[j].fn = w[n] =>
                   w[m] \in Runs(r) \/ \E i \in 1..Len(b) : i < j /\ b[i].fn = w[m]
             /\ \A j \in 1..Len(q) : q[j].fn = w[n] =>
                   \/ w[m] \in Runs(r) \union Fns(b)
                   \/ \E i \in 1..Len(q) : i < j /\ q[i].fn = w[m]
  <2>1. m \in 1..Len(o) /\ w[m] = o[m]
    <3>1. m \in Nat /\ n \in Nat /\ 1 <= m /\ n <= Len(o) + 1
      BY <1>2
    <3>2. m \in 1..Len(o)
      BY <1>2, <1>3, <3>1
    <3>. QED BY <1>2, <3>2
  <2>2. CASE n \in 1..Len(o)
    <3>1. w[n] = o[n] /\ o[n] # job.fn
      BY <1>2, <2>2
    <3>2. ASSUME NEW j \in 1..Len(q), q[j].fn = o[n]
          PROVE  o[m] \in Runs(r) \union Fns(b) \/ \E i \in 1..Len(q) : i < j /\ q[i].fn = o[m]
      <4>1. j \in 1..Len(p) /\ p[j].fn = o[n]
        BY <1>1, <3>1, <3>2
      <4>2. o[m] \in Runs(r) \union Fns(b) \/ \E i \in 1..Len(p) : i < j /\ p[i].fn = o[m]
        BY <1>3, <2>1, <2>2, <4>1 DEF Ordered
      <4>. QED BY <1>1, <4>2
    <3>. QED BY <1>3, <2>1, <2>2, <3>1, <3>2 DEF Ordered
  <2>3. CASE n = Len(o) + 1
    <3>1. w[n] = job.fn
      BY <1>2, <2>3
    <3>2. \A j \in 1..Len(r) : r[j] # job.fn
      BY DEF Runs
    <3>3. \A j \in 1..Len(b) : b[j].fn # job.fn
      BY DEF Fns
    <3>4. ASSUME NEW j \in 1..Len(q), q[j].fn = job.fn, o[m] \notin Runs(r) \union Fns(b)
          PROVE  \E i \in 1..Len(q) : i < j /\ q[i].fn = o[m]
      <4>0. \A i \in 1..Len(p) : p[i].fn # job.fn
        BY DEF Fns
      <4>1. j = Len(p) + 1
        BY <1>1, <3>4, <4>0
      <4>2. PICK i \in 1..Len(p) : p[i].fn = o[m]
        BY <2>1, <3>4 DEF Fns
      <4>. QED BY <1>1, <4>1, <4>2
    <3>. QED BY <2>1, <3>1, <3>2, <3>3, <3>4
  <2>. QED BY <1>2, <2>2, <2>3
<1>4. Ordered(r, b, q, w)
  BY <1>3 DEF Ordered
<1>. QED BY <1>4 DEF q, w

\* The undelayed callbacks, as the lemmas above take them.
LEMMA OrderType ==
    ASSUME TypeOK, OrderInv
    PROVE  order \in Seq(Callbacks \ Delayed)
<1>1. order \in [1..Len(order) -> Callbacks] /\ Len(order) \in Nat
  BY LenProperties DEF TypeOK
<1>2. order \in [1..Len(order) -> Callbacks \ Delayed]
  BY <1>1 DEF OrderInv
<1>. QED BY <1>1, <1>2, SeqDef

\* The first state.
LEMMA InitFate == Init => FateInv
<1>. SUFFICES ASSUME Init PROVE FateInv
  OBVIOUS
<1>1. IInv
  BY InitIInv
<1>2. Len(<<>>) = 0 /\ Fns(<<>>) = {} /\ Runs(<<>>) = {}
  BY EmptySeq DEF Fns, Runs
<1>3. PlaceInv
  BY <1>2 DEF Init, PlaceInv, Distinct
<1>4. OrderInv
  BY <1>2 DEF Init, OrderInv, Ordered
<1>. QED BY <1>1, <1>3, <1>4 DEF FateInv

\* post(): the callback was nowhere, and stands behind all others.
LEMMA PostFate ==
    ASSUME FateInv, NEW c \in Callbacks, Post(c)
    PROVE  PlaceInv' /\ OrderInv'
<1>. USE DEF FateInv, IInv
<1>. DEFINE job == Job(c, "run")
<1>1. job \in Jobs /\ job.fn = c /\ c \notin issued /\ c \notin Delayed
  BY JobType DEF Post, Job
<1>2. pending' = Append(pending, job) /\ order' = Append(order, c)
  BY DEF Post, Push
<1>3. pending \in Seq(Jobs) /\ batch \in Seq(Jobs) /\ ran \in Seq(Callbacks)
  BY DEF TypeOK
<1>4. c \notin Runs(ran) \union Fns(batch) \union Fns(pending)
  BY <1>1 DEF PlaceInv
<1>. HIDE DEF job
<1>5. Fns(pending') = Fns(pending) \union {c} /\ Distinct(pending')
  BY <1>1, <1>2, <1>3, <1>4, FnsAppend DEF PlaceInv
<1>6. PlaceInv'
  BY <1>1, <1>5 DEF Post, PlaceInv
<1>7. \A n \in 1..Len(order) : order[n] # c /\ order[n] \in Runs(ran) \union Fns(batch) \union Fns(pending)
  BY <1>1 DEF OrderInv, PlaceInv, Post, TypeOK
<1>8. Ordered(ran, batch, pending', order')
  BY <1>1, <1>2, <1>3, <1>4, <1>7, OrderType, PostKeepsOrder DEF OrderInv
<1>9. /\ Len(order') = Len(order) + 1 /\ Len(order) \in Nat
      /\ \A i \in 1..Len(order) : order'[i] = order[i]
      /\ order'[Len(order) + 1] = c
  BY <1>2, AppendProperties, LenProperties DEF TypeOK
<1>10. OrderInv'
  <2>1. \A n \in 1..Len(order') : order'[n] \in issued' \ Delayed
    BY <1>1, <1>9 DEF OrderInv, Post
  <2>2. \A n \in 1..Len(order') : order'[n] \notin lost'
    BY <1>1, <1>9 DEF OrderInv, PlaceInv, Post
  <2>. QED BY <1>8, <2>1, <2>2 DEF OrderInv, Post
<1>. QED BY <1>6, <1>10

\* postAfter(): the wrapper is queued, the callback is not in order.
LEMMA PostAfterFate ==
    ASSUME FateInv, NEW c \in Callbacks, PostAfter(c)
    PROVE  PlaceInv' /\ OrderInv'
<1>. USE DEF FateInv, IInv
<1>. DEFINE job == Job(c, "arm")
<1>1. job \in Jobs /\ job.fn = c /\ c \notin issued /\ c \in Delayed
  BY JobType DEF PostAfter, Job
<1>2. pending' = Append(pending, job)
  BY DEF PostAfter, Push
<1>3. pending \in Seq(Jobs) /\ batch \in Seq(Jobs) /\ ran \in Seq(Callbacks)
  BY DEF TypeOK
<1>. HIDE DEF job
<1>4. Fns(pending') = Fns(pending) \union {c} /\ Distinct(pending')
  BY <1>1, <1>2, <1>3, FnsAppend DEF PlaceInv
<1>5. PlaceInv'
  BY <1>1, <1>4 DEF PostAfter, PlaceInv
<1>6. Ordered(ran, batch, pending', order)
  BY <1>1, <1>2, <1>3, OrderType, PushKeepsOrder DEF OrderInv
<1>7. OrderInv'
  BY <1>1, <1>6 DEF PostAfter, OrderInv
<1>. QED BY <1>5, <1>7

\* A timer fires: its callback, a delayed one, runs.
LEMMA OnTimerFate ==
    ASSUME FateInv, NEW c \in Callbacks, OnTimer(c)
    PROVE  PlaceInv' /\ OrderInv'
<1>. USE DEF FateInv, IInv
<1>1. c \in timers /\ c \in Delayed /\ ran' = Append(ran, c)
  BY DEF OnTimer, TypeOK
<1>2. pending \in Seq(Jobs) /\ batch \in Seq(Jobs) /\ ran \in Seq(Callbacks)
  BY DEF TypeOK
<1>3. /\ Runs(ran') = Runs(ran) \union {c}
      /\ Len(ran') = Len(ran) + 1 /\ Len(ran) \in Nat
      /\ \A i \in 1..Len(ran) : ran'[i] = ran[i] /\ ran[i] \in Runs(ran)
      /\ ran'[Len(ran) + 1] = c
  BY <1>1, <1>2, RunsAppend DEF Runs
<1>4. c \notin Runs(ran)
  BY <1>1 DEF PlaceInv
<1>5. \A i, j \in 1..Len(ran') : ran'[i] = ran'[j] => i = j
  BY <1>3, <1>4 DEF PlaceInv
<1>6. PlaceInv'
  BY <1>1, <1>3, <1>5 DEF OnTimer, PlaceInv
<1>7. Ordered(ran', batch, pending, order)
  BY <1>1, <1>2, OrderType, DelayedRunKeepsOrder DEF OrderInv
<1>8. OrderInv'
  BY <1>7 DEF OnTimer, OrderInv
<1>. QED BY <1>6, <1>8

\* The loop runs one job: its callback leaves the batch for one other place.
LEMMA RunJobFate ==
    ASSUME FateInv, RunJob
    PROVE  PlaceInv' /\ OrderInv'
<1>. USE DEF FateInv, IInv
<1>. DEFINE c == Head(batch).fn
<1>1. /\ pending \in Seq(Jobs) /\ batch \in Seq(Jobs) /\ ran \in Seq(Callbacks)
      /\ batch # <<>> /\ Distinct(batch) /\ Distinct(pending) /\ loop = "run"
      /\ batch' = Tail(batch)
      /\ UNCHANGED <<issued, readable, loop, order>>
  BY DEF RunJob, TypeOK, PlaceInv
<1>2. Head(batch) \in Jobs /\ Tail(batch) \in Seq(Jobs)
  BY <1>1, HeadTailProperties
<1>3. c \in Callbacks
  BY <1>2, JobType
<1>4. Fns(batch') = Fns(batch) \ {c} /\ c \in Fns(batch) /\ Distinct(batch')
  BY <1>1, FnsTail
<1>5. c \notin Fns(pending) \union Runs(ran) \union timers \union lost
  BY <1>4 DEF PlaceInv
<1>6. order \in Seq(Callbacks \ Delayed) /\ Ordered(ran, batch, pending, order)
  BY OrderType DEF OrderInv
<1>7. \A n \in 1..Len(order) : order[n] \in issued \ Delayed
  BY DEF OrderInv
<1>8. ASSUME ran' = Append(ran, c), UNCHANGED <<pending, timers, lost>>
      PROVE  PlaceInv' /\ OrderInv'
  <2>1. /\ Runs(ran') = Runs(ran) \union {c}
        /\ Len(ran') = Len(ran) + 1 /\ Len(ran) \in Nat
        /\ \A i \in 1..Len(ran) : ran'[i] = ran[i] /\ ran[i] \in Runs(ran)
        /\ ran'[Len(ran) + 1] = c
    <3>1. \A i \in 1..Len(ran) : ran[i] \in Runs(ran)
      BY DEF Runs
    <3>. HIDE DEF c
    <3>. QED BY <1>1, <1>3, <1>8, <3>1, RunsAppend
  <2>2. \A i, j \in 1..Len(ran') : ran'[i] = ran'[j] => i = j
    BY <1>5, <2>1 DEF PlaceInv
  <2>. HIDE DEF c
  <2>3. PlaceInv'
    BY <1>1, <1>4, <1>5, <1>8, <2>1, <2>2 DEF PlaceInv
  <2>4. Ordered(ran', batch', pending, order)
    BY <1>1, <1>6, <1>8, RunHeadKeepsOrder DEF c
  <2>. QED BY <1>1, <1>8, <2>3, <2>4 DEF OrderInv
<1>9. CASE Head(batch).does # "arm"
  BY <1>8, <1>9 DEF RunJob
<1>10. CASE Head(batch).does = "arm"
  <2>1. c \in Delayed /\ ArmTimer(c)
    BY <1>2, <1>10, JobType DEF RunJob
  <2>2. Ordered(ran, batch', pending, order)
    BY <1>1, <1>6, <2>1, TakeKeepsOrder
  <2>. HIDE DEF c
  <2>3. CASE ran' = Append(ran, c) /\ UNCHANGED <<pending, unwritten, timers, lost>>
    BY <1>8, <2>3
  <2>4. CASE lost' = lost \union {c} /\ UNCHANGED <<pending, unwritten, timers, ran>>
    <3>1. PlaceInv'
      BY <1>1, <1>4, <1>5, <2>4 DEF PlaceInv
    <3>2. \A n \in 1..Len(order) : order[n] # c
      BY <1>7, <2>1
    <3>3. OrderInv'
      BY <1>1, <2>2, <2>4, <3>2 DEF OrderInv
    <3>. QED BY <3>1, <3>3
  <2>5. CASE Push(Job(c, "run")) /\ UNCHANGED <<timers, ran, lost>>
    <3>1. Job(c, "run") \in Jobs /\ Job(c, "run").fn = c
      BY <1>3, JobType DEF Job
    <3>2. pending' = Append(pending, Job(c, "run"))
      BY <2>5 DEF Push
    <3>3. Fns(pending') = Fns(pending) \union {c} /\ Distinct(pending')
      BY <1>1, <1>5, <3>1, <3>2, FnsAppend
    <3>4. PlaceInv'
      BY <1>1, <1>4, <1>5, <2>5, <3>3 DEF PlaceInv
    <3>5. Ordered(ran, batch', pending', order)
      BY <1>1, <1>2, <1>6, <2>1, <2>2, <3>1, <3>2, PushKeepsOrder
    <3>6. OrderInv'
      BY <1>1, <2>5, <3>5 DEF OrderInv
    <3>. QED BY <3>4, <3>6
  <2>6. CASE timers' = timers \union {c} /\ UNCHANGED <<pending, unwritten, ran, lost>>
    <3>1. PlaceInv'
      BY <1>1, <1>4, <1>5, <2>6 DEF PlaceInv
    <3>2. OrderInv'
      BY <1>1, <2>2, <2>6 DEF OrderInv
    <3>. QED BY <3>1, <3>2
  <2>. QED BY <2>1, <2>3, <2>4, <2>5, <2>6 DEF ArmTimer
<1>. QED BY <1>9, <1>10

\* Every step, and every stuttering step, keeps each callback in its one place
\* and the undelayed ones in order.
LEMMA NextFate == FateInv /\ [Next]_vars => FateInv'
<1>. SUFFICES ASSUME FateInv, [Next]_vars PROVE PlaceInv' /\ OrderInv'
  BY NextIInv DEF FateInv
<1>. USE DEF FateInv, IInv
<1>0. Len(<<>>) = 0 /\ Fns(<<>>) = {} /\ Distinct(<<>>)
  BY EmptySeq DEF Fns, Distinct
<1>1. ASSUME NEW c \in Callbacks, Post(c) PROVE PlaceInv' /\ OrderInv'
  BY <1>1, PostFate
<1>2. ASSUME NEW c \in Callbacks, PostAfter(c) PROVE PlaceInv' /\ OrderInv'
  BY <1>2, PostAfterFate
<1>3. ASSUME NEW c \in Callbacks, PostDropped(c) PROVE PlaceInv' /\ OrderInv'
  <2>1. PlaceInv'
    BY <1>3 DEF PostDropped, PlaceInv
  <2>2. OrderInv'
    BY <1>3 DEF PostDropped, OrderInv
  <2>. QED BY <2>1, <2>2
<1>4. ASSUME NEW c \in Callbacks, OnTimer(c) PROVE PlaceInv' /\ OrderInv'
  BY <1>4, OnTimerFate
<1>5. ASSUME NEW job \in unwritten, Wake(job) PROVE PlaceInv' /\ OrderInv'
  BY <1>5 DEF Wake, PlaceInv, OrderInv
<1>6. CASE OnReadable
  BY <1>6 DEF OnReadable, PlaceInv, OrderInv
<1>7. CASE Drain
  <2>1. batch = <<>>
    BY <1>7 DEF Drain, PlaceInv
  <2>2. PlaceInv'
    BY <1>0, <1>7, <2>1 DEF Drain, PlaceInv
  <2>3. Ordered(ran, pending, <<>>, order)
    BY <2>1, SwapKeepsOrder DEF OrderInv, TypeOK
  <2>. QED BY <1>7, <2>2, <2>3 DEF Drain, OrderInv
<1>8. CASE RunJob
  BY <1>8, RunJobFate
<1>9. CASE BatchDone
  BY <1>9 DEF BatchDone, PlaceInv, OrderInv
<1>10. CASE Stop
  BY <1>10 DEF Stop, PlaceInv, OrderInv
<1>11. CASE Destroy
  <2>1. PlaceInv'
    BY <1>0, <1>11 DEF Destroy, PlaceInv
  <2>2. Ordered(ran, batch, <<>>, order)
    BY DropKeepsOrder DEF OrderInv
  <2>. QED BY <1>11, <2>1, <2>2 DEF Destroy, OrderInv
<1>12. CASE UNCHANGED vars
  BY <1>12 DEF vars, PlaceInv, OrderInv
<1>. QED
  BY <1>1, <1>2, <1>3, <1>4, <1>5, <1>6, <1>7, <1>8, <1>9, <1>10, <1>11, <1>12 DEF Next, Loop

\* A callback that is in one place is counted once.
LEMMA OnePlace ==
    ASSUME TypeOK, PlaceInv, NEW c \in issued
    PROVE  Places(c) = 1
<1>. DEFINE P == {i \in DOMAIN pending : pending[i].fn = c}
<1>. DEFINE B == {i \in DOMAIN batch : batch[i].fn = c}
<1>. DEFINE R == {i \in DOMAIN ran : ran[i] = c}
<1>. DEFINE T == {c} \intersect timers
<1>. DEFINE L == {c} \intersect lost
<1>1. /\ DOMAIN pending = 1..Len(pending) /\ DOMAIN batch = 1..Len(batch) /\ DOMAIN ran = 1..Len(ran)
  BY LenProperties DEF TypeOK
<1>2. Cardinality({}) = 0 /\ \A x : Cardinality({x}) = 1
  BY FS_EmptySet, FS_Singleton
<1>3. c \in Fns(pending) => \E i : P = {i}
  <2>. SUFFICES ASSUME c \in Fns(pending) PROVE \E i : P = {i}
    OBVIOUS
  <2>1. PICK i \in 1..Len(pending) : pending[i].fn = c
    BY DEF Fns
  <2>2. \A j \in 1..Len(pending) : pending[j].fn = c => j = i
    BY <2>1 DEF PlaceInv, Distinct
  <2>3. P = {i}
    BY <1>1, <2>1, <2>2
  <2>. QED BY <2>3
<1>4. c \notin Fns(pending) => P = {}
  BY <1>1 DEF Fns
<1>5. c \in Fns(batch) => \E i : B = {i}
  <2>. SUFFICES ASSUME c \in Fns(batch) PROVE \E i : B = {i}
    OBVIOUS
  <2>1. PICK i \in 1..Len(batch) : batch[i].fn = c
    BY DEF Fns
  <2>2. \A j \in 1..Len(batch) : batch[j].fn = c => j = i
    BY <2>1 DEF PlaceInv, Distinct
  <2>3. B = {i}
    BY <1>1, <2>1, <2>2
  <2>. QED BY <2>3
<1>6. c \notin Fns(batch) => B = {}
  BY <1>1 DEF Fns
<1>7. c \in Runs(ran) => \E i : R = {i}
  <2>. SUFFICES ASSUME c \in Runs(ran) PROVE \E i : R = {i}
    OBVIOUS
  <2>1. PICK i \in 1..Len(ran) : ran[i] = c
    BY DEF Runs
  <2>2. \A j \in 1..Len(ran) : ran[j] = c => j = i
    BY <2>1 DEF PlaceInv
  <2>3. R = {i}
    BY <1>1, <2>1, <2>2
  <2>. QED BY <2>3
<1>8. c \notin Runs(ran) => R = {}
  BY <1>1 DEF Runs
<1>9. (c \in timers => T = {c}) /\ (c \notin timers => T = {})
  OBVIOUS
<1>10. (c \in lost => L = {c}) /\ (c \notin lost => L = {})
  OBVIOUS
<1>. HIDE DEF P, B, R, T, L
<1>11. Cardinality(P) = IF c \in Fns(pending) THEN 1 ELSE 0
  BY <1>2, <1>3, <1>4
<1>12. Cardinality(B) = IF c \in Fns(batch) THEN 1 ELSE 0
  BY <1>2, <1>5, <1>6
<1>13. Cardinality(R) = IF c \in Runs(ran) THEN 1 ELSE 0
  BY <1>2, <1>7, <1>8
<1>14. Cardinality(T) = IF c \in timers THEN 1 ELSE 0
  BY <1>2, <1>9
<1>15. Cardinality(L) = IF c \in lost THEN 1 ELSE 0
  BY <1>2, <1>10
<1>16. Cardinality(P) + Cardinality(B) + Cardinality(R) + Cardinality(T) + Cardinality(L) = 1
  BY <1>11, <1>12, <1>13, <1>14, <1>15 DEF PlaceInv
<1>. QED BY <1>16 DEF Places, P, B, R, T, L

\* The invariant of the callbacks' fates holds in every reachable state.
THEOREM FateInvariance == Spec => []FateInv
<1>. QED BY InitFate, NextFate, PTL DEF Spec

\* Every callback handed over is in exactly one place: it runs at most once, and
\* never vanishes unaccounted for, whatever armTimer and the destructor do.
THEOREM OneFatePerCallback == Spec => []RunAtMostOnce
<1>1. FateInv => RunAtMostOnce
  BY OnePlace DEF FateInv, IInv, RunAtMostOnce
<1>. QED BY <1>1, FateInvariance, PTL

\* Undelayed callbacks run in the order in which they were queued.
THEOREM QueueIsFifo == Spec => []RunsInOrder
<1>1. ASSUME FateInv PROVE RunsInOrder
  <2>. SUFFICES ASSUME NEW n \in DOMAIN order, NEW j \in DOMAIN ran, ran[j] = order[n],
                       NEW m \in 1..(n - 1)
                PROVE  \E i \in 1..(j - 1) : ran[i] = order[m]
    BY DEF RunsInOrder
  <2>1. /\ DOMAIN order = 1..Len(order) /\ DOMAIN ran = 1..Len(ran)
        /\ Len(order) \in Nat /\ Len(ran) \in Nat
    BY <1>1, LenProperties DEF FateInv, IInv, TypeOK
  <2>2. m \in 1..Len(order) /\ n \in 1..Len(order) /\ m < n /\ j \in 1..Len(ran)
    BY <2>1
  <2>3. PICK i \in 1..Len(ran) : i < j /\ ran[i] = order[m]
    BY <1>1, <2>2 DEF FateInv, OrderInv, Ordered
  <2>. QED BY <2>1, <2>2, <2>3
<1>. QED BY <1>1, FateInvariance, PTL

=============================================================================
