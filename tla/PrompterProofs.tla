---------------------------- MODULE PrompterProofs ----------------------------
(***************************************************************************)
(* Proofs about the credential prompt, for any number of prompts, ids,     *)
(* agents, exits of the helper and entry times.                            *)
(***************************************************************************)
EXTENDS Prompter, SequenceTheorems, TLAPS

-----------------------------------------------------------------------------
(* What the queues and the registry hold after one step.                   *)

\* Appending keeps what a queue holds and adds one message at its end.
LEMMA Appended ==
    ASSUME NEW S, NEW s \in Seq(S), NEW e \in S
    PROVE  /\ Append(s, e) \in Seq(S)
           /\ DOMAIN Append(s, e) = 1..(Len(s) + 1)
           /\ Len(s) \in Nat /\ DOMAIN s = 1..Len(s)
           /\ \A k \in DOMAIN s : Append(s, e)[k] = s[k]
           /\ Append(s, e)[Len(s) + 1] = e
    BY AppendProperties, LenProperties

\* Taking the first message moves the others up by one.
LEMMA Taken ==
    ASSUME NEW S, NEW s \in Seq(S), s # <<>>
    PROVE  /\ Tail(s) \in Seq(S) /\ Head(s) = s[1] /\ s[1] \in S
           /\ Len(s) \in Nat \ {0} /\ DOMAIN s = 1..Len(s) /\ 1 \in DOMAIN s
           /\ DOMAIN Tail(s) = 1..(Len(s) - 1)
           /\ \A k \in DOMAIN Tail(s) : k + 1 \in DOMAIN s /\ Tail(s)[k] = s[k + 1]
           /\ \A k \in DOMAIN s : k = 1 \/ (k - 1 \in DOMAIN Tail(s) /\ Tail(s)[k - 1] = s[k])
    BY HeadTailProperties, LenProperties

\* A helper that exits loses a prefix of the calls routed to it.
LEMMA Dropped ==
    ASSUME NEW S, NEW s \in Seq(S), NEW d \in 0..Len(s)
    PROVE  /\ SubSeq(s, d + 1, Len(s)) \in Seq(S)
           /\ Len(s) \in Nat /\ d \in Nat /\ DOMAIN s = 1..Len(s)
           /\ DOMAIN SubSeq(s, d + 1, Len(s)) = 1..(Len(s) - d)
           /\ \A k \in 1..(Len(s) - d) : k + d \in DOMAIN s /\ SubSeq(s, d + 1, Len(s))[k] = s[k + d]
    BY SubSeqProperties, LenProperties

\* Erasing an entry of the registry keeps the others, in their order.
LEMMA Erased ==
    ASSUME NEW S, NEW s \in Seq(S), NEW i \in DOMAIN s
    PROVE  /\ RemoveAt(s, i) \in Seq(S)
           /\ Len(s) \in Nat \ {0} /\ DOMAIN s = 1..Len(s)
           /\ DOMAIN RemoveAt(s, i) = 1..(Len(s) - 1)
           /\ \A k \in 1..(Len(s) - 1) : RemoveAt(s, i)[k] = IF k < i THEN s[k] ELSE s[k + 1]
<1>1. Len(s) \in Nat /\ DOMAIN s = 1..Len(s) /\ i \in 1..Len(s)
    BY LenProperties
<1> DEFINE a == SubSeq(s, 1, i - 1)
           b == SubSeq(s, i + 1, Len(s))
<1>2. a \in Seq(S) /\ Len(a) = i - 1 /\ \A k \in 1..(i - 1) : a[k] = s[k]
  <2>1. \A k \in 1..(i - 1) : s[k] \in S
    BY <1>1, LenProperties
  <2>2. i - 1 \in Int /\ 1 \in Int
    BY <1>1
  <2>3. /\ a \in Seq(S) /\ Len(a) = IF 1 <= i - 1 THEN (i - 1) - 1 + 1 ELSE 0
        /\ \A k \in 1..((i - 1) - 1 + 1) : a[k] = s[1 + k - 1]
    BY <2>1, <2>2, SubSeqProperties
  <2> HIDE DEF a
  <2> QED
    BY <1>1, <2>3
<1>3. b \in Seq(S) /\ Len(b) = Len(s) - i /\ \A k \in 1..(Len(s) - i) : b[k] = s[k + i]
  <2>1. \A k \in (i + 1)..Len(s) : s[k] \in S
    BY <1>1, LenProperties
  <2>2. i + 1 \in Int /\ Len(s) \in Int
    BY <1>1
  <2>3. /\ b \in Seq(S) /\ Len(b) = IF i + 1 <= Len(s) THEN Len(s) - (i + 1) + 1 ELSE 0
        /\ \A k \in 1..(Len(s) - (i + 1) + 1) : b[k] = s[(i + 1) + k - 1]
    BY <2>1, <2>2, SubSeqProperties
  <2> HIDE DEF b
  <2>4. \A k \in 1..(Len(s) - i) : b[k] = s[k + i]
    <3> TAKE k \in 1..(Len(s) - i)
    <3>1. k \in 1..(Len(s) - (i + 1) + 1) /\ (i + 1) + k - 1 = k + i
        BY <1>1
    <3> QED
        BY <2>3, <3>1
  <2>5. Len(b) = Len(s) - i
    BY <1>1, <2>3
  <2> QED
    BY <2>3, <2>4, <2>5
<1>4. RemoveAt(s, i) = a \o b
    BY DEF RemoveAt
<1> HIDE DEF a, b
<1>5. /\ a \o b \in Seq(S) /\ Len(a \o b) = Len(s) - 1
      /\ \A k \in 1..(Len(s) - 1) : (a \o b)[k] = IF k < i THEN s[k] ELSE s[k + 1]
  <2>1. /\ a \o b \in Seq(S) /\ Len(a \o b) = Len(a) + Len(b)
        /\ \A k \in 1..(Len(a) + Len(b)) :
             (a \o b)[k] = IF k <= Len(a) THEN a[k] ELSE b[k - Len(a)]
    BY <1>2, <1>3, ConcatProperties
  <2>2. Len(a) + Len(b) = Len(s) - 1
    BY <1>1, <1>2, <1>3
  <2>3. ASSUME NEW k \in 1..(Len(s) - 1)
        PROVE  (a \o b)[k] = IF k < i THEN s[k] ELSE s[k + 1]
    <3>1. (a \o b)[k] = IF k <= Len(a) THEN a[k] ELSE b[k - Len(a)]
        BY <2>1, <2>2
    <3>2. CASE k < i
        <4>1. k \in 1..(i - 1) /\ k <= Len(a)
            BY <1>1, <1>2, <3>2
        <4> QED
            BY <1>2, <3>1, <3>2, <4>1
    <3>3. CASE ~(k < i)
        <4>1. /\ ~(k <= Len(a)) /\ k - Len(a) \in 1..(Len(s) - i)
              /\ (k - Len(a)) + i = k + 1
            BY <1>1, <1>2, <3>3
        <4>2. b[k - Len(a)] = s[(k - Len(a)) + i]
            BY <1>3, <4>1
        <4> QED
            BY <3>1, <3>3, <4>1, <4>2
    <3> QED
        BY <3>2, <3>3
  <2> QED
    BY <2>1, <2>2, <2>3
<1>6. DOMAIN (a \o b) = 1..(Len(s) - 1)
    BY <1>5, LenProperties
<1>7. Len(s) \in Nat \ {0}
    BY <1>1
<1> QED
    BY <1>1, <1>4, <1>5, <1>6, <1>7, Zenon

-----------------------------------------------------------------------------
(* Types: every variable but the count of answers, and a message about a   *)
(* prompt names one.                                                       *)

AgentType ==
    /\ agent \in 1..MaxAgents /\ up \in BOOLEAN
    /\ up \/ agent < MaxAgents
    /\ capability \in {"unknown", "usable", "tooOld"}
    /\ call \in [Prompts -> {"idle", "cleared", "waiting", "done", "stranded", "lost"}]
    /\ owner \in [Prompts -> Pids]
    /\ id \in [Prompts -> Ids \cup {NoId}]
    /\ ask \in [Prompts -> Asks]

CallsOf(s) ==
    /\ s \in Seq(Calls)
    /\ \A k \in DOMAIN s : s[k].do = "request" => s[k].prompt \in Prompts

JobsOf(s) ==
    /\ s \in Seq(Jobs)
    /\ \A k \in DOMAIN s : s[k].do \in {"raise", "reject"} => s[k].prompt \in Prompts

QueueType == CallsOf(bus) /\ JobsOf(gui)

WindowType ==
    /\ registry \in Seq(Prompts)
    /\ window \in [Prompts -> {"none", "shown", "closed"}]
    /\ form \in [Prompts -> Forms]
    /\ clock \in [Prompts -> [budget : Nat, spent : Nat, due : Nat]]

AnswerType ==
    /\ result \in [Prompts -> [status : Statuses, chosen : {NoSecret, "mrz"},
                               secret : Forms \cup {NoSecret}]]
    /\ reply \in [Prompts -> [word : Words, fd : Forms \cup {NoSecret}]]
    /\ replies \in [Prompts -> Nat]

RestType ==
    /\ helper \in {"old", "current"} /\ exits \in 0..MaxExits
    /\ cancels \subseteq Prompts /\ declined \subseteq Prompts
    /\ dismissed \subseteq Prompts
    /\ resetBy \in Pids

TypeInv == AgentType /\ QueueType /\ WindowType /\ AnswerType /\ RestType

\* The types hold at first.
LEMMA TypeInit == Init => TypeInv
<1> SUFFICES ASSUME Init PROVE TypeInv
    OBVIOUS
<1>1. AgentType
    BY PrompterAssumption DEF Init, AgentType, Pids
<1>2. QueueType
    BY DEF Init, QueueType, CallsOf, JobsOf
<1>3. WindowType
    BY DEF Init, WindowType, Forms, Armed
<1>4. AnswerType
    BY DEF Init, AnswerType, NoAnswer, NoResult, Words, Statuses, NoSecret
<1>5. RestType
    BY PrompterAssumption DEF Init, RestType, Pids
<1> QED
    BY <1>1, <1>2, <1>3, <1>4, <1>5 DEF TypeInv

\* An answer has the type of one and counts once.
LEMMA AnswerKeepsType ==
    ASSUME AnswerType, NEW p \in Prompts, NEW word \in Words, NEW fd \in Forms \cup {NoSecret},
           Answer(p, word, fd)
    PROVE  /\ reply' \in [Prompts -> [word : Words, fd : Forms \cup {NoSecret}]]
           /\ replies' \in [Prompts -> Nat]
    BY DEF AnswerType, Answer

\* Taking an entry leaves a registry of prompts.
LEMMA TakeKeepsType ==
    ASSUME registry \in Seq(Prompts), NEW p \in Prompts, Take(p)
    PROVE  registry' \in Seq(Prompts)
    BY Erased DEF Take

\* A window that finishes keeps the types.
LEMMA FinishedKeepsType ==
    ASSUME TypeInv, NEW p \in Prompts, NEW word \in Words, NEW fd \in Forms \cup {NoSecret},
           Finished(p, word, fd)
    PROVE  /\ registry' \in Seq(Prompts)
           /\ window' \in [Prompts -> {"none", "shown", "closed"}]
           /\ reply' \in [Prompts -> [word : Words, fd : Forms \cup {NoSecret}]]
           /\ replies' \in [Prompts -> Nat]
<1>1. registry' \in Seq(Prompts)
    BY TakeKeepsType DEF Finished, TypeInv, WindowType
<1>2. window' \in [Prompts -> {"none", "shown", "closed"}]
    BY DEF Finished, TypeInv, WindowType
<1>3. CASE Contains(registry, p)
    BY <1>1, <1>2, <1>3, AnswerKeepsType DEF Finished, TypeInv
<1>4. CASE ~Contains(registry, p)
    BY <1>1, <1>2, <1>4 DEF Finished, TypeInv, AnswerType
<1> QED
    BY <1>3, <1>4

\* Calls stay calls when one is sent, the first is served, or some are lost.
LEMMA CallsKept ==
    ASSUME NEW s, CallsOf(s)
    PROVE  /\ \A m \in Calls : (m.do = "request" => m.prompt \in Prompts) => CallsOf(Append(s, m))
           /\ s # <<>> => CallsOf(Tail(s)) /\ Head(s) \in Calls /\ Head(s) = s[1]
                          /\ (Head(s).do = "request" => Head(s).prompt \in Prompts)
           /\ \A d \in 0..Len(s) : CallsOf(SubSeq(s, d + 1, Len(s)))
<1>1. ASSUME NEW m \in Calls, m.do = "request" => m.prompt \in Prompts
      PROVE  CallsOf(Append(s, m))
    BY <1>1, Appended DEF CallsOf
<1>2. ASSUME s # <<>>
      PROVE  CallsOf(Tail(s)) /\ Head(s) \in Calls /\ Head(s) = s[1]
             /\ (Head(s).do = "request" => Head(s).prompt \in Prompts)
    BY <1>2, Taken DEF CallsOf
<1>3. ASSUME NEW d \in 0..Len(s)
      PROVE  CallsOf(SubSeq(s, d + 1, Len(s)))
  <2>1. s \in Seq(Calls)
    BY DEF CallsOf
  <2>2. /\ SubSeq(s, d + 1, Len(s)) \in Seq(Calls)
        /\ DOMAIN SubSeq(s, d + 1, Len(s)) = 1..(Len(s) - d)
        /\ \A k \in 1..(Len(s) - d) : k + d \in DOMAIN s /\ SubSeq(s, d + 1, Len(s))[k] = s[k + d]
    BY <2>1, Dropped
  <2> DEFINE t == SubSeq(s, d + 1, Len(s))
  <2> HIDE DEF t
  <2>3. /\ t \in Seq(Calls) /\ DOMAIN t = 1..(Len(s) - d)
        /\ \A k \in 1..(Len(s) - d) : k + d \in DOMAIN s /\ t[k] = s[k + d]
    BY <2>2, Zenon DEF t
  <2>4. CallsOf(t)
    BY <2>3 DEF CallsOf
  <2> QED
    BY <2>4 DEF t
<1> QED
    BY <1>1, <1>2, <1>3

\* Jobs stay jobs when one is posted or the first one runs.
LEMMA JobsKept ==
    ASSUME NEW s, JobsOf(s)
    PROVE  /\ \A m \in Jobs : (m.do \in {"raise", "reject"} => m.prompt \in Prompts)
                              => JobsOf(Append(s, m))
           /\ s # <<>> => JobsOf(Tail(s)) /\ Head(s) \in Jobs /\ Head(s) = s[1]
                          /\ (Head(s).do \in {"raise", "reject"} => Head(s).prompt \in Prompts)
<1>1. ASSUME NEW m \in Jobs, m.do \in {"raise", "reject"} => m.prompt \in Prompts
      PROVE  JobsOf(Append(s, m))
    BY <1>1, Appended DEF JobsOf
<1>2. ASSUME s # <<>>
      PROVE  JobsOf(Tail(s)) /\ Head(s) \in Jobs /\ Head(s) = s[1]
             /\ (Head(s).do \in {"raise", "reject"} => Head(s).prompt \in Prompts)
    BY <1>2, Taken DEF JobsOf
<1> QED
    BY <1>1, <1>2

\* What the agent puts on the bus, and what the Qt thread posts to itself.
LEMMA MessageTypes ==
    ASSUME AgentType, NEW p \in Prompts
    PROVE  /\ Request(p) \in Calls /\ Request(p).do = "request" /\ Request(p).prompt = p
           /\ Request(p).by = owner[p] /\ Request(p).id = id[p]
           /\ CancelOf(p) \in Calls /\ CancelOf(p).do = "cancel"
           /\ CancelOf(p).by = owner[p] /\ CancelOf(p).id = id[p]
           /\ RejectOf(p) \in Jobs /\ RejectOf(p).do = "reject" /\ RejectOf(p).prompt = p
    BY PrompterAssumption DEF AgentType, Request, CancelOf, RejectOf, Message, Calls, Jobs, Pids

\* What a starting agent puts on the bus.
LEMMA ResetType ==
    ASSUME NEW pid \in Pids
    PROVE  ResetBy(pid) \in Calls /\ ResetBy(pid).do = "reset" /\ ResetBy(pid).by = pid
    BY DEF ResetBy, Message, Calls

\* A call of the bus thread becomes a job of the Qt thread.
LEMMA PostedType ==
    ASSUME NEW m \in Calls, NEW what \in {"raise", "dismiss", "sweep"}
    PROVE  /\ [m EXCEPT !.do = what] \in Jobs /\ [m EXCEPT !.do = what].do = what
           /\ [m EXCEPT !.do = what].prompt = m.prompt
           /\ [m EXCEPT !.do = what].id = m.id /\ [m EXCEPT !.do = what].by = m.by
    BY DEF Calls, Jobs

\* A sweep tells every standing window to reject, after all that is queued.
LEMMA SweptJobs ==
    ASSUME AgentType, NEW s, JobsOf(s), NEW r \in Seq(Prompts)
    PROVE  LET t == s \o [k \in DOMAIN r |-> RejectOf(r[k])] IN
           /\ JobsOf(t)
           /\ Len(s) \in Nat /\ Len(r) \in Nat /\ DOMAIN r = 1..Len(r) /\ DOMAIN s = 1..Len(s)
           /\ DOMAIN t = 1..(Len(s) + Len(r))
           /\ \A k \in DOMAIN s : t[k] = s[k]
           /\ \A k \in DOMAIN r : /\ t[Len(s) + k] = RejectOf(r[k])
                                  /\ Len(s) + k \in DOMAIN t
           /\ \A k \in DOMAIN t : \/ k \in DOMAIN s
                                  \/ k > Len(s) /\ k - Len(s) \in DOMAIN r
                                     /\ t[k] = RejectOf(r[k - Len(s)])
<1> DEFINE u == [k \in DOMAIN r |-> RejectOf(r[k])]
           t == s \o u
<1>1. /\ Len(r) \in Nat /\ DOMAIN r = 1..Len(r) /\ \A k \in DOMAIN r : r[k] \in Prompts
      /\ s \in Seq(Jobs) /\ Len(s) \in Nat /\ DOMAIN s = 1..Len(s)
    BY LenProperties DEF JobsOf
<1>2. u \in Seq(Jobs) /\ Len(u) = Len(r) /\ DOMAIN u = 1..Len(r)
      /\ \A k \in DOMAIN r : u[k] = RejectOf(r[k])
  <2>1. u \in [1..Len(r) -> Jobs]
    BY <1>1, MessageTypes
  <2>2. u \in Seq(Jobs)
    BY <1>1, <2>1
  <2> QED
    BY <1>1, <2>1, <2>2
<1> HIDE DEF u
<1>3. /\ t \in Seq(Jobs) /\ Len(t) = Len(s) + Len(u)
      /\ \A k \in 1..(Len(s) + Len(u)) : t[k] = IF k <= Len(s) THEN s[k] ELSE u[k - Len(s)]
    BY <1>1, <1>2, ConcatProperties
<1> HIDE DEF t
<1>4. DOMAIN t = 1..(Len(s) + Len(r))
    BY <1>2, <1>3, LenProperties
<1>5. \A k \in DOMAIN s : t[k] = s[k]
    BY <1>1, <1>2, <1>3
<1>6. ASSUME NEW k \in DOMAIN r
      PROVE  t[Len(s) + k] = RejectOf(r[k]) /\ Len(s) + k \in DOMAIN t
  <2>1. /\ Len(s) + k \in 1..(Len(s) + Len(u)) /\ ~(Len(s) + k <= Len(s))
        /\ (Len(s) + k) - Len(s) = k /\ Len(s) + k \in DOMAIN t
    BY <1>1, <1>2, <1>4
  <2> QED
    BY <1>2, <1>3, <2>1
<1>7. ASSUME NEW k \in DOMAIN t
      PROVE  \/ k \in DOMAIN s
             \/ k > Len(s) /\ k - Len(s) \in DOMAIN r /\ t[k] = RejectOf(r[k - Len(s)])
  <2>1. CASE k <= Len(s)
    BY <1>1, <1>4, <2>1
  <2>2. CASE ~(k <= Len(s))
    <3>1. k > Len(s) /\ k - Len(s) \in DOMAIN r /\ k \in 1..(Len(s) + Len(u))
        BY <1>1, <1>2, <1>4, <2>2
    <3> QED
        BY <1>2, <1>3, <2>2, <3>1
  <2> QED
    BY <2>1, <2>2
<1>8. JobsOf(t)
  <2> SUFFICES ASSUME NEW k \in DOMAIN t, t[k].do \in {"raise", "reject"}
               PROVE  t[k].prompt \in Prompts
    BY <1>3 DEF JobsOf
  <2> QED
    BY <1>1, <1>5, <1>7, MessageTypes DEF JobsOf
<1> QED
    BY <1>1, <1>4, <1>5, <1>6, <1>7, <1>8 DEF t, u

\* The steps of the worker and of the agent keep the types.
LEMMA WorkerKeepsType ==
    ASSUME TypeInv, NEW p \in Prompts, Worker(p) \/ OperationCancelled(p)
    PROVE  TypeInv'
<1> USE DEF TypeInv
<1> USE DEF agentVars, helperVars, history
<1>1. ASSUME NEW i \in Ids \cup {NoId}, Ask(p, i)
      PROVE  TypeInv'
  <2>1. AgentType'
    BY <1>1 DEF Ask, AgentType, Usability, Remembered, Pids
  <2>2. result' \in [Prompts -> [status : Statuses, chosen : {NoSecret, "mrz"},
                                 secret : Forms \cup {NoSecret}]]
    BY <1>1 DEF Ask, AnswerType, Refusal, Failed, Statuses
  <2>3. AnswerType'
    BY <1>1, <2>2 DEF Ask, AnswerType
  <2> QED
    BY <1>1, <2>1, <2>3 DEF Ask, QueueType, WindowType, RestType
<1>2. CASE Send(p)
  <2>1. QueueType'
    BY <1>2, CallsKept, MessageTypes DEF Send, QueueType
  <2>2. AgentType'
    BY <1>2 DEF Send, AgentType
  <2> QED
    BY <1>2, <2>1, <2>2 DEF Send, WindowType, AnswerType, RestType
<1>3. CASE CallFails(p)
  <2>1. QueueType'
    <3>1. bus' = bus \/ bus' = Append(bus, CancelOf(p))
        BY <1>3 DEF CallFails
    <3>2. CallsOf(Append(bus, CancelOf(p)))
        BY CallsKept, MessageTypes DEF QueueType
    <3>3. CallsOf(bus')
        BY <3>1, <3>2 DEF QueueType
    <3> QED
        BY <1>3, <3>3 DEF CallFails, QueueType
  <2>2. AgentType'
    BY <1>3 DEF CallFails, AgentType
  <2>3. AnswerType'
    BY <1>3 DEF CallFails, AnswerType, Failed, Statuses
  <2> QED
    BY <1>3, <2>1, <2>2, <2>3 DEF CallFails, WindowType, RestType
<1>4. CASE Receive(p)
  <2>1. AgentType'
    BY <1>4 DEF Receive, AgentType
  <2>2. reply[p] \in [word : Words, fd : Forms \cup {NoSecret}]
    BY DEF AnswerType
  <2>3. \A readable \in BOOLEAN :
          Parsed(p, readable) \in [status : Statuses, chosen : {NoSecret, "mrz"},
                                   secret : Forms \cup {NoSecret}]
    BY <2>2 DEF Parsed, Status, Failed, Statuses
  <2>4. AnswerType'
    BY <1>4, <2>3 DEF Receive, AnswerType, NoAnswer, Words
  <2> QED
    BY <1>4, <2>1, <2>4 DEF Receive, QueueType, WindowType, RestType
<1>5. CASE OperationCancelled(p)
  <2>1. QueueType'
    BY <1>5, CallsKept, MessageTypes DEF OperationCancelled, QueueType
  <2> QED
    BY <1>5, <2>1 DEF OperationCancelled, AgentType, WindowType, AnswerType, RestType
<1> QED
    BY <1>1, <1>2, <1>3, <1>4, <1>5 DEF Worker

\* A crash and a start of the agent keep the types.
LEMMA AgentKeepsType ==
    ASSUME TypeInv, AgentCrash \/ AgentStart \/ HelperExit
    PROVE  TypeInv'
<1> USE DEF TypeInv
<1> USE DEF agentVars, helperVars, history
<1>1. CASE AgentCrash
  <2>1. AgentType'
    BY <1>1 DEF AgentCrash, AgentType
  <2> QED
    BY <1>1, <2>1 DEF AgentCrash, QueueType, WindowType, AnswerType, RestType
<1>2. CASE AgentStart
  <2>1. AgentType'
    BY <1>2, PrompterAssumption DEF AgentStart, AgentType
  <2>2. agent + 1 \in Pids
    BY <1>2, PrompterAssumption DEF AgentStart, AgentType, Pids
  <2>3. QueueType'
    BY <1>2, <2>2, CallsKept, ResetType DEF AgentStart, QueueType
  <2> QED
    BY <1>2, <2>1, <2>3 DEF AgentStart, WindowType, AnswerType, RestType
<1>3. CASE HelperExit
  <2>1. QueueType'
    BY <1>3, CallsKept DEF HelperExit, QueueType, JobsOf
  <2>2. WindowType'
    BY <1>3 DEF HelperExit, WindowType, Shown
  <2>3. RestType'
    BY <1>3, PrompterAssumption DEF HelperExit, RestType
  <2> QED
    BY <1>3, <2>1, <2>2, <2>3 DEF HelperExit, AgentType, AnswerType
<1> QED
    BY <1>1, <1>2, <1>3

\* The steps of the helper's bus thread keep the types.
LEMMA DispatchKeepsType ==
    ASSUME TypeInv, Dispatch
    PROVE  TypeInv'
<1> USE DEF TypeInv
<1> USE DEF agentVars, helperVars, history
<1> DEFINE m == Head(bus)
<1>0. bus # <<>> /\ bus' = Tail(bus)
    BY DEF Dispatch, DispatchRequest, DispatchCancel, DispatchReset, NextCall
<1>1. /\ CallsOf(bus') /\ m \in Calls
      /\ m.do = "request" => m.prompt \in Prompts
    BY <1>0, CallsKept DEF QueueType
<1> HIDE DEF m
<1>2. CASE DispatchRequest
  <2>1. m.do = "request" /\ m.prompt \in Prompts
    BY <1>1, <1>2 DEF DispatchRequest, NextCall, m
  <2>2. \/ gui' = Append(gui, [m EXCEPT !.do = "raise"]) /\ UNCHANGED <<reply, replies>>
        \/ UNCHANGED gui /\ \E word \in {"error", "unauthorized"} : Answer(m.prompt, word, NoSecret)
    BY <1>2 DEF DispatchRequest, m
  <2>3. QueueType'
    <3>1. JobsOf(Append(gui, [m EXCEPT !.do = "raise"]))
        BY <1>1, <2>1, PostedType, JobsKept DEF QueueType
    <3>2. JobsOf(gui')
        BY <2>2, <3>1 DEF QueueType
    <3> QED
        BY <1>1, <3>2 DEF QueueType
  <2>4. AnswerType'
    <3>1. UNCHANGED result
        BY <1>2 DEF DispatchRequest
    <3>2. CASE UNCHANGED <<reply, replies>>
        BY <3>1, <3>2 DEF AnswerType
    <3>3. ASSUME NEW word \in {"error", "unauthorized"}, Answer(m.prompt, word, NoSecret)
          PROVE  AnswerType'
        BY <2>1, <3>1, <3>3, AnswerKeepsType DEF AnswerType, Words
    <3> QED
        BY <2>2, <3>2, <3>3
  <2> QED
    BY <1>2, <2>3, <2>4 DEF DispatchRequest, AgentType, WindowType, RestType
<1>3. CASE DispatchCancel
  <2>1. UNCHANGED gui \/ gui' = Append(gui, [m EXCEPT !.do = "dismiss"])
    BY <1>3 DEF DispatchCancel, m
  <2>2. QueueType'
    <3>1. JobsOf(Append(gui, [m EXCEPT !.do = "dismiss"]))
        BY <1>1, PostedType, JobsKept DEF QueueType
    <3>2. JobsOf(gui')
        BY <2>1, <3>1 DEF QueueType
    <3> QED
        BY <1>1, <3>2 DEF QueueType
  <2>3. RestType'
    BY <1>3 DEF DispatchCancel, RestType, Addressed
  <2> QED
    BY <1>3, <2>2, <2>3 DEF DispatchCancel, AgentType, WindowType, AnswerType
<1>4. CASE DispatchReset
  <2>1. UNCHANGED gui \/ gui' = Append(gui, [m EXCEPT !.do = "sweep"])
    BY <1>4 DEF DispatchReset, m
  <2>2. QueueType'
    <3>1. JobsOf(Append(gui, [m EXCEPT !.do = "sweep"]))
        BY <1>1, PostedType, JobsKept DEF QueueType
    <3>2. JobsOf(gui')
        BY <2>1, <3>1 DEF QueueType
    <3> QED
        BY <1>1, <3>2 DEF QueueType
  <2>3. resetBy' \in {resetBy, m.by} /\ m.by \in Pids
    BY <1>1, <1>4 DEF DispatchReset, m, Calls
  <2>4. RestType'
    BY <1>4, <2>3 DEF DispatchReset, RestType
  <2> QED
    BY <1>4, <2>2, <2>4 DEF DispatchReset, AgentType, WindowType, AnswerType
<1> QED
    BY <1>2, <1>3, <1>4 DEF Dispatch

\* The jobs of the Qt thread keep the types.
LEMMA QtKeepsType ==
    ASSUME TypeInv, QtThread
    PROVE  TypeInv'
<1> USE DEF TypeInv
<1> USE DEF agentVars, helperVars, history
<1> DEFINE m == Head(gui)
<1>0. gui # <<>>
    BY DEF QtThread, Raise, Dismiss, Sweep, Reject, RunJob
<1>1. /\ JobsOf(Tail(gui)) /\ m \in Jobs
      /\ m.do \in {"raise", "reject"} => m.prompt \in Prompts
    BY <1>0, JobsKept DEF QueueType
<1> HIDE DEF m
<1>2. CASE Raise
  <2> DEFINE p == m.prompt
  <2>1. p \in Prompts /\ gui' = Tail(gui) /\ UNCHANGED bus
    BY <1>1, <1>2 DEF Raise, RunJob, m
  <2>2. \/ /\ registry' = Append(registry, p)
           /\ window' = [window EXCEPT ![p] = "shown"]
           /\ clock' = [clock EXCEPT ![p] = Armed(ask[p].budget)]
           /\ UNCHANGED <<reply, replies>>
        \/ /\ Answer(p, "error", NoSecret)
           /\ UNCHANGED <<registry, window, clock>>
    BY <1>2 DEF Raise, m
  <2>3. UNCHANGED <<form, result>>
    BY <1>2 DEF Raise
  <2> HIDE DEF p
  <2>4. WindowType'
    <3>1. ask[p].budget \in Nat
        BY <2>1, PrompterAssumption DEF AgentType
    <3>2. registry' \in Seq(Prompts)
      <4>1. Append(registry, p) \in Seq(Prompts)
        BY <2>1, Appended DEF WindowType
      <4> QED
        BY <2>2, <4>1 DEF WindowType
    <3>3. window' \in [Prompts -> {"none", "shown", "closed"}]
        BY <2>2 DEF WindowType
    <3>4. clock' \in [Prompts -> [budget : Nat, spent : Nat, due : Nat]]
      <4>1. Armed(ask[p].budget) \in [budget : Nat, spent : Nat, due : Nat]
        BY <3>1 DEF Armed
      <4> QED
        BY <2>2, <4>1 DEF WindowType
    <3> QED
        BY <2>3, <3>2, <3>3, <3>4 DEF WindowType
  <2>5. AnswerType'
    <3>1. CASE UNCHANGED <<reply, replies>>
        BY <2>3, <3>1 DEF AnswerType
    <3>2. CASE Answer(p, "error", NoSecret)
        BY <2>1, <2>3, <3>2, AnswerKeepsType DEF AnswerType, Words
    <3> QED
        BY <2>2, <3>1, <3>2
  <2> QED
    BY <1>1, <1>2, <2>1, <2>4, <2>5 DEF Raise, AgentType, QueueType, RestType
<1>3. CASE Dismiss
  <2>1. \/ gui' = Tail(gui)
        \/ \E k \in DOMAIN registry : gui' = Append(Tail(gui), RejectOf(registry[k]))
    BY <1>3 DEF Dismiss, Entries
  <2>2. \A k \in DOMAIN registry : registry[k] \in Prompts
    BY LenProperties DEF WindowType
  <2>3. JobsOf(gui')
    <3>1. \A k \in DOMAIN registry : JobsOf(Append(Tail(gui), RejectOf(registry[k])))
        BY <1>1, <2>2, JobsKept, MessageTypes
    <3> QED
        BY <1>1, <2>1, <3>1
  <2> QED
    BY <1>3, <2>3 DEF Dismiss, AgentType, QueueType, WindowType, AnswerType, RestType
<1>4. CASE Sweep
  <2>1. gui' = Tail(gui) \o [k \in DOMAIN registry |-> RejectOf(registry[k])]
    BY <1>4 DEF Sweep, Swept
  <2>2. JobsOf(gui')
    BY <1>1, <2>1, SweptJobs DEF WindowType
  <2> QED
    BY <1>4, <2>2 DEF Sweep, AgentType, QueueType, WindowType, AnswerType, RestType
<1>5. CASE Reject
  <2>1. m.prompt \in Prompts /\ Finished(m.prompt, "cancelled", NoSecret) /\ gui' = Tail(gui)
    BY <1>1, <1>5 DEF Reject, RunJob, m
  <2>2. /\ registry' \in Seq(Prompts)
        /\ window' \in [Prompts -> {"none", "shown", "closed"}]
        /\ reply' \in [Prompts -> [word : Words, fd : Forms \cup {NoSecret}]]
        /\ replies' \in [Prompts -> Nat]
    BY <2>1, FinishedKeepsType DEF Words
  <2> QED
    BY <1>1, <1>5, <2>1, <2>2 DEF Reject, AgentType, QueueType, WindowType, AnswerType, RestType
<1> QED
    BY <1>2, <1>3, <1>4, <1>5 DEF QtThread

\* What happens at a window keeps the types.
LEMMA WindowKeepsType ==
    ASSUME TypeInv, NEW p \in Prompts, Holder(p) \/ Tick(p) \/ Deadline(p)
    PROVE  TypeInv'
<1> USE DEF TypeInv
<1> USE DEF agentVars, helperVars, history
<1>1. ASSUME HolderCancels(p) \/ HolderAccepts(p) \/ Deadline(p)
      PROVE  TypeInv'
  <2>1. form[p] \in Forms /\ OkWord(p) \in Words
    BY DEF WindowType, OkWord, Words
  <2>2. \E word \in Words, fd \in Forms \cup {NoSecret} : Finished(p, word, fd)
    BY <1>1, <2>1 DEF HolderCancels, HolderAccepts, Deadline, Words
  <2>3. /\ registry' \in Seq(Prompts)
        /\ window' \in [Prompts -> {"none", "shown", "closed"}]
        /\ reply' \in [Prompts -> [word : Words, fd : Forms \cup {NoSecret}]]
        /\ replies' \in [Prompts -> Nat]
    BY <2>2, FinishedKeepsType
  <2>4. /\ UNCHANGED <<agentVars, helper, bus, gui, form, clock, exits, cancels, dismissed, resetBy>>
        /\ declined' \in {declined, declined \cup {p}}
    BY <1>1 DEF HolderCancels, HolderAccepts, Deadline
  <2> QED
    BY <2>3, <2>4 DEF AgentType, QueueType, WindowType, AnswerType, RestType
<1>2. CASE SwapForm(p)
  <2>1. ask[p].alt \in Nat
    BY PrompterAssumption DEF AgentType
  <2>2. clock[p] \in [budget : Nat, spent : Nat, due : Nat]
    BY DEF WindowType
  <2>3. Rebased(clock[p], ask[p].alt) \in [budget : Nat, spent : Nat, due : Nat]
    <3>1. RebasedRemaining(clock[p].budget, ask[p].alt, clock[p].spent) \in Nat
        BY <2>1, <2>2 DEF RebasedRemaining
    <3> DEFINE left == RebasedRemaining(clock[p].budget, ask[p].alt, clock[p].spent)
    <3>2. CASE clock[p].due = 0 \/ left = 0
        BY <2>2, <3>2 DEF Rebased
    <3>3. CASE ~(clock[p].due = 0 \/ left = 0)
      <4>1. Rebased(clock[p], ask[p].alt)
              = [clock[p] EXCEPT !.budget = ask[p].alt, !.due = clock[p].spent + left]
        BY <3>3 DEF Rebased
      <4> HIDE DEF left
      <4>2. clock[p].spent + left \in Nat
        BY <2>2, <3>1 DEF left
      <4> QED
        BY <2>1, <2>2, <4>1, <4>2
    <3> QED
        BY <3>2, <3>3
  <2>4. WindowType'
    BY <1>2, <2>3 DEF SwapForm, WindowType, Forms
  <2> QED
    BY <1>2, <2>4 DEF SwapForm, AgentType, QueueType, AnswerType, RestType
<1>3. CASE Tick(p)
  <2>1. WindowType'
    <3>1. clock[p] \in [budget : Nat, spent : Nat, due : Nat]
        BY DEF WindowType
    <3>2. [clock[p] EXCEPT !.spent = @ + 1] \in [budget : Nat, spent : Nat, due : Nat]
        BY <3>1
    <3>3. clock' = [clock EXCEPT ![p] = [clock[p] EXCEPT !.spent = @ + 1]]
        BY <1>3 DEF Tick
    <3>4. clock' \in [Prompts -> [budget : Nat, spent : Nat, due : Nat]]
        BY <3>2, <3>3 DEF WindowType
    <3> QED
        BY <1>3, <3>4 DEF Tick, WindowType
  <2> QED
    BY <1>3, <2>1 DEF Tick, AgentType, QueueType, AnswerType, RestType
<1> QED
    BY <1>1, <1>2, <1>3 DEF Holder

\* Every step keeps the types.
LEMMA TypeStep == TypeInv /\ [Next]_vars => TypeInv'
<1> SUFFICES ASSUME TypeInv, [Next]_vars PROVE TypeInv'
    OBVIOUS
<1>1. CASE UNCHANGED vars
    BY <1>1 DEF vars, agentVars, helperVars, history, TypeInv, AgentType, QueueType, WindowType,
                AnswerType, RestType
<1>2. CASE Next
    BY <1>2, WorkerKeepsType, AgentKeepsType, DispatchKeepsType, QtKeepsType, WindowKeepsType
       DEF Next
<1> QED
    BY <1>1, <1>2

-----------------------------------------------------------------------------
(* One token per prompt: it is asked for, raised, shown and answered once. *)

Names(s, what, p) == \E k \in DOMAIN s : s[k].do = what /\ s[k].prompt = p

NamedOnce(s, what) ==
    \A j, k \in DOMAIN s :
        s[j].do = what /\ s[k].do = what /\ s[j].prompt = s[k].prompt => j = k

\* What a queue names after a message is added.
LEMMA NamesAppended ==
    ASSUME NEW S, NEW s \in Seq(S), NEW m \in S, NEW what
    PROVE  /\ \A p : Names(Append(s, m), what, p) <=>
                       (Names(s, what, p) \/ (m.do = what /\ m.prompt = p))
           /\ NamedOnce(s, what) /\ (m.do = what => ~Names(s, what, m.prompt))
                => NamedOnce(Append(s, m), what)
<1> DEFINE t == Append(s, m)
           n == Len(s) + 1
<1>1. /\ DOMAIN t = 1..n /\ n \in Nat /\ DOMAIN s = 1..(n - 1)
      /\ \A k \in DOMAIN s : t[k] = s[k]
      /\ t[n] = m
    BY Appended
<1>2. /\ \A k \in DOMAIN t : k = n \/ k \in DOMAIN s
      /\ \A k \in DOMAIN s : k \in DOMAIN t /\ k # n
      /\ n \in DOMAIN t
    BY <1>1
<1> HIDE DEF t, n
<1>3. \A p : Names(t, what, p) <=> (Names(s, what, p) \/ (m.do = what /\ m.prompt = p))
    BY <1>1, <1>2, Zenon DEF Names
<1>4. ASSUME NamedOnce(s, what), m.do = what => ~Names(s, what, m.prompt)
      PROVE  NamedOnce(t, what)
    BY <1>1, <1>2, <1>4 DEF Names, NamedOnce
<1> QED
    BY <1>3, <1>4 DEF t

\* What a queue names after its first message is taken.
LEMMA NamesTaken ==
    ASSUME NEW S, NEW s \in Seq(S), s # <<>>, NEW what
    PROVE  /\ \A p : Names(s, what, p) <=>
                       (Names(Tail(s), what, p) \/ (Head(s).do = what /\ Head(s).prompt = p))
           /\ NamedOnce(s, what) =>
                /\ NamedOnce(Tail(s), what)
                /\ Head(s).do = what => ~Names(Tail(s), what, Head(s).prompt)
<1> DEFINE t == Tail(s)
<1>1. /\ Head(s) = s[1] /\ 1 \in DOMAIN s
      /\ \A k \in DOMAIN t : k + 1 \in DOMAIN s /\ t[k] = s[k + 1] /\ k + 1 # 1
      /\ \A k \in DOMAIN s : k = 1 \/ (k - 1 \in DOMAIN t /\ t[k - 1] = s[k])
      /\ \A j, k \in DOMAIN t : j + 1 = k + 1 => j = k
    BY Taken
<1> HIDE DEF t
<1>2. \A p : Names(s, what, p) <=>
               (Names(t, what, p) \/ (Head(s).do = what /\ Head(s).prompt = p))
  <2>1. ASSUME NEW p, NEW k \in DOMAIN s, s[k].do = what, s[k].prompt = p
        PROVE  Names(t, what, p) \/ (Head(s).do = what /\ Head(s).prompt = p)
    <3>1. CASE k = 1
        BY <1>1, <2>1, <3>1
    <3>2. CASE k # 1
        BY <1>1, <2>1, <3>2, Zenon DEF Names
    <3> QED
        BY <3>1, <3>2
  <2>2. ASSUME NEW p, NEW k \in DOMAIN t, t[k].do = what, t[k].prompt = p
        PROVE  Names(s, what, p)
    BY <1>1, <2>2, Zenon DEF Names
  <2> QED
    BY <1>1, <2>1, <2>2, Zenon DEF Names
<1>3. ASSUME NamedOnce(s, what)
      PROVE  NamedOnce(t, what)
  <2> SUFFICES ASSUME NEW j \in DOMAIN t, NEW k \in DOMAIN t,
                      t[j].do = what, t[k].do = what, t[j].prompt = t[k].prompt
               PROVE  j = k
    BY DEF NamedOnce
  <2>1. j + 1 \in DOMAIN s /\ k + 1 \in DOMAIN s /\ t[j] = s[j + 1] /\ t[k] = s[k + 1]
    BY <1>1
  <2>2. j + 1 = k + 1
    BY <1>3, <2>1, Zenon DEF NamedOnce
  <2> QED
    BY <1>1, <2>2
<1>4. ASSUME NamedOnce(s, what), Head(s).do = what, Names(t, what, Head(s).prompt)
      PROVE  FALSE
    BY <1>1, <1>4, Zenon DEF NamedOnce, Names
<1> QED
    BY <1>2, <1>3, <1>4 DEF t

\* A queue that loses a prefix names no more than it did.
LEMMA NamesDropped ==
    ASSUME NEW S, NEW s \in Seq(S), NEW d \in 0..Len(s), NEW what
    PROVE  /\ \A p : Names(SubSeq(s, d + 1, Len(s)), what, p) => Names(s, what, p)
           /\ NamedOnce(s, what) => NamedOnce(SubSeq(s, d + 1, Len(s)), what)
<1> DEFINE t == SubSeq(s, d + 1, Len(s))
<1>1. \A k \in DOMAIN t : k + d \in DOMAIN s /\ t[k] = s[k + d]
    BY Dropped
<1>2. \A j, k \in DOMAIN t : j + d = k + d => j = k
    BY Dropped
<1> HIDE DEF t
<1>3. \A p : Names(t, what, p) => Names(s, what, p)
    BY <1>1, Zenon DEF Names
<1>4. ASSUME NamedOnce(s, what)
      PROVE  NamedOnce(t, what)
    BY <1>1, <1>2, <1>4, Zenon DEF NamedOnce
<1> QED
    BY <1>3, <1>4 DEF t

\* The rejects a sweep queues ask for no window, and each names one that stands.
LEMMA NamesSwept ==
    ASSUME AgentType, NEW s, JobsOf(s), NEW r \in Seq(Prompts)
    PROVE  LET t == s \o [k \in DOMAIN r |-> RejectOf(r[k])] IN
           /\ \A p : Names(t, "raise", p) <=> Names(s, "raise", p)
           /\ NamedOnce(s, "raise") => NamedOnce(t, "raise")
           /\ \A p : Names(t, "reject", p) <=> (Names(s, "reject", p) \/ Contains(r, p))
<1> DEFINE t == s \o [k \in DOMAIN r |-> RejectOf(r[k])]
<1>1. /\ \A k \in DOMAIN r : r[k] \in Prompts
      /\ \A k \in DOMAIN s : t[k] = s[k]
      /\ \A k \in DOMAIN t : \/ k \in DOMAIN s
                             \/ k - Len(s) \in DOMAIN r /\ t[k] = RejectOf(r[k - Len(s)])
    BY SweptJobs, LenProperties
<1>2. \A k \in DOMAIN s : k \in DOMAIN t
  <2>1. /\ DOMAIN s = 1..Len(s) /\ DOMAIN t = 1..(Len(s) + Len(r))
        /\ Len(s) \in Nat /\ Len(r) \in Nat
    BY SweptJobs
  <2> HIDE DEF t
  <2> QED
    BY <2>1
<1> HIDE DEF t
<1>3. \A k \in DOMAIN t : t[k].do = "raise" => k \in DOMAIN s /\ t[k] = s[k]
    BY <1>1, MessageTypes
<1>4. \A p : Names(t, "raise", p) <=> Names(s, "raise", p)
    BY <1>1, <1>2, <1>3, Zenon DEF Names
<1>5. ASSUME NamedOnce(s, "raise")
      PROVE  NamedOnce(t, "raise")
    BY <1>3, <1>5, Zenon DEF NamedOnce
<1>6. ASSUME NEW p PROVE Names(t, "reject", p) <=> (Names(s, "reject", p) \/ Contains(r, p))
  <2>1. 1..Len(r) = DOMAIN r
    BY LenProperties
  <2>2. \A k \in DOMAIN r : Len(s) + k \in DOMAIN t /\ t[Len(s) + k] = RejectOf(r[k])
    BY SweptJobs DEF t
  <2>3. \A k \in DOMAIN r : RejectOf(r[k]).do = "reject" /\ RejectOf(r[k]).prompt = r[k]
    BY <1>1, MessageTypes
  <2>4. ASSUME NEW k \in DOMAIN t, t[k].do = "reject", t[k].prompt = p
        PROVE  Names(s, "reject", p) \/ Contains(r, p)
    BY <1>1, <2>1, <2>3, <2>4, Zenon DEF Names, Contains
  <2>5. ASSUME Names(s, "reject", p)
        PROVE  Names(t, "reject", p)
    BY <1>1, <1>2, <2>5, Zenon DEF Names
  <2>6. ASSUME Contains(r, p)
        PROVE  Names(t, "reject", p)
    BY <2>1, <2>2, <2>3, <2>6, Zenon DEF Names, Contains
  <2> QED
    BY <2>4, <2>5, <2>6, Zenon DEF Names
<1> QED
    BY <1>4, <1>5, <1>6 DEF t

\* No two entries of a registry are of one prompt or answer to one id.
Distinct(r, ids) ==
    \A j, k \in DOMAIN r : j # k =>
        /\ r[j] # r[k]
        /\ ids[r[j]] = NoId \/ ids[r[j]] # ids[r[k]]

\* A registry of distinct windows stays one when an entry is taken.
LEMMA DistinctErased ==
    ASSUME NEW ids, NEW r \in Seq(Prompts), Distinct(r, ids), NEW i \in DOMAIN r
    PROVE  /\ Distinct(RemoveAt(r, i), ids)
           /\ \A q : Contains(RemoveAt(r, i), q) <=> (Contains(r, q) /\ q # r[i])
<1> DEFINE t == RemoveAt(r, i)
           At(k) == IF k < i THEN k ELSE k + 1
<1>1. /\ Len(r) \in Nat \ {0} /\ DOMAIN r = 1..Len(r) /\ i \in 1..Len(r)
      /\ DOMAIN t = 1..(Len(r) - 1)
      /\ \A k \in 1..(Len(r) - 1) : t[k] = IF k < i THEN r[k] ELSE r[k + 1]
    BY Erased
<1>2. t \in Seq(Prompts)
    BY Erased
<1> HIDE DEF t
<1>3. \A k \in DOMAIN t : At(k) \in DOMAIN r /\ At(k) # i
    BY <1>1
<1>4. \A k \in DOMAIN t : t[k] = r[At(k)]
    BY <1>1
<1>5. \A j, k \in DOMAIN t : At(j) = At(k) => j = k
    BY <1>1
<1>6. \A k \in DOMAIN r : k # i => \E j \in DOMAIN t : At(j) = k
  <2> SUFFICES ASSUME NEW k \in DOMAIN r, k # i PROVE \E j \in DOMAIN t : At(j) = k
    OBVIOUS
  <2>1. CASE k < i
    <3>1. k \in DOMAIN t /\ At(k) = k
        BY <1>1, <2>1
    <3> QED
        BY <3>1
  <2>2. CASE ~(k < i)
    <3>1. k - 1 \in DOMAIN t /\ At(k - 1) = k
        BY <1>1, <2>2
    <3> QED
        BY <3>1
  <2> QED
    BY <2>1, <2>2
<1> HIDE DEF At
<1>7. Distinct(t, ids)
  <2> SUFFICES ASSUME NEW j \in DOMAIN t, NEW k \in DOMAIN t, j # k
               PROVE  t[j] # t[k] /\ (ids[t[j]] = NoId \/ ids[t[j]] # ids[t[k]])
    BY DEF Distinct
  <2>1. At(j) \in DOMAIN r /\ At(k) \in DOMAIN r /\ At(j) # At(k)
    BY <1>3, <1>5, Zenon
  <2>2. t[j] = r[At(j)] /\ t[k] = r[At(k)]
    BY <1>4, Zenon
  <2> QED
    BY <2>1, <2>2, Zenon DEF Distinct
<1>8. 1..Len(t) = DOMAIN t /\ 1..Len(r) = DOMAIN r
    BY <1>2, LenProperties
<1>9. ASSUME NEW q PROVE Contains(t, q) <=> (Contains(r, q) /\ q # r[i])
  <2>1. ASSUME NEW k \in DOMAIN t, t[k] = q
        PROVE  Contains(r, q) /\ q # r[i]
    BY <1>3, <1>4, <1>8, <2>1, Zenon DEF Contains, Distinct
  <2>2. ASSUME NEW k \in DOMAIN r, r[k] = q, q # r[i]
        PROVE  Contains(t, q)
    BY <1>4, <1>6, <1>8, <2>2, Zenon DEF Contains
  <2> QED
    BY <1>8, <2>1, <2>2, Zenon DEF Contains
<1> QED
    BY <1>7, <1>9 DEF t

\* It stays one when a prompt is added that is not in it and whose id is free.
LEMMA DistinctAdded ==
    ASSUME NEW ids, NEW r \in Seq(Prompts), Distinct(r, ids), NEW p \in Prompts,
           ~Contains(r, p), ids[p] = NoId \/ \A k \in DOMAIN r : ids[r[k]] # ids[p]
    PROVE  /\ Distinct(Append(r, p), ids)
           /\ \A q : Contains(Append(r, p), q) <=> (Contains(r, q) \/ q = p)
<1> DEFINE t == Append(r, p)
           n == Len(r) + 1
<1>1. /\ DOMAIN t = 1..n /\ n \in Nat /\ DOMAIN r = 1..(n - 1)
      /\ \A k \in DOMAIN r : t[k] = r[k]
      /\ t[n] = p
    BY Appended
<1>2. /\ \A k \in DOMAIN t : k = n \/ k \in DOMAIN r
      /\ \A k \in DOMAIN r : k \in DOMAIN t /\ k # n
      /\ n \in DOMAIN t
    BY <1>1
<1>3. 1..Len(t) = DOMAIN t /\ 1..Len(r) = DOMAIN r
    BY Appended, LenProperties
<1> HIDE DEF t, n
<1>4. \A k \in DOMAIN r : r[k] # p
    BY <1>3 DEF Contains
<1>5. Distinct(t, ids)
  <2> SUFFICES ASSUME NEW j \in DOMAIN t, NEW k \in DOMAIN t, j # k
               PROVE  t[j] # t[k] /\ (ids[t[j]] = NoId \/ ids[t[j]] # ids[t[k]])
    BY DEF Distinct
  <2>1. CASE j = n
    BY <1>1, <1>2, <1>4, <2>1
  <2>2. CASE k = n
    BY <1>1, <1>2, <1>4, <2>2
  <2>3. CASE j # n /\ k # n
    BY <1>1, <1>2, <2>3 DEF Distinct
  <2> QED
    BY <2>1, <2>2, <2>3
<1>6. \A q : Contains(t, q) <=> (Contains(r, q) \/ q = p)
    BY <1>1, <1>2, <1>3, Zenon DEF Contains
<1> QED
    BY <1>5, <1>6 DEF t

\* Nothing has been done about p yet.
Calm(p) == window[p] = "none" /\ replies[p] = 0

TokenInv ==
    /\ NamedOnce(bus, "request") /\ NamedOnce(gui, "raise")
    /\ \A p \in Prompts : Names(bus, "request", p) => ~Names(gui, "raise", p)
    /\ \A p \in Prompts : Names(bus, "request", p) \/ Names(gui, "raise", p) =>
         Calm(p) /\ call[p] \notin {"idle", "cleared"}
    /\ \A p \in Prompts : call[p] \in {"idle", "cleared"} => Calm(p)

StandInv ==
    /\ Distinct(registry, id)
    /\ \A p \in Prompts : Shown(p) <=> Contains(registry, p)
    /\ \A p \in Prompts : replies[p] <= IF Shown(p) THEN 0 ELSE 1

\* A window told to reject has been shown.
RejectInv == \A p \in Prompts : Names(gui, "reject", p) => window[p] # "none"

OnceInv == TypeInv /\ TokenInv /\ StandInv /\ RejectInv

\* An answer counts once for its prompt and touches no other.
LEMMA AnswerEffect ==
    ASSUME AnswerType, NEW p \in Prompts, NEW word, NEW fd, Answer(p, word, fd)
    PROVE  /\ replies'[p] = replies[p] + 1
           /\ \A q \in Prompts : q # p => replies'[q] = replies[q] /\ reply'[q] = reply[q]
           /\ \/ reply'[p] = reply[p]
              \/ call[p] = "waiting" /\ reply'[p] = [word |-> word, fd |-> fd]
    BY DEF AnswerType, Answer

Closes(p, word, fd) ==
    /\ window'[p] = "closed"
    /\ Distinct(registry', id)
    /\ \A q \in Prompts : Contains(registry', q) <=> (Contains(registry, q) /\ q # p)
    /\ \A q \in Prompts : q # p => /\ window'[q] = window[q]
                                   /\ replies'[q] = replies[q] /\ reply'[q] = reply[q]
    /\ replies'[p] = IF Shown(p) THEN replies[p] + 1 ELSE replies[p]
    /\ \/ reply'[p] = reply[p]
       \/ call[p] = "waiting" /\ reply'[p] = [word |-> word, fd |-> fd] /\ Shown(p)

\* A window that finishes leaves the registry and is answered if it stood.
LEMMA FinishedEffect ==
    ASSUME TypeInv, StandInv, NEW p \in Prompts, NEW word, NEW fd, Finished(p, word, fd)
    PROVE  Closes(p, word, fd)
<1> USE DEF Closes
<1>1. window'[p] = "closed" /\ \A q \in Prompts : q # p => window'[q] = window[q]
    BY DEF Finished, TypeInv, WindowType
<1>2. /\ Distinct(registry', id)
      /\ \A q \in Prompts : Contains(registry', q) <=> (Contains(registry, q) /\ q # p)
  <2>1. Take(p) /\ registry \in Seq(Prompts) /\ Distinct(registry, id)
    BY DEF Finished, StandInv, TypeInv, WindowType
  <2>2. ASSUME NEW k \in DOMAIN registry, registry[k] = p, registry' = RemoveAt(registry, k)
        PROVE  /\ Distinct(registry', id)
               /\ \A q \in Prompts : Contains(registry', q) <=> (Contains(registry, q) /\ q # p)
    BY <2>1, <2>2, DistinctErased
  <2>3. ASSUME ~Contains(registry, p), UNCHANGED registry
        PROVE  /\ Distinct(registry', id)
               /\ \A q \in Prompts : Contains(registry', q) <=> (Contains(registry, q) /\ q # p)
    BY <2>1, <2>3, Zenon
  <2> QED
    BY <2>1, <2>2, <2>3 DEF Take
<1>3. CASE Shown(p)
  <2>1. Answer(p, word, fd)
    BY <1>3 DEF Finished, StandInv
  <2> QED
    BY <1>1, <1>2, <1>3, <2>1, AnswerEffect DEF TypeInv
<1>4. CASE ~Shown(p)
  <2>1. UNCHANGED <<reply, replies>>
    BY <1>4 DEF Finished, StandInv
  <2> QED
    BY <1>1, <1>2, <1>4, <2>1
<1> QED
    BY <1>3, <1>4

\* At first nothing is queued, standing or answered.
LEMMA OnceInit == Init => OnceInv
<1> SUFFICES ASSUME Init PROVE OnceInv
    OBVIOUS
<1>1. TypeInv
    BY TypeInit
<1>2. TokenInv
    BY DEF Init, TokenInv, Names, NamedOnce, Calm
<1>3. StandInv
    BY DEF Init, StandInv, Distinct, Shown, Contains
<1>4. RejectInv
    BY DEF Init, RejectInv, Names
<1> QED
    BY <1>1, <1>2, <1>3, <1>4 DEF OnceInv

\* The agent's side never asks for a prompt again.
LEMMA WorkerKeepsOnce ==
    ASSUME OnceInv, NEW p \in Prompts, Worker(p) \/ OperationCancelled(p)
    PROVE  TokenInv' /\ StandInv'
<1> USE DEF agentVars, helperVars, history
<1>0. bus \in Seq(Calls) /\ AgentType
    BY DEF OnceInv, TypeInv, QueueType, CallsOf
<1>1. ASSUME NEW i \in Ids \cup {NoId}, Ask(p, i)
      PROVE  TokenInv' /\ StandInv'
  <2>1. call[p] = "idle" /\ id' = [id EXCEPT ![p] = i]
        /\ UNCHANGED <<bus, gui, window, replies, registry>>
        /\ \A q \in Prompts : q # p => call'[q] = call[q]
    BY <1>0, <1>1 DEF Ask, AgentType
  <2>2. Calm(p) /\ ~Shown(p) /\ ~Contains(registry, p)
    BY <2>1 DEF OnceInv, TokenInv, StandInv, Calm, Shown
  <2>3. Distinct(registry, id')
    <3>1. \A k \in DOMAIN registry : registry[k] \in Prompts /\ registry[k] # p
        BY <2>2, LenProperties DEF Contains, OnceInv, TypeInv, WindowType
    <3>2. \A k \in DOMAIN registry : id'[registry[k]] = id[registry[k]]
        BY <1>0, <2>1, <3>1 DEF AgentType
    <3> QED
        BY <3>2 DEF Distinct, OnceInv, StandInv
  <2>4. StandInv'
    BY <2>1, <2>3 DEF OnceInv, StandInv, Shown
  <2>5. ~Names(bus, "request", p) /\ ~Names(gui, "raise", p)
    BY <2>1 DEF OnceInv, TokenInv
  <2>6. TokenInv'
    <3>1. \A q \in Prompts : Calm(q)' <=> Calm(q)
        BY <2>1 DEF Calm
    <3>2. \A q \in Prompts : Names(bus, "request", q) \/ Names(gui, "raise", q)
                             => call'[q] \notin {"idle", "cleared"}
        BY <2>1, <2>5 DEF OnceInv, TokenInv
    <3>3. \A q \in Prompts : call'[q] \in {"idle", "cleared"} => Calm(q)
        BY <2>1, <2>2 DEF OnceInv, TokenInv
    <3> QED
        BY <2>1, <3>1, <3>2, <3>3 DEF OnceInv, TokenInv
  <2> QED
    BY <2>4, <2>6
<1>2. CASE Send(p)
  <2>1. /\ call[p] = "cleared" /\ call' = [call EXCEPT ![p] = "waiting"]
        /\ bus' = Append(bus, Request(p)) /\ UNCHANGED <<gui, window, replies, registry, id>>
    BY <1>2 DEF Send
  <2>2. Calm(p) /\ ~Names(bus, "request", p) /\ ~Names(gui, "raise", p)
    BY <2>1 DEF OnceInv, TokenInv
  <2>3. NamedOnce(bus', "request") /\ \A q : Names(bus', "request", q) <=> (Names(bus, "request", q) \/ q = p)
    BY <1>0, <2>1, <2>2, MessageTypes, NamesAppended DEF OnceInv, TokenInv
  <2>4. TokenInv'
    <3>1. \A q \in Prompts : Calm(q)' <=> Calm(q)
        BY <2>1 DEF Calm
    <3>2. call'[p] = "waiting" /\ \A q \in Prompts : q # p => call'[q] = call[q]
        BY <1>0, <2>1 DEF AgentType
    <3> QED
        BY <2>1, <2>2, <2>3, <3>1, <3>2 DEF OnceInv, TokenInv
  <2>5. StandInv'
    BY <2>1 DEF OnceInv, StandInv, Shown
  <2> QED
    BY <2>4, <2>5
<1>3. ASSUME CallFails(p) \/ Receive(p) \/ OperationCancelled(p)
      PROVE  TokenInv' /\ StandInv'
  <2>1. /\ \A q \in Prompts : call[q] \notin {"idle", "cleared"} => call'[q] \notin {"idle", "cleared"}
        /\ \A q \in Prompts : call'[q] \in {"idle", "cleared"} => call[q] \in {"idle", "cleared"}
        /\ bus' \in {bus, Append(bus, CancelOf(p))}
        /\ UNCHANGED <<gui, window, replies, registry, id>>
    BY <1>0, <1>3 DEF CallFails, Receive, OperationCancelled, AgentType
  <2>2. NamedOnce(bus', "request") /\ \A q : Names(bus', "request", q) <=> Names(bus, "request", q)
    <3>1. /\ NamedOnce(Append(bus, CancelOf(p)), "request")
          /\ \A q : Names(Append(bus, CancelOf(p)), "request", q) <=> Names(bus, "request", q)
        BY <1>0, MessageTypes, NamesAppended DEF OnceInv, TokenInv
    <3> QED
        BY <2>1, <3>1 DEF OnceInv, TokenInv
  <2>3. TokenInv'
    BY <2>1, <2>2 DEF OnceInv, TokenInv, Calm
  <2>4. StandInv'
    BY <2>1 DEF OnceInv, StandInv, Shown
  <2> QED
    BY <2>3, <2>4
<1> QED
    BY <1>1, <1>2, <1>3 DEF Worker

\* Neither a crash nor a restart of either side brings a prompt back.
LEMMA AgentKeepsOnce ==
    ASSUME OnceInv, AgentCrash \/ AgentStart \/ HelperExit
    PROVE  TokenInv' /\ StandInv'
<1> USE DEF agentVars, helperVars, history
<1>0. bus \in Seq(Calls) /\ AgentType
    BY DEF OnceInv, TypeInv, QueueType, CallsOf
<1>1. ASSUME AgentCrash \/ AgentStart
      PROVE  TokenInv' /\ StandInv'
  <2>1. /\ \A q \in Prompts : call[q] \notin {"idle", "cleared"} => call'[q] \notin {"idle", "cleared"}
        /\ \A q \in Prompts : call'[q] \in {"idle", "cleared"} => call[q] \in {"idle", "cleared"}
        /\ UNCHANGED <<gui, window, replies, registry, id>>
    BY <1>0, <1>1 DEF AgentCrash, AgentStart, AgentType
  <2>2. NamedOnce(bus', "request") /\ \A q : Names(bus', "request", q) <=> Names(bus, "request", q)
    <3>1. CASE UNCHANGED bus
        BY <3>1 DEF OnceInv, TokenInv
    <3>2. CASE ~UNCHANGED bus
      <4>1. AgentStart /\ bus' = Append(bus, ResetBy(agent + 1))
        BY <1>1, <3>2 DEF AgentCrash, AgentStart
      <4>2. agent + 1 \in Pids
        BY <4>1, PrompterAssumption DEF AgentStart, Pids, OnceInv, TypeInv, AgentType
      <4> QED
        BY <1>0, <4>1, <4>2, ResetType, NamesAppended DEF OnceInv, TokenInv
    <3> QED
        BY <3>1, <3>2
  <2>3. TokenInv'
    BY <2>1, <2>2 DEF OnceInv, TokenInv, Calm
  <2>4. StandInv'
    BY <2>1 DEF OnceInv, StandInv, Shown
  <2> QED
    BY <2>3, <2>4
<1>2. CASE HelperExit
  <2>1. /\ gui' = <<>> /\ registry' = <<>> /\ UNCHANGED <<call, replies, id>>
        /\ window' = [q \in Prompts |-> IF Shown(q) THEN "closed" ELSE window[q]]
    BY <1>2 DEF HelperExit
  <2>2. PICK d \in 0..Len(bus) : bus' = SubSeq(bus, d + 1, Len(bus))
    BY <1>2 DEF HelperExit
  <2>3. NamedOnce(bus', "request") /\ \A q : Names(bus', "request", q) => Names(bus, "request", q)
    BY <1>0, <2>2, NamesDropped DEF OnceInv, TokenInv
  <2>4. NamedOnce(gui', "raise") /\ \A q : ~Names(gui', "raise", q)
    BY <2>1 DEF NamedOnce, Names
  <2>5. TokenInv'
    <3>1. \A q \in Prompts : Calm(q) => Calm(q)'
        BY <2>1 DEF Calm, Shown
    <3> QED
        BY <2>1, <2>3, <2>4, <3>1 DEF OnceInv, TokenInv
  <2>6. StandInv'
    <3>1. Distinct(registry', id') /\ \A q \in Prompts : ~Contains(registry', q)
        BY <2>1 DEF Distinct, Contains
    <3>2. \A q \in Prompts : window'[q] # "shown"
        BY <2>1 DEF Shown
    <3>3. \A q \in Prompts : replies'[q] <= 1
        BY <2>1 DEF OnceInv, TypeInv, AnswerType, StandInv
    <3> QED
        BY <3>1, <3>2, <3>3 DEF StandInv, Shown
  <2> QED
    BY <2>5, <2>6
<1> QED
    BY <1>1, <1>2

\* The bus thread turns a request into one job or into one answer.
LEMMA DispatchKeepsOnce ==
    ASSUME OnceInv, Dispatch
    PROVE  TokenInv' /\ StandInv'
<1> USE DEF agentVars, helperVars, history
<1> DEFINE m == Head(bus)
<1>0. bus # <<>> /\ bus' = Tail(bus) /\ bus \in Seq(Calls) /\ gui \in Seq(Jobs)
    BY DEF Dispatch, DispatchRequest, DispatchCancel, DispatchReset, NextCall,
           OnceInv, TypeInv, QueueType, CallsOf, JobsOf
<1>1. /\ m \in Calls /\ (m.do = "request" => m.prompt \in Prompts)
      /\ \A q : Names(bus, "request", q) <=>
                  (Names(bus', "request", q) \/ (m.do = "request" /\ m.prompt = q))
      /\ NamedOnce(bus', "request") /\ (m.do = "request" => ~Names(bus', "request", m.prompt))
    BY <1>0, CallsKept, NamesTaken DEF OnceInv, TokenInv, TypeInv, QueueType
<1>2. UNCHANGED <<call, id, registry, window>>
    BY DEF Dispatch, DispatchRequest, DispatchCancel, DispatchReset
<1>3. CASE DispatchRequest
  <2>1. m.do = "request" /\ m.prompt \in Prompts
    BY <1>1, <1>3 DEF DispatchRequest, NextCall
  <2>2. \/ gui' = Append(gui, [m EXCEPT !.do = "raise"]) /\ UNCHANGED <<reply, replies>>
        \/ UNCHANGED gui /\ \E word \in {"error", "unauthorized"} : Answer(m.prompt, word, NoSecret)
    BY <1>3 DEF DispatchRequest
  <2> HIDE DEF m
  <2>3. /\ Calm(m.prompt) /\ call[m.prompt] \notin {"idle", "cleared"}
        /\ ~Names(gui, "raise", m.prompt)
    BY <1>1, <2>1 DEF OnceInv, TokenInv
  <2>4. ASSUME gui' = Append(gui, [m EXCEPT !.do = "raise"]), UNCHANGED <<reply, replies>>
        PROVE  TokenInv' /\ StandInv'
    <3>1. /\ \A q : Names(gui', "raise", q) <=> (Names(gui, "raise", q) \/ q = m.prompt)
          /\ NamedOnce(gui', "raise")
      <4> DEFINE j == [m EXCEPT !.do = "raise"]
      <4>1. j \in Jobs /\ j.do = "raise" /\ j.prompt = m.prompt
        BY <1>1, PostedType
      <4> HIDE DEF j
      <4>2. gui' = Append(gui, j)
        BY <2>4 DEF j
      <4> QED
        BY <1>0, <2>3, <4>1, <4>2, NamesAppended DEF OnceInv, TokenInv
    <3>2. \A q \in Prompts : Calm(q)' <=> Calm(q)
        BY <1>2, <2>4 DEF Calm
    <3>3. TokenInv'
        BY <1>1, <1>2, <2>1, <2>3, <3>1, <3>2 DEF OnceInv, TokenInv
    <3>4. StandInv'
        BY <1>2, <2>4 DEF OnceInv, StandInv, Shown
    <3> QED
        BY <3>3, <3>4
  <2>5. ASSUME UNCHANGED gui, NEW word \in {"error", "unauthorized"}, Answer(m.prompt, word, NoSecret)
        PROVE  TokenInv' /\ StandInv'
    <3>1. /\ replies'[m.prompt] = 1
          /\ \A q \in Prompts : q # m.prompt => replies'[q] = replies[q]
      <4>1. AnswerType /\ replies[m.prompt] = 0
        BY <2>3 DEF Calm, OnceInv, TypeInv
      <4>2. /\ replies'[m.prompt] = replies[m.prompt] + 1
            /\ \A q \in Prompts : q # m.prompt => replies'[q] = replies[q]
        BY <2>1, <2>5, <4>1, AnswerEffect, Zenon
      <4> QED
        BY <4>1, <4>2
    <3>2. \A q \in Prompts : q # m.prompt => (Calm(q)' <=> Calm(q))
        BY <1>2, <3>1 DEF Calm
    <3>3. TokenInv'
        BY <1>1, <1>2, <2>1, <2>3, <2>5, <3>2 DEF OnceInv, TokenInv
    <3>4. StandInv'
        BY <1>2, <2>3, <3>1 DEF OnceInv, StandInv, Shown, Calm
    <3> QED
        BY <3>3, <3>4
  <2> QED
    BY <2>2, <2>4, <2>5
<1>4. ASSUME DispatchCancel \/ DispatchReset
      PROVE  TokenInv' /\ StandInv'
  <2>1. /\ m.do # "request" /\ UNCHANGED replies
        /\ gui' = gui \/ \E what \in {"dismiss", "sweep"} : gui' = Append(gui, [m EXCEPT !.do = what])
    BY <1>4 DEF DispatchCancel, DispatchReset, NextCall
  <2> HIDE DEF m
  <2>2. /\ \A q : Names(gui', "raise", q) <=> Names(gui, "raise", q)
        /\ NamedOnce(gui', "raise")
    <3>1. ASSUME NEW what \in {"dismiss", "sweep"}
          PROVE  /\ \A q : Names(Append(gui, [m EXCEPT !.do = what]), "raise", q) <=> Names(gui, "raise", q)
                 /\ NamedOnce(Append(gui, [m EXCEPT !.do = what]), "raise")
      <4> DEFINE j == [m EXCEPT !.do = what]
      <4>1. j \in Jobs /\ j.do # "raise"
        BY <1>1, PostedType
      <4> HIDE DEF j
      <4>2. /\ \A q : Names(Append(gui, j), "raise", q) <=> Names(gui, "raise", q)
            /\ NamedOnce(Append(gui, j), "raise")
        BY <1>0, <4>1, NamesAppended DEF OnceInv, TokenInv
      <4> QED
        BY <4>2 DEF j
    <3> QED
        BY <2>1, <3>1 DEF OnceInv, TokenInv
  <2>3. \A q \in Prompts : Calm(q)' <=> Calm(q)
    BY <1>2, <2>1 DEF Calm
  <2>4. TokenInv'
    BY <1>1, <1>2, <2>1, <2>2, <2>3 DEF OnceInv, TokenInv
  <2>5. StandInv'
    BY <1>2, <2>1 DEF OnceInv, StandInv, Shown
  <2> QED
    BY <2>4, <2>5
<1> QED
    BY <1>3, <1>4 DEF Dispatch

\* A window that finishes is answered for the first time or not at all.
LEMMA FinishedKeepsOnce ==
    ASSUME OnceInv, NEW p \in Prompts, NEW word, NEW fd, Finished(p, word, fd),
           Shown(p) \/ ~Calm(p), UNCHANGED <<bus, call, id>>,
           NamedOnce(gui', "raise"), \A q : Names(gui', "raise", q) => Names(gui, "raise", q)
    PROVE  TokenInv' /\ StandInv'
<1>1. /\ window'[p] = "closed"
      /\ Distinct(registry', id)
      /\ \A q \in Prompts : Contains(registry', q) <=> (Contains(registry, q) /\ q # p)
      /\ \A q \in Prompts : q # p => window'[q] = window[q] /\ replies'[q] = replies[q]
      /\ replies'[p] = IF Shown(p) THEN replies[p] + 1 ELSE replies[p]
  <2>1. TypeInv /\ StandInv
    BY DEF OnceInv
  <2>2. Closes(p, word, fd)
    BY <2>1, FinishedEffect
  <2> QED
    BY <2>2 DEF Closes
<1>2. ~Calm(p)
    BY DEF Calm, Shown
<1>3. \A q \in Prompts : q # p => (Calm(q)' <=> Calm(q))
    BY <1>1 DEF Calm
<1>4. TokenInv'
    BY <1>2, <1>3 DEF OnceInv, TokenInv
<1>5. StandInv'
  <2>1. \A q \in Prompts : Shown(q)' <=> (Shown(q) /\ q # p)
    BY <1>1 DEF Shown
  <2>2. replies[p] \in Nat /\ replies[p] <= 1 /\ (Shown(p) => replies[p] = 0)
    BY DEF OnceInv, StandInv, TypeInv, AnswerType
  <2>3. replies'[p] <= 1
    BY <1>1, <2>2
  <2> QED
    BY <1>1, <2>1, <2>3 DEF OnceInv, StandInv
<1> QED
    BY <1>4, <1>5

\* The Qt thread raises, dismisses and rejects every window once.
LEMMA QtKeepsOnce ==
    ASSUME OnceInv, QtThread
    PROVE  TokenInv' /\ StandInv'
<1> USE DEF agentVars, helperVars, history
<1> DEFINE m == Head(gui)
<1>0. /\ gui # <<>> /\ gui \in Seq(Jobs) /\ JobsOf(gui) /\ AgentType /\ registry \in Seq(Prompts)
      /\ UNCHANGED <<bus, call, id>>
    BY DEF QtThread, Raise, Dismiss, Sweep, Reject, RunJob, OnceInv, TypeInv, QueueType, JobsOf,
           WindowType
<1>1. /\ JobsOf(Tail(gui)) /\ Tail(gui) \in Seq(Jobs) /\ m \in Jobs
      /\ m.do \in {"raise", "reject"} => m.prompt \in Prompts
      /\ \A q : Names(gui, "raise", q) <=>
                  (Names(Tail(gui), "raise", q) \/ (m.do = "raise" /\ m.prompt = q))
      /\ NamedOnce(Tail(gui), "raise") /\ (m.do = "raise" => ~Names(Tail(gui), "raise", m.prompt))
      /\ m.do = "reject" => Names(gui, "reject", m.prompt)
    BY <1>0, JobsKept, NamesTaken DEF OnceInv, TokenInv, JobsOf
<1>2. CASE Raise
  <2> DEFINE p == m.prompt
  <2>1. p \in Prompts /\ gui' = Tail(gui) /\ m.do = "raise"
    BY <1>1, <1>2 DEF Raise, RunJob
  <2>2. \/ /\ CanAdd(p)
           /\ registry' = Append(registry, p)
           /\ window' = [window EXCEPT ![p] = "shown"]
           /\ UNCHANGED <<reply, replies>>
        \/ /\ Answer(p, "error", NoSecret)
           /\ UNCHANGED <<registry, window>>
    BY <1>2 DEF Raise
  <2> HIDE DEF p, m
  <2>3. Calm(p) /\ call[p] \notin {"idle", "cleared"} /\ ~Names(bus, "request", p)
    BY <1>1, <2>1 DEF OnceInv, TokenInv, p
  <2>4. \A q \in Prompts : Names(gui', "raise", q) <=> (Names(gui, "raise", q) /\ q # p)
    BY <1>1, <2>1 DEF p
  <2>5. ASSUME CanAdd(p), registry' = Append(registry, p),
               window' = [window EXCEPT ![p] = "shown"], UNCHANGED <<reply, replies>>
        PROVE  TokenInv' /\ StandInv'
    <3>1. window'[p] = "shown" /\ \A q \in Prompts : q # p => window'[q] = window[q]
        BY <2>1, <2>5 DEF OnceInv, TypeInv, WindowType
    <3>2. \A q \in Prompts : q # p => (Calm(q)' <=> Calm(q))
        BY <2>5, <3>1 DEF Calm
    <3>3. TokenInv'
        BY <1>0, <1>1, <2>1, <2>3, <2>4, <3>2 DEF OnceInv, TokenInv
    <3>4. ~Contains(registry, p) /\ Distinct(registry, id)
        BY <2>1, <2>3 DEF OnceInv, StandInv, Calm, Shown
    <3>5. id[p] = NoId \/ \A k \in DOMAIN registry : id[registry[k]] # id[p]
        BY <2>5 DEF CanAdd, Entries
    <3>6. /\ Distinct(registry', id)
          /\ \A q : Contains(registry', q) <=> (Contains(registry, q) \/ q = p)
        BY <1>0, <2>1, <2>5, <3>4, <3>5, DistinctAdded
    <3>7. StandInv'
        BY <1>0, <2>1, <2>3, <2>5, <3>1, <3>6 DEF OnceInv, StandInv, Shown, Calm
    <3> QED
        BY <3>3, <3>7
  <2>6. ASSUME Answer(p, "error", NoSecret), UNCHANGED <<registry, window>>
        PROVE  TokenInv' /\ StandInv'
    <3>1. /\ replies'[p] = 1
          /\ \A q \in Prompts : q # p => replies'[q] = replies[q]
      <4>1. AnswerType /\ replies[p] = 0
        BY <2>3 DEF Calm, OnceInv, TypeInv
      <4>2. /\ replies'[p] = replies[p] + 1
            /\ \A q \in Prompts : q # p => replies'[q] = replies[q]
        BY <2>1, <2>6, <4>1, AnswerEffect, Zenon
      <4> QED
        BY <4>1, <4>2
    <3>2. \A q \in Prompts : q # p => (Calm(q)' <=> Calm(q))
        BY <2>6, <3>1 DEF Calm
    <3>3. TokenInv'
        BY <1>0, <1>1, <2>1, <2>3, <2>4, <3>2 DEF OnceInv, TokenInv
    <3>4. StandInv'
        BY <1>0, <2>1, <2>3, <2>6, <3>1 DEF OnceInv, StandInv, Shown, Calm
    <3> QED
        BY <3>3, <3>4
  <2> QED
    BY <2>2, <2>5, <2>6
<1>3. ASSUME Dismiss \/ Sweep
      PROVE  TokenInv' /\ StandInv'
  <2>1. UNCHANGED <<window, replies, registry>> /\ m.do # "raise"
    BY <1>3 DEF Dismiss, Sweep, RunJob
  <2>2. /\ \A q \in Prompts : Names(gui', "raise", q) <=> Names(gui, "raise", q)
        /\ NamedOnce(gui', "raise")
    <3>1. CASE gui' = Tail(gui)
        BY <1>1, <2>1, <3>1
    <3>2. ASSUME NEW k \in DOMAIN registry, gui' = Append(Tail(gui), RejectOf(registry[k]))
          PROVE  /\ \A q \in Prompts : Names(gui', "raise", q) <=> Names(gui, "raise", q)
                 /\ NamedOnce(gui', "raise")
      <4>1. registry[k] \in Prompts
        BY <1>0, LenProperties
      <4>2. RejectOf(registry[k]) \in Jobs /\ RejectOf(registry[k]).do # "raise"
        BY <1>0, <4>1, MessageTypes
      <4> QED
        BY <1>1, <2>1, <3>2, <4>2, NamesAppended
    <3>3. CASE Sweep
      <4>1. gui' = Tail(gui) \o [k \in DOMAIN registry |-> RejectOf(registry[k])]
        BY <3>3 DEF Sweep, Swept
      <4> QED
        BY <1>0, <1>1, <2>1, <4>1, NamesSwept
    <3> QED
        BY <1>3, <3>1, <3>2, <3>3 DEF Dismiss, Entries
  <2>3. \A q \in Prompts : Calm(q)' <=> Calm(q)
    BY <2>1 DEF Calm
  <2>4. TokenInv'
    BY <1>0, <2>2, <2>3 DEF OnceInv, TokenInv
  <2>5. StandInv'
    BY <1>0, <2>1 DEF OnceInv, StandInv, Shown
  <2> QED
    BY <2>4, <2>5
<1>4. CASE Reject
  <2>1. m.prompt \in Prompts /\ Finished(m.prompt, "cancelled", NoSecret) /\ gui' = Tail(gui)
        /\ m.do = "reject"
    BY <1>1, <1>4 DEF Reject, RunJob
  <2> HIDE DEF m
  <2>2. ~Calm(m.prompt)
    BY <1>1, <2>1 DEF OnceInv, RejectInv, Calm
  <2>3. \A q : Names(gui', "raise", q) => Names(gui, "raise", q)
    BY <1>1, <2>1
  <2> QED
    BY <1>0, <1>1, <2>1, <2>2, <2>3, FinishedKeepsOnce
<1> QED
    BY <1>2, <1>3, <1>4 DEF QtThread

\* Whatever ends a window, it is answered once.
LEMMA WindowKeepsOnce ==
    ASSUME OnceInv, NEW p \in Prompts, Holder(p) \/ Tick(p) \/ Deadline(p)
    PROVE  TokenInv' /\ StandInv'
<1> USE DEF agentVars, helperVars, history
<1>1. ASSUME HolderCancels(p) \/ HolderAccepts(p) \/ Deadline(p)
      PROVE  TokenInv' /\ StandInv'
  <2>1. /\ Shown(p) /\ UNCHANGED <<bus, gui, call, id>>
        /\ \E word, fd : Finished(p, word, fd)
    BY <1>1 DEF HolderCancels, HolderAccepts, Deadline
  <2>2. NamedOnce(gui', "raise") /\ \A q : Names(gui', "raise", q) => Names(gui, "raise", q)
    BY <2>1 DEF OnceInv, TokenInv
  <2> QED
    BY <2>1, <2>2, FinishedKeepsOnce
<1>2. ASSUME SwapForm(p) \/ Tick(p)
      PROVE  TokenInv' /\ StandInv'
  <2>1. UNCHANGED <<bus, gui, call, id, window, replies, registry>>
    BY <1>2 DEF SwapForm, Tick
  <2> QED
    BY <2>1 DEF OnceInv, TokenInv, StandInv, Calm, Shown
<1> QED
    BY <1>1, <1>2 DEF Holder

\* A window that was shown does not become one that was not.
LEMMA WindowsStay ==
    ASSUME TypeInv, [Next]_vars, NEW q \in Prompts, window[q] # "none"
    PROVE  window'[q] # "none"
<1> USE DEF agentVars, helperVars, history
<1>1. ASSUME NEW p \in Prompts, Worker(p) \/ OperationCancelled(p) \/ SwapForm(p) \/ Tick(p)
      PROVE  UNCHANGED window
    BY <1>1 DEF Worker, Ask, Send, CallFails, Receive, OperationCancelled, SwapForm, Tick
<1>2. ASSUME AgentCrash \/ AgentStart \/ Dispatch \/ Dismiss \/ Sweep
      PROVE  UNCHANGED window
    BY <1>2 DEF AgentCrash, AgentStart, Dispatch, DispatchRequest, DispatchCancel, DispatchReset,
                Dismiss, Sweep
<1>3. CASE HelperExit
    BY <1>3 DEF HelperExit, TypeInv, WindowType
<1>4. ASSUME NEW p, NEW word, NEW fd, Finished(p, word, fd)
      PROVE  window'[q] # "none"
    BY <1>4 DEF Finished, TypeInv, WindowType
<1>5. CASE Raise
    BY <1>5 DEF Raise, TypeInv, WindowType
<1>6. CASE UNCHANGED vars
    BY <1>6 DEF vars
<1> QED
    BY <1>1, <1>2, <1>3, <1>4, <1>5, <1>6
       DEF Next, Holder, HolderCancels, HolderAccepts, Deadline, QtThread, Reject

\* Only a standing window is told to reject: by its own dismissal, or by a sweep.
ToldBy(q) ==
    /\ Shown(q) /\ gui # <<>>
    /\ \/ /\ Head(gui).do = "dismiss" /\ Head(gui).id # NoId
          /\ Head(gui).id = id[q] /\ Head(gui).by = owner[q]
       \/ Head(gui).do = "sweep"

\* A queued reject was queued before or its window is told to reject by this step.
LEMMA RejectsQueued ==
    ASSUME OnceInv, [Next]_vars, NEW q \in Prompts, Names(gui', "reject", q)
    PROVE  Names(gui, "reject", q) \/ ToldBy(q)
<1> USE DEF agentVars, helperVars, history
<1>0. /\ bus \in Seq(Calls) /\ gui \in Seq(Jobs) /\ JobsOf(gui) /\ AgentType
      /\ registry \in Seq(Prompts)
    BY DEF OnceInv, TypeInv, QueueType, CallsOf, JobsOf, WindowType
<1>1. CASE UNCHANGED gui
    BY <1>1
<1>2. CASE Dispatch
  <2> DEFINE m == Head(bus)
  <2>1. /\ bus # <<>>
        /\ gui' = gui \/ \E what \in {"raise", "dismiss", "sweep"} :
                           gui' = Append(gui, [m EXCEPT !.do = what])
    BY <1>2 DEF Dispatch, DispatchRequest, DispatchCancel, DispatchReset, NextCall
  <2>2. m \in Calls
    BY <2>1, CallsKept DEF OnceInv, TypeInv, QueueType
  <2> HIDE DEF m
  <2>3. ASSUME NEW what \in {"raise", "dismiss", "sweep"}, gui' = Append(gui, [m EXCEPT !.do = what])
        PROVE  Names(gui, "reject", q)
    <3> DEFINE j == [m EXCEPT !.do = what]
    <3>1. j \in Jobs /\ j.do # "reject"
        BY <2>2, PostedType
    <3> HIDE DEF j
    <3>2. gui' = Append(gui, j)
        BY <2>3 DEF j
    <3> QED
        BY <1>0, <3>1, <3>2, NamesAppended
  <2> QED
    BY <1>1, <2>1, <2>3
<1>3. ASSUME gui # <<>>, gui' = Tail(gui)
      PROVE  Names(gui, "reject", q)
    BY <1>0, <1>3, NamesTaken
<1>4. CASE Dismiss
  <2>1. gui # <<>> /\ Head(gui).do = "dismiss"
    BY <1>4 DEF Dismiss, RunJob
  <2>2. ASSUME NEW k \in Entries(Head(gui).id), owner[registry[k]] = Head(gui).by,
               gui' = Append(Tail(gui), RejectOf(registry[k]))
        PROVE  Names(gui, "reject", q) \/ ToldBy(q)
    <3>1. registry[k] \in Prompts /\ Contains(registry, registry[k])
        BY <1>0, LenProperties DEF Contains, Entries
    <3>2. RejectOf(registry[k]) \in Jobs /\ RejectOf(registry[k]).prompt = registry[k]
        BY <1>0, <3>1, MessageTypes
    <3>3. Tail(gui) \in Seq(Jobs)
        BY <1>0, <2>1, Taken
    <3>4. Names(Tail(gui), "reject", q) \/ q = registry[k]
        BY <2>2, <3>2, <3>3, NamesAppended
    <3>5. Names(Tail(gui), "reject", q) => Names(gui, "reject", q)
        BY <1>0, <2>1, NamesTaken
    <3>6. q = registry[k] => ToldBy(q)
        BY <2>1, <2>2, <3>1 DEF OnceInv, StandInv, ToldBy, Entries
    <3> QED
        BY <3>4, <3>5, <3>6
  <2>3. \/ gui' = Tail(gui)
        \/ \E k \in Entries(Head(gui).id) :
             owner[registry[k]] = Head(gui).by /\ gui' = Append(Tail(gui), RejectOf(registry[k]))
    BY <1>4 DEF Dismiss
  <2> QED
    BY <1>3, <2>1, <2>2, <2>3
<1>5. CASE Sweep
  <2>1. gui # <<>> /\ gui' = Tail(gui) \o [k \in DOMAIN registry |-> RejectOf(registry[k])]
        /\ Head(gui).do = "sweep"
    BY <1>5 DEF Sweep, Swept, RunJob
  <2>2. JobsOf(Tail(gui))
    BY <1>0, <2>1, JobsKept
  <2>3. Names(Tail(gui), "reject", q) \/ Contains(registry, q)
    BY <1>0, <2>1, <2>2, NamesSwept
  <2>4. Names(Tail(gui), "reject", q) => Names(gui, "reject", q)
    BY <1>0, <2>1, NamesTaken
  <2> QED
    BY <2>1, <2>3, <2>4 DEF OnceInv, StandInv, ToldBy
<1>6. CASE Raise \/ Reject
    BY <1>3, <1>6 DEF Raise, Reject, RunJob
<1>7. CASE HelperExit
    BY <1>7 DEF HelperExit, Names
<1>8. ASSUME NEW p \in Prompts,
             Worker(p) \/ OperationCancelled(p) \/ Holder(p) \/ Tick(p) \/ Deadline(p)
      PROVE  UNCHANGED gui
    BY <1>8 DEF Worker, Ask, Send, CallFails, Receive, OperationCancelled, Holder, HolderCancels,
                HolderAccepts, SwapForm, Tick, Deadline
<1>9. ASSUME AgentCrash \/ AgentStart \/ UNCHANGED vars
      PROVE  UNCHANGED gui
    BY <1>9 DEF AgentCrash, AgentStart, vars
<1> QED
    BY <1>1, <1>2, <1>4, <1>5, <1>6, <1>7, <1>8, <1>9 DEF Next, QtThread

\* Every step keeps a prompt in one place and its answers to one.
LEMMA OnceStep == OnceInv /\ [Next]_vars => OnceInv'
<1> SUFFICES ASSUME OnceInv, [Next]_vars PROVE OnceInv'
    OBVIOUS
<1>1. TypeInv'
    BY TypeStep DEF OnceInv
<1>2. TokenInv' /\ StandInv'
  <2>1. CASE UNCHANGED vars
    BY <2>1 DEF vars, agentVars, helperVars, history, OnceInv, TokenInv, StandInv, Calm, Shown
  <2>2. CASE Next
    BY <2>2, WorkerKeepsOnce, AgentKeepsOnce, DispatchKeepsOnce, QtKeepsOnce, WindowKeepsOnce
       DEF Next
  <2> QED
    BY <2>1, <2>2
<1>3. RejectInv'
  <2> SUFFICES ASSUME NEW q \in Prompts, Names(gui', "reject", q)
               PROVE  window'[q] # "none"
    BY DEF RejectInv
  <2>1. window[q] # "none"
    BY RejectsQueued DEF OnceInv, RejectInv, ToldBy, Shown
  <2> QED
    BY <2>1, WindowsStay DEF OnceInv
<1> QED
    BY <1>1, <1>2, <1>3 DEF OnceInv

\* The invariants above hold in every behaviour.
THEOREM OnceInvariance == Spec => []OnceInv
    BY OnceInit, OnceStep, PTL DEF Spec

\* The registry lists exactly the windows that stand, each once, unanswered and
\* under an id of its own, and no prompt is answered twice, whichever of holder,
\* deadline, dismissal and sweep meet at its window (PromptRegistry and the
\* completions of PrompterService::raiseWindow).
THEOREM RegistryStands == Spec => []RegistryIsWhatStands
<1>1. OnceInv => RegistryIsWhatStands
    BY DEF OnceInv, StandInv, Distinct, RegistryIsWhatStands
<1> QED
    BY <1>1, OnceInvariance, PTL

\* Every variable of the agent's client, the bus and the helper keeps its type.
THEOREM TypeCorrect == Spec => []TypeOK
<1>1. OnceInv => TypeOK
  <2> SUFFICES ASSUME OnceInv PROVE TypeOK
    OBVIOUS
  <2>1. replies \in [Prompts -> 0..1]
    <3>1. replies \in [Prompts -> Nat]
        BY DEF OnceInv, TypeInv, AnswerType
    <3>2. \A p \in Prompts : replies[p] <= 1
        BY <3>1 DEF OnceInv, StandInv
    <3> QED
        BY <3>1, <3>2
  <2> QED
    BY <2>1 DEF OnceInv, TypeInv, AgentType, QueueType, CallsOf, JobsOf, WindowType, AnswerType,
                RestType, TypeOK
<1> QED
    BY <1>1, OnceInvariance, PTL

-----------------------------------------------------------------------------
(* What one step may do to one prompt.                                     *)

\* A request comes onto the bus from a worker whose helper was judged usable.
LEMMA RequestsQueued ==
    ASSUME OnceInv, [Next]_vars, NEW q \in Prompts, Names(bus', "request", q)
    PROVE  Names(bus, "request", q) \/ (call[q] = "cleared" /\ Send(q))
<1> USE DEF agentVars, helperVars, history
<1>0. bus \in Seq(Calls) /\ AgentType
    BY DEF OnceInv, TypeInv, QueueType, CallsOf
<1>1. CASE UNCHANGED bus
    BY <1>1
<1>2. ASSUME NEW p \in Prompts, Send(p)
      PROVE  Names(bus, "request", q) \/ (call[q] = "cleared" /\ Send(q))
  <2>1. call[p] = "cleared" /\ bus' = Append(bus, Request(p))
    BY <1>2 DEF Send
  <2>2. Names(bus, "request", q) \/ q = p
    BY <1>0, <2>1, MessageTypes, NamesAppended
  <2> QED
    BY <1>2, <2>1, <2>2
<1>3. ASSUME NEW p \in Prompts, CallFails(p) \/ OperationCancelled(p)
      PROVE  Names(bus, "request", q)
  <2>1. bus' = bus \/ bus' = Append(bus, CancelOf(p))
    BY <1>3 DEF CallFails, OperationCancelled
  <2>2. Names(Append(bus, CancelOf(p)), "request", q) => Names(bus, "request", q)
    BY <1>0, MessageTypes, NamesAppended
  <2> QED
    BY <2>1, <2>2
<1>4. CASE AgentStart
  <2>1. bus' = bus \/ bus' = Append(bus, ResetBy(agent + 1))
    BY <1>4 DEF AgentStart
  <2>2. agent + 1 \in Pids
    BY <1>0, <1>4, PrompterAssumption DEF AgentStart, AgentType, Pids
  <2>3. Names(Append(bus, ResetBy(agent + 1)), "request", q) => Names(bus, "request", q)
    <3> DEFINE m == ResetBy(agent + 1)
    <3>1. m \in Calls /\ m.do = "reset"
        BY <2>2, ResetType
    <3> HIDE DEF m
    <3>2. Names(Append(bus, m), "request", q) => Names(bus, "request", q)
        BY <1>0, <3>1, NamesAppended
    <3> QED
        BY <3>2 DEF m
  <2> QED
    BY <2>1, <2>3
<1>5. CASE Dispatch
  <2>1. bus # <<>> /\ bus' = Tail(bus)
    BY <1>5 DEF Dispatch, DispatchRequest, DispatchCancel, DispatchReset, NextCall
  <2> QED
    BY <1>0, <2>1, NamesTaken
<1>6. CASE HelperExit
  <2>1. PICK d \in 0..Len(bus) : bus' = SubSeq(bus, d + 1, Len(bus))
    BY <1>6 DEF HelperExit
  <2> QED
    BY <1>0, <2>1, NamesDropped
<1>7. ASSUME NEW p \in Prompts, Holder(p) \/ Tick(p) \/ Deadline(p) \/ Receive(p)
                                \/ \E i \in Ids \cup {NoId} : Ask(p, i)
      PROVE  UNCHANGED bus
    BY <1>7 DEF Holder, HolderCancels, HolderAccepts, SwapForm, Tick, Deadline, Receive, Ask
<1>8. ASSUME AgentCrash \/ QtThread \/ UNCHANGED vars
      PROVE  UNCHANGED bus
    BY <1>8 DEF AgentCrash, QtThread, Raise, Dismiss, Sweep, Reject, vars
<1> QED
    BY <1>1, <1>2, <1>3, <1>4, <1>5, <1>6, <1>7, <1>8 DEF Next, Worker

\* A window is to be raised only for a request taken from the bus.
LEMMA RaisesQueued ==
    ASSUME OnceInv, [Next]_vars, NEW q \in Prompts, Names(gui', "raise", q)
    PROVE  Names(gui, "raise", q) \/ Names(bus, "request", q)
<1> USE DEF agentVars, helperVars, history
<1>0. /\ bus \in Seq(Calls) /\ gui \in Seq(Jobs) /\ JobsOf(gui) /\ AgentType
      /\ registry \in Seq(Prompts)
    BY DEF OnceInv, TypeInv, QueueType, CallsOf, JobsOf, WindowType
<1>1. CASE UNCHANGED gui
    BY <1>1
<1>2. CASE Dispatch
  <2> DEFINE m == Head(bus)
  <2>1. /\ bus # <<>>
        /\ \/ gui' = gui
           \/ m.do = "request" /\ gui' = Append(gui, [m EXCEPT !.do = "raise"])
           \/ \E what \in {"dismiss", "sweep"} : gui' = Append(gui, [m EXCEPT !.do = what])
    BY <1>2 DEF Dispatch, DispatchRequest, DispatchCancel, DispatchReset, NextCall
  <2>2. m \in Calls /\ (m.do = "request" => Names(bus, "request", m.prompt))
    BY <1>0, <2>1, CallsKept, NamesTaken DEF OnceInv, TypeInv, QueueType
  <2> HIDE DEF m
  <2>3. ASSUME NEW what \in {"raise", "dismiss", "sweep"}, gui' = Append(gui, [m EXCEPT !.do = what])
        PROVE  Names(gui, "raise", q) \/ (what = "raise" /\ m.prompt = q)
    <3> DEFINE j == [m EXCEPT !.do = what]
    <3>1. j \in Jobs /\ j.do = what /\ j.prompt = m.prompt
        BY <2>2, PostedType
    <3> HIDE DEF j
    <3>2. gui' = Append(gui, j)
        BY <2>3 DEF j
    <3> QED
        BY <1>0, <3>1, <3>2, NamesAppended
  <2> QED
    BY <1>1, <2>1, <2>2, <2>3
<1>3. ASSUME gui # <<>>, gui' = Tail(gui)
      PROVE  Names(gui, "raise", q)
    BY <1>0, <1>3, NamesTaken
<1>4. CASE Dismiss
  <2>1. gui # <<>>
    BY <1>4 DEF Dismiss, RunJob
  <2>2. ASSUME NEW k \in DOMAIN registry, gui' = Append(Tail(gui), RejectOf(registry[k]))
        PROVE  Names(gui, "raise", q)
    <3>1. registry[k] \in Prompts
        BY <1>0, LenProperties
    <3>2. RejectOf(registry[k]) \in Jobs /\ RejectOf(registry[k]).do = "reject"
        BY <1>0, <3>1, MessageTypes
    <3>3. Tail(gui) \in Seq(Jobs)
        BY <1>0, <2>1, Taken
    <3>4. Names(Tail(gui), "raise", q)
        BY <2>2, <3>2, <3>3, NamesAppended
    <3> QED
        BY <1>0, <2>1, <3>4, NamesTaken
  <2> QED
    BY <1>3, <1>4, <2>1, <2>2 DEF Dismiss, Entries
<1>5. CASE Sweep
  <2>1. gui # <<>> /\ gui' = Tail(gui) \o [k \in DOMAIN registry |-> RejectOf(registry[k])]
    BY <1>5 DEF Sweep, Swept, RunJob
  <2>2. JobsOf(Tail(gui))
    BY <1>0, <2>1, JobsKept
  <2>3. Names(Tail(gui), "raise", q)
    BY <1>0, <2>1, <2>2, NamesSwept
  <2> QED
    BY <1>0, <2>1, <2>3, NamesTaken
<1>6. CASE Raise \/ Reject
    BY <1>3, <1>6 DEF Raise, Reject, RunJob
<1>7. CASE HelperExit
    BY <1>7 DEF HelperExit, Names
<1>8. ASSUME NEW p \in Prompts,
             Worker(p) \/ OperationCancelled(p) \/ Holder(p) \/ Tick(p) \/ Deadline(p)
      PROVE  UNCHANGED gui
    BY <1>8 DEF Worker, Ask, Send, CallFails, Receive, OperationCancelled, Holder, HolderCancels,
                HolderAccepts, SwapForm, Tick, Deadline
<1>9. ASSUME AgentCrash \/ AgentStart \/ UNCHANGED vars
      PROVE  UNCHANGED gui
    BY <1>9 DEF AgentCrash, AgentStart, vars
<1> QED
    BY <1>1, <1>2, <1>4, <1>5, <1>6, <1>7, <1>8, <1>9 DEF Next, QtThread

\* What may happen to the window of q.
WindowMoves(q) ==
    \/ window'[q] = window[q] /\ form'[q] = form[q] /\ clock'[q] = clock[q]
    \/ /\ Names(gui, "raise", q) /\ Raise /\ Head(gui).prompt = q
       /\ window'[q] = "shown" /\ form'[q] = form[q] /\ clock'[q] = Armed(ask[q].budget)
    \/ /\ Shown(q) /\ window'[q] = window[q] /\ ask[q].kind = "offer"
       /\ form'[q] = (IF form[q] = "mrz" THEN "asked" ELSE "mrz")
       /\ clock'[q] = Rebased(clock[q], ask[q].alt)
    \/ /\ Shown(q) /\ window'[q] = window[q] /\ form'[q] = form[q]
       /\ clock[q].spent < clock[q].due /\ clock'[q] = [clock[q] EXCEPT !.spent = @ + 1]
    \/ window[q] # "none" /\ window'[q] = "closed" /\ form'[q] = form[q] /\ clock'[q] = clock[q]

\* These are the ways a step moves a window, its form and its clock.
LEMMA WindowStep ==
    ASSUME OnceInv, [Next]_vars, NEW q \in Prompts
    PROVE  WindowMoves(q)
<1> USE DEF agentVars, helperVars, history
<1>0. TypeInv /\ StandInv /\ WindowType /\ gui \in Seq(Jobs) /\ JobsOf(gui)
    BY DEF OnceInv, TypeInv, QueueType, JobsOf
<1>1. CASE UNCHANGED <<window, form, clock>>
    BY <1>1 DEF WindowMoves
<1>2. CASE Raise
  <2> DEFINE m == Head(gui)
  <2>1. /\ gui # <<>> /\ m.do = "raise" /\ UNCHANGED form
        /\ \/ UNCHANGED <<window, clock>>
           \/ /\ window' = [window EXCEPT ![m.prompt] = "shown"]
              /\ clock' = [clock EXCEPT ![m.prompt] = Armed(ask[m.prompt].budget)]
    BY <1>2 DEF Raise, RunJob
  <2>2. m.prompt \in Prompts /\ Names(gui, "raise", m.prompt)
    BY <1>0, <2>1, JobsKept, NamesTaken
  <2>3. CASE q = m.prompt
    BY <1>0, <1>2, <2>1, <2>2, <2>3 DEF WindowMoves, WindowType
  <2>4. CASE q # m.prompt
    BY <1>0, <2>1, <2>2, <2>4 DEF WindowMoves, WindowType
  <2> QED
    BY <2>3, <2>4
<1>3. ASSUME NEW p \in Prompts, NEW word, NEW fd, Finished(p, word, fd), UNCHANGED <<form, clock>>,
             window[p] # "none"
      PROVE  WindowMoves(q)
    BY <1>0, <1>3 DEF Finished, WindowMoves, WindowType
<1>4. CASE Reject
  <2>1. /\ gui # <<>> /\ Head(gui).do = "reject" /\ UNCHANGED <<form, clock>>
        /\ Finished(Head(gui).prompt, "cancelled", NoSecret)
    BY <1>4 DEF Reject, RunJob
  <2>2. Head(gui).prompt \in Prompts /\ Names(gui, "reject", Head(gui).prompt)
    BY <1>0, <2>1, JobsKept, NamesTaken
  <2>3. window[Head(gui).prompt] # "none"
    BY <2>2 DEF OnceInv, RejectInv
  <2> QED
    BY <1>3, <2>1, <2>2, <2>3
<1>5. ASSUME NEW p \in Prompts, HolderCancels(p) \/ HolderAccepts(p) \/ Deadline(p)
      PROVE  WindowMoves(q)
  <2>1. /\ Shown(p) /\ UNCHANGED <<form, clock>>
        /\ \E word, fd : Finished(p, word, fd)
    BY <1>5 DEF HolderCancels, HolderAccepts, Deadline
  <2> QED
    BY <1>3, <2>1 DEF Shown
<1>6. ASSUME NEW p \in Prompts, SwapForm(p)
      PROVE  WindowMoves(q)
    BY <1>0, <1>6 DEF SwapForm, WindowMoves, WindowType
<1>7. ASSUME NEW p \in Prompts, Tick(p)
      PROVE  WindowMoves(q)
  <2>1. /\ Shown(p) /\ clock[p].spent < clock[p].due /\ UNCHANGED <<window, form>>
        /\ clock' = [clock EXCEPT ![p] = [clock[p] EXCEPT !.spent = @ + 1]]
    BY <1>7 DEF Tick
  <2>2. clock'[p] = [clock[p] EXCEPT !.spent = @ + 1] /\ (q # p => clock'[q] = clock[q])
    BY <1>0, <2>1 DEF WindowType
  <2> QED
    BY <2>1, <2>2, Zenon DEF WindowMoves
<1>8. CASE HelperExit
    BY <1>0, <1>8 DEF HelperExit, WindowMoves, Shown
<1>9. ASSUME NEW p \in Prompts, Worker(p) \/ OperationCancelled(p)
      PROVE  UNCHANGED <<window, form, clock>>
    BY <1>9 DEF Worker, Ask, Send, CallFails, Receive, OperationCancelled
<1>10. ASSUME AgentCrash \/ AgentStart \/ Dispatch \/ Dismiss \/ Sweep \/ UNCHANGED vars
       PROVE  UNCHANGED <<window, form, clock>>
    BY <1>10 DEF AgentCrash, AgentStart, Dispatch, DispatchRequest, DispatchCancel, DispatchReset,
                 Dismiss, Sweep, vars
<1> QED
    BY <1>1, <1>2, <1>4, <1>5, <1>6, <1>7, <1>8, <1>9, <1>10 DEF Next, Holder, QtThread

\* What may happen to the answer of q: the caller takes it, or it is given.
Answers(q) ==
    \/ reply'[q] = reply[q]
    \/ reply'[q] = NoAnswer
    \/ \E word \in {"error", "unauthorized"} : reply'[q] = [word |-> word, fd |-> NoSecret]
    \/ /\ Shown(q) /\ window'[q] = "closed" /\ call[q] = "waiting"
       /\ UNCHANGED <<form, clock>>
       /\ \/ /\ reply'[q] = [word |-> "cancelled", fd |-> NoSecret]
             /\ Names(gui, "reject", q) \/ q \in declined'
          \/ reply'[q] = [word |-> OkWord(q), fd |-> form[q]]
          \/ reply'[q] = [word |-> "error", fd |-> NoSecret]
          \/ /\ reply'[q] = [word |-> "timeout", fd |-> NoSecret]
             /\ clock[q].due > 0 /\ clock[q].spent = clock[q].due

\* These are the answers a step puts on the way.
LEMMA ReplyStep ==
    ASSUME OnceInv, [Next]_vars, NEW q \in Prompts
    PROVE  Answers(q)
<1> USE DEF agentVars, helperVars, history
<1>0. TypeInv /\ StandInv /\ AnswerType /\ gui \in Seq(Jobs) /\ JobsOf(gui)
      /\ CallsOf(bus) /\ bus \in Seq(Calls)
    BY DEF OnceInv, TypeInv, QueueType, JobsOf, CallsOf
<1>1. CASE UNCHANGED reply
    BY <1>1 DEF Answers
<1>2. ASSUME NEW p \in Prompts, NEW word, NEW fd, Finished(p, word, fd)
      PROVE  \/ reply'[q] = reply[q]
             \/ /\ q = p /\ Shown(q) /\ window'[q] = "closed" /\ call[q] = "waiting"
                /\ reply'[q] = [word |-> word, fd |-> fd]
  <2>1. Closes(p, word, fd)
    BY <1>0, <1>2, FinishedEffect
  <2> QED
    BY <2>1 DEF Closes
<1>3. ASSUME NEW p \in Prompts, NEW word \in {"error", "unauthorized"}, Answer(p, word, NoSecret)
      PROVE  Answers(q)
  <2>1. \/ reply'[q] = reply[q]
        \/ reply'[q] = [word |-> word, fd |-> NoSecret]
    BY <1>0, <1>3 DEF Answer, AnswerType
  <2> QED
    BY <2>1 DEF Answers
<1>4. CASE DispatchRequest
  <2>1. /\ bus # <<>> /\ Head(bus).do = "request"
        /\ \/ UNCHANGED reply
           \/ \E word \in {"error", "unauthorized"} : Answer(Head(bus).prompt, word, NoSecret)
    BY <1>4 DEF DispatchRequest, NextCall
  <2>2. Head(bus).prompt \in Prompts
    BY <1>0, <2>1, CallsKept
  <2> QED
    BY <1>1, <1>3, <2>1, <2>2
<1>5. CASE Raise
  <2>1. /\ gui # <<>> /\ Head(gui).do = "raise"
        /\ UNCHANGED reply \/ Answer(Head(gui).prompt, "error", NoSecret)
    BY <1>5 DEF Raise, RunJob
  <2>2. Head(gui).prompt \in Prompts
    BY <1>0, <2>1, JobsKept
  <2> QED
    BY <1>1, <1>3, <2>1, <2>2
<1>6. CASE Reject
  <2>1. /\ gui # <<>> /\ Head(gui).do = "reject" /\ UNCHANGED <<form, clock>>
        /\ Finished(Head(gui).prompt, "cancelled", NoSecret)
    BY <1>6 DEF Reject, RunJob
  <2>2. Head(gui).prompt \in Prompts /\ Names(gui, "reject", Head(gui).prompt)
    BY <1>0, <2>1, JobsKept, NamesTaken
  <2>3. \/ reply'[q] = reply[q]
        \/ /\ q = Head(gui).prompt /\ Shown(q) /\ window'[q] = "closed" /\ call[q] = "waiting"
           /\ reply'[q] = [word |-> "cancelled", fd |-> NoSecret]
    BY <1>2, <2>1, <2>2
  <2> QED
    BY <2>1, <2>2, <2>3, Zenon DEF Answers
<1>7. ASSUME NEW p \in Prompts, HolderCancels(p)
      PROVE  Answers(q)
  <2>1. Finished(p, "cancelled", NoSecret) /\ p \in declined' /\ UNCHANGED <<form, clock>>
    BY <1>7 DEF HolderCancels
  <2>2. \/ reply'[q] = reply[q]
        \/ /\ q = p /\ Shown(q) /\ window'[q] = "closed" /\ call[q] = "waiting"
           /\ reply'[q] = [word |-> "cancelled", fd |-> NoSecret]
    BY <1>2, <2>1
  <2> QED
    BY <2>1, <2>2, Zenon DEF Answers
<1>8. ASSUME NEW p \in Prompts, HolderAccepts(p)
      PROVE  Answers(q)
  <2>1. /\ UNCHANGED <<form, clock>>
        /\ Finished(p, OkWord(p), form[p]) \/ Finished(p, "error", NoSecret)
    BY <1>8 DEF HolderAccepts
  <2>2. \/ reply'[q] = reply[q]
        \/ /\ q = p /\ Shown(q) /\ window'[q] = "closed" /\ call[q] = "waiting"
           /\ \/ reply'[q] = [word |-> OkWord(p), fd |-> form[p]]
              \/ reply'[q] = [word |-> "error", fd |-> NoSecret]
    BY <1>2, <2>1
  <2> QED
    BY <2>1, <2>2, Zenon DEF Answers
<1>9. ASSUME NEW p \in Prompts, Deadline(p)
      PROVE  Answers(q)
  <2>1. /\ clock[p].due > 0 /\ clock[p].spent = clock[p].due
        /\ Finished(p, "timeout", NoSecret) /\ UNCHANGED <<form, clock>>
    BY <1>9 DEF Deadline
  <2>2. \/ reply'[q] = reply[q]
        \/ /\ q = p /\ Shown(q) /\ window'[q] = "closed" /\ call[q] = "waiting"
           /\ reply'[q] = [word |-> "timeout", fd |-> NoSecret]
    BY <1>2, <2>1
  <2> QED
    BY <2>1, <2>2, Zenon DEF Answers
<1>10. ASSUME NEW p \in Prompts, Receive(p)
       PROVE  Answers(q)
    BY <1>0, <1>10 DEF Receive, Answers, AnswerType
<1>11. ASSUME NEW p \in Prompts, Send(p) \/ CallFails(p) \/ OperationCancelled(p) \/ SwapForm(p) \/ Tick(p)
                                 \/ \E i \in Ids \cup {NoId} : Ask(p, i)
       PROVE  UNCHANGED reply
    BY <1>11 DEF Ask, Send, CallFails, OperationCancelled, SwapForm, Tick
<1>12. ASSUME \/ AgentCrash \/ AgentStart \/ HelperExit \/ DispatchCancel \/ DispatchReset
              \/ Dismiss \/ Sweep \/ UNCHANGED vars
       PROVE  UNCHANGED reply
    BY <1>12 DEF AgentCrash, AgentStart, HelperExit, DispatchCancel, DispatchReset, Dismiss, Sweep, vars
<1> QED
    BY <1>1, <1>4, <1>5, <1>6, <1>7, <1>8, <1>9, <1>10, <1>11, <1>12
       DEF Next, Worker, Holder, Dispatch, QtThread

\* What may happen to the result of q: it stays, a failure is reported, or the
\* answer is parsed.
Results(q) ==
    \/ result'[q] = result[q]
    \/ \E status \in {"Error", "HelperTooOld"} : result'[q] = Failed(status)
    \/ /\ call[q] = "waiting"
       /\ \E readable \in BOOLEAN : result'[q] = Parsed(q, readable)

\* These are the results a step hands to a worker.
LEMMA ResultStep ==
    ASSUME OnceInv, [Next]_vars, NEW q \in Prompts
    PROVE  Results(q) /\ ask' = ask
<1> USE DEF agentVars, helperVars, history
<1>0. AnswerType
    BY DEF OnceInv, TypeInv
<1>1. ASSUME NEW p \in Prompts, NEW i \in Ids \cup {NoId}, Ask(p, i)
      PROVE  Results(q) /\ ask' = ask
  <2>1. /\ ask' = ask
        /\ result' = result \/ \E status \in {"Error", "HelperTooOld"} :
                                 result' = [result EXCEPT ![p] = Failed(status)]
    BY <1>1 DEF Ask, Refusal
  <2> QED
    BY <1>0, <2>1 DEF Results, AnswerType
<1>2. ASSUME NEW p \in Prompts, CallFails(p)
      PROVE  Results(q) /\ ask' = ask
  <2>1. ask' = ask /\ result' = [result EXCEPT ![p] = Failed("Error")]
    BY <1>2 DEF CallFails
  <2> QED
    BY <1>0, <2>1 DEF Results, AnswerType
<1>3. ASSUME NEW p \in Prompts, Receive(p)
      PROVE  Results(q) /\ ask' = ask
  <2>1. /\ ask' = ask /\ call[p] = "waiting"
        /\ \E readable \in BOOLEAN : result' = [result EXCEPT ![p] = Parsed(p, readable)]
    BY <1>3 DEF Receive
  <2> QED
    BY <1>0, <2>1 DEF Results, AnswerType
<1>4. ASSUME NEW p \in Prompts, Send(p) \/ OperationCancelled(p) \/ Holder(p) \/ Tick(p) \/ Deadline(p)
      PROVE  UNCHANGED <<result, ask>>
    BY <1>4 DEF Send, OperationCancelled, Holder, HolderCancels, HolderAccepts, SwapForm, Tick, Deadline
<1>5. ASSUME AgentCrash \/ AgentStart \/ HelperExit \/ Dispatch \/ QtThread \/ UNCHANGED vars
      PROVE  UNCHANGED <<result, ask>>
    BY <1>5 DEF AgentCrash, AgentStart, HelperExit, Dispatch, DispatchRequest, DispatchCancel,
                DispatchReset, QtThread, Raise, Dismiss, Sweep, Reject, vars
<1>6. CASE UNCHANGED <<result, ask>>
    BY <1>6 DEF Results
<1> QED
    BY <1>1, <1>2, <1>3, <1>4, <1>5, <1>6 DEF Next, Worker

-----------------------------------------------------------------------------
(* A window is only raised by a helper that can dismiss it.                *)

HelperInv ==
    /\ capability = "usable" => helper = "current"
    /\ \A p \in Prompts :
         call[p] = "cleared" \/ Names(bus, "request", p) \/ Names(gui, "raise", p) \/ Shown(p)
           => helper = "current"

\* A helper never becomes older, and while it is old nobody is cleared to ask it.
LEMMA HelperStep == OnceInv /\ HelperInv /\ [Next]_vars => HelperInv'
<1> SUFFICES ASSUME OnceInv, HelperInv, [Next]_vars, helper' # "current"
             PROVE  /\ capability' # "usable"
                    /\ \A p \in Prompts : /\ call'[p] # "cleared" /\ window'[p] # "shown"
                                          /\ ~Names(bus', "request", p) /\ ~Names(gui', "raise", p)
    BY DEF HelperInv, Shown
<1> USE DEF agentVars, helperVars, history
<1>0. AgentType
    BY DEF OnceInv, TypeInv
<1>1. helper # "current"
  <2>1. ASSUME NEW p \in Prompts,
               Worker(p) \/ OperationCancelled(p) \/ Holder(p) \/ Tick(p) \/ Deadline(p)
        PROVE  helper' = helper
    BY <2>1 DEF Worker, Ask, Send, CallFails, Receive, OperationCancelled, Holder, HolderCancels,
                HolderAccepts, SwapForm, Tick, Deadline
  <2>2. ASSUME AgentCrash \/ AgentStart \/ Dispatch \/ QtThread \/ UNCHANGED vars
        PROVE  helper' = helper
    BY <2>2 DEF AgentCrash, AgentStart, Dispatch, DispatchRequest, DispatchCancel, DispatchReset,
                QtThread, Raise, Dismiss, Sweep, Reject, vars
  <2>3. CASE HelperExit
    BY <2>3 DEF HelperExit
  <2> QED
    BY <2>1, <2>2, <2>3 DEF Next
<1>2. /\ capability # "usable"
      /\ \A p \in Prompts : /\ call[p] # "cleared" /\ ~Shown(p)
                            /\ ~Names(bus, "request", p) /\ ~Names(gui, "raise", p)
    BY <1>1 DEF HelperInv
<1>3. \A p \in Prompts : ~Names(bus', "request", p) /\ ~Names(gui', "raise", p)
    BY <1>2, RequestsQueued, RaisesQueued
<1>4. \A p \in Prompts : window'[p] # "shown"
    BY <1>2, WindowStep DEF WindowMoves, Shown
<1>5. capability' # "usable" /\ \A p \in Prompts : call'[p] # "cleared"
  <2>1. ASSUME NEW p \in Prompts, NEW i \in Ids \cup {NoId}, Ask(p, i)
        PROVE  capability' # "usable" /\ \A q \in Prompts : call'[q] # "cleared"
    <3>1. PICK verdict \in Usability :
                 /\ capability' = Remembered(verdict)
                 /\ verdict # "usable" => call' = [call EXCEPT ![p] = "done"]
        BY <2>1 DEF Ask
    <3>2. verdict # "usable"
        BY <1>1, <1>2, <3>1 DEF Usability
    <3> QED
        BY <1>0, <1>2, <3>1, <3>2 DEF Remembered, AgentType
  <2>2. ASSUME NEW p \in Prompts, Send(p) \/ CallFails(p) \/ Receive(p)
        PROVE  capability' # "usable" /\ \A q \in Prompts : call'[q] # "cleared"
    BY <1>0, <1>2, <2>2 DEF Send, CallFails, Receive, AgentType
  <2>3. ASSUME NEW p \in Prompts, OperationCancelled(p) \/ Holder(p) \/ Tick(p) \/ Deadline(p)
        PROVE  UNCHANGED <<capability, call>>
    BY <2>3 DEF OperationCancelled, Holder, HolderCancels, HolderAccepts, SwapForm, Tick, Deadline
  <2>4. ASSUME HelperExit \/ Dispatch \/ QtThread \/ UNCHANGED vars
        PROVE  UNCHANGED <<capability, call>>
    BY <2>4 DEF HelperExit, Dispatch, DispatchRequest, DispatchCancel, DispatchReset,
                QtThread, Raise, Dismiss, Sweep, Reject, vars
  <2>5. ASSUME AgentCrash \/ AgentStart
        PROVE  capability' # "usable" /\ \A q \in Prompts : call'[q] # "cleared"
    BY <1>2, <2>5 DEF AgentCrash, AgentStart
  <2>6. CASE UNCHANGED <<capability, call>>
    BY <1>2, <2>6
  <2> QED
    BY <2>1, <2>2, <2>3, <2>4, <2>5, <2>6 DEF Next, Worker
<1> QED
    BY <1>3, <1>4, <1>5

\* "The agent refuses to raise a prompt it could not dismiss" (PrompterWire.h): no
\* window stands in a helper that has no Cancel, whatever was remembered, crashed
\* or replaced in between.
THEOREM ShownCanBeDismissed == Spec => []ShownIsDismissible
<1>1. Init => HelperInv
    BY DEF Init, HelperInv, Names, Shown
<1>2. HelperInv => ShownIsDismissible
    BY DEF HelperInv, ShownIsDismissible
<1> QED
    BY <1>1, <1>2, HelperStep, OnceInvariance, PTL DEF Spec

-----------------------------------------------------------------------------
(* What the holder typed is reported as what it is.                        *)

SecretInv ==
    \A p \in Prompts :
        /\ form[p] = "mrz" => ask[p].kind = "offer"
        /\ reply[p].word = "ok" => reply[p].fd = "asked"
        /\ reply[p].word = "okMrz" => reply[p].fd = "mrz" /\ ask[p].kind = "offer"

\* Every step keeps an answer to what was entered.
LEMMA SecretStep == OnceInv /\ SecretInv /\ [Next]_vars => SecretInv'
<1> SUFFICES ASSUME OnceInv, SecretInv, [Next]_vars, NEW q \in Prompts
             PROVE  /\ form'[q] = "mrz" => ask'[q].kind = "offer"
                    /\ reply'[q].word = "ok" => reply'[q].fd = "asked"
                    /\ reply'[q].word = "okMrz" => reply'[q].fd = "mrz" /\ ask'[q].kind = "offer"
    BY DEF SecretInv
<1>1. ask' = ask
    BY ResultStep
<1>2. form[q] \in Forms
    BY DEF OnceInv, TypeInv, WindowType
<1>3. form'[q] = "mrz" => ask[q].kind = "offer"
    BY WindowStep DEF WindowMoves, SecretInv
<1>4. /\ reply'[q].word = "ok" => reply'[q].fd = "asked"
      /\ reply'[q].word = "okMrz" => reply'[q].fd = "mrz" /\ ask[q].kind = "offer"
  <2>1. CASE reply'[q] = reply[q]
    BY <2>1 DEF SecretInv
  <2>2. CASE reply'[q] = NoAnswer
    BY <2>2 DEF NoAnswer
  <2>3. ASSUME NEW word \in {"error", "unauthorized", "cancelled", "timeout"},
               reply'[q] = [word |-> word, fd |-> NoSecret]
        PROVE  reply'[q].word \notin {"ok", "okMrz"}
    BY <2>3
  <2>4. CASE reply'[q] = [word |-> OkWord(q), fd |-> form[q]]
    BY <1>2, <2>4 DEF OkWord, Forms, SecretInv
  <2> QED
    BY <2>1, <2>2, <2>3, <2>4, ReplyStep DEF Answers
<1> QED
    BY <1>1, <1>3, <1>4

\* An MRZ is handed on as an MRZ and nothing else is, and a failed prompt carries
\* neither secret nor kind, however often the holder switched the form
\* (PromptDialog::swapInputKind, parseRequestSecretStatus).
THEOREM SecretsAreClassified == Spec => []SecretIsClassified
<1>1. Init => SecretInv /\ SecretIsClassified
    BY DEF Init, SecretInv, SecretIsClassified, NoAnswer, NoResult
<1>2. ASSUME OnceInv, SecretInv, SecretIsClassified, [Next]_vars
      PROVE  SecretIsClassified'
  <2> SUFFICES ASSUME NEW q \in Prompts
               PROVE  /\ result'[q].status = "Ok" =>
                           /\ result'[q].secret # NoSecret
                           /\ (result'[q].secret = "mrz") <=> (result'[q].chosen = "mrz")
                      /\ result'[q].status # "Ok" =>
                           result'[q].secret = NoSecret /\ result'[q].chosen = NoSecret
    BY DEF SecretIsClassified
  <2>1. CASE result'[q] = result[q]
    BY <1>2, <2>1 DEF SecretIsClassified
  <2>2. ASSUME NEW status, status # "Ok", result'[q] = Failed(status)
        PROVE  /\ result'[q].status # "Ok"
               /\ result'[q].secret = NoSecret /\ result'[q].chosen = NoSecret
    BY <2>2 DEF Failed
  <2>3. ASSUME NEW readable \in BOOLEAN, result'[q] = Parsed(q, readable)
        PROVE  \/ \E status : status # "Ok" /\ result'[q] = Failed(status)
               \/ /\ result'[q].status = "Ok" /\ result'[q].secret # NoSecret
                  /\ (result'[q].secret = "mrz") <=> (result'[q].chosen = "mrz")
    <3> DEFINE status == Status(reply[q].word, ask[q].kind = "offer")
    <3>1. CASE status # "Ok"
        BY <2>3, <3>1 DEF Parsed
    <3>2. CASE status = "Ok" /\ ~readable
        BY <2>3, <3>2 DEF Parsed
    <3>3. CASE status = "Ok" /\ readable
      <4>1. result'[q] = [status |-> "Ok", secret |-> reply[q].fd,
                          chosen |-> IF reply[q].word = "okMrz" THEN "mrz" ELSE NoSecret]
        BY <2>3, <3>3 DEF Parsed
      <4>2. reply[q].word \in {"ok", "okMrz"}
        BY <3>3 DEF Status
      <4>3. reply[q].fd = IF reply[q].word = "okMrz" THEN "mrz" ELSE "asked"
        BY <1>2, <4>2 DEF SecretInv
      <4> QED
        BY <4>1, <4>3 DEF NoSecret
    <3> QED
        BY <3>1, <3>2, <3>3
  <2> QED
    BY <1>2, <2>1, <2>2, <2>3, ResultStep DEF Results
<1> QED
    BY <1>1, <1>2, SecretStep, OnceInvariance, PTL DEF Spec

-----------------------------------------------------------------------------
(* The entry clock.                                                        *)

ClockInv ==
    \A p \in Prompts :
        /\ window[p] = "none" => clock[p].spent = 0 /\ form[p] = "asked"
        /\ window[p] # "none" =>
             /\ clock[p].due = clock[p].budget
             /\ clock[p].spent <= clock[p].due
             /\ clock[p].budget \in {ask[p].budget, LongestEntry(ask[p])}
             /\ form[p] = "mrz" => ask[p].kind = "offer" /\ clock[p].budget = LongestEntry(ask[p])

\* A window that expired is closed, with its last budget spent.
ExpiredInv ==
    \A p \in Prompts :
        "timeout" = reply[p].word \/ "Timeout" = result[p].status =>
            window[p] = "closed" /\ clock[p].due > 0 /\ clock[p].spent = clock[p].due

\* The longest entry time is the asked one, or the alternative's if that is longer.
LEMMA Longest ==
    ASSUME NEW a \in [kind : Kinds, budget : Nat, alt : Nat]
    PROVE  /\ LongestEntry(a) \in Nat /\ LongestEntry(a) >= a.budget
           /\ a.budget = 0 => LongestEntry(a) = 0
           /\ a.kind = "offer" /\ a.alt > a.budget /\ a.budget > 0 => LongestEntry(a) = a.alt
           /\ a.alt <= a.budget => LongestEntry(a) = a.budget
    BY DEF LongestEntry

\* A switch of the form re-bases the clock on the longer time, once.
LEMMA RebasedOnce ==
    ASSUME NEW c \in [budget : Nat, spent : Nat, due : Nat],
           NEW a \in [kind : Kinds, budget : Nat, alt : Nat], a.kind = "offer",
           c.due = c.budget, c.spent <= c.due, c.budget \in {a.budget, LongestEntry(a)}
    PROVE  LET d == Rebased(c, a.alt) IN
           d.due = d.budget /\ d.spent <= d.due /\ d.budget = LongestEntry(a)
<1> DEFINE left == RebasedRemaining(c.budget, a.alt, c.spent)
<1>1. /\ a.budget \in Nat /\ a.alt \in Nat /\ c.budget \in Nat /\ c.spent \in Nat
      /\ LongestEntry(a) \in Nat
    BY Longest
<1>2. CASE c.due = 0
  <2>1. Rebased(c, a.alt) = c
    BY <1>2 DEF Rebased
  <2>2. LongestEntry(a) = 0
    BY <1>1, <1>2, Longest
  <2> QED
    BY <1>2, <2>1, <2>2
<1>3. CASE c.due # 0 /\ a.alt <= c.budget
  <2>1. left = 0
    BY <1>3 DEF RebasedRemaining
  <2>2. Rebased(c, a.alt) = c
    BY <2>1 DEF Rebased
  <2>3. c.budget = LongestEntry(a)
    BY <1>1, <1>3, Longest
  <2> QED
    BY <2>2, <2>3
<1>4. CASE c.due # 0 /\ ~(a.alt <= c.budget)
  <2>1. a.alt > c.budget /\ a.alt > c.spent /\ a.budget > 0
    BY <1>1, <1>4, Longest
  <2>2. left = a.alt - c.spent /\ left # 0 /\ c.spent + left = a.alt
    BY <1>1, <2>1 DEF RebasedRemaining
  <2>3. Rebased(c, a.alt) = [c EXCEPT !.budget = a.alt, !.due = c.spent + left]
    BY <1>4, <2>2 DEF Rebased
  <2>4. LongestEntry(a) = a.alt
    BY <1>1, <2>1, Longest
  <2> HIDE DEF left
  <2>5. /\ Rebased(c, a.alt).budget = a.alt /\ Rebased(c, a.alt).due = a.alt
        /\ Rebased(c, a.alt).spent = c.spent
    BY <2>2, <2>3
  <2> QED
    BY <1>1, <2>1, <2>4, <2>5
<1> QED
    BY <1>2, <1>3, <1>4

\* Every step keeps the entry clock within its budgets.
LEMMA ClockStep == OnceInv /\ ClockInv /\ [Next]_vars => ClockInv'
<1> DEFINE Timed(q, a) ==
              /\ window'[q] = "none" => clock'[q].spent = 0 /\ form'[q] = "asked"
              /\ window'[q] # "none" =>
                   /\ clock'[q].due = clock'[q].budget
                   /\ clock'[q].spent <= clock'[q].due
                   /\ clock'[q].budget \in {a.budget, LongestEntry(a)}
                   /\ form'[q] = "mrz" => a.kind = "offer" /\ clock'[q].budget = LongestEntry(a)
<1> SUFFICES ASSUME OnceInv, ClockInv, [Next]_vars, NEW q \in Prompts
             PROVE  Timed(q, ask'[q])
    BY Zenon DEF ClockInv
<1>0. ask' = ask
    BY ResultStep
<1> SUFFICES Timed(q, ask[q])
    BY <1>0
<1>1. /\ ask[q] \in [kind : Kinds, budget : Nat, alt : Nat]
      /\ clock[q] \in [budget : Nat, spent : Nat, due : Nat]
      /\ form[q] \in Forms
    BY PrompterAssumption DEF OnceInv, TypeInv, AgentType, WindowType
<1>2. CASE window'[q] = window[q] /\ form'[q] = form[q] /\ clock'[q] = clock[q]
    BY <1>2 DEF ClockInv
<1>3. CASE /\ Names(gui, "raise", q)
           /\ window'[q] = "shown" /\ form'[q] = form[q] /\ clock'[q] = Armed(ask[q].budget)
  <2>1. window[q] = "none"
    BY <1>3 DEF OnceInv, TokenInv, Calm
  <2>2. form'[q] = "asked"
    BY <1>3, <2>1 DEF ClockInv
  <2>3. /\ clock'[q].due = ask[q].budget /\ clock'[q].budget = ask[q].budget
        /\ clock'[q].spent = 0
    BY <1>3 DEF Armed
  <2>4. 0 <= ask[q].budget
    BY <1>1
  <2> QED
    BY <1>3, <2>2, <2>3, <2>4
<1>4. CASE /\ Shown(q) /\ window'[q] = window[q] /\ ask[q].kind = "offer"
           /\ clock'[q] = Rebased(clock[q], ask[q].alt)
  <2>1. /\ clock[q].due = clock[q].budget /\ clock[q].spent <= clock[q].due
        /\ clock[q].budget \in {ask[q].budget, LongestEntry(ask[q])}
    BY <1>4 DEF ClockInv, Shown
  <2>2. /\ clock'[q].due = clock'[q].budget /\ clock'[q].spent <= clock'[q].due
        /\ clock'[q].budget = LongestEntry(ask[q])
    BY <1>1, <1>4, <2>1, RebasedOnce
  <2> QED
    BY <1>4, <2>2 DEF Shown
<1>5. CASE /\ Shown(q) /\ window'[q] = window[q] /\ form'[q] = form[q]
           /\ clock[q].spent < clock[q].due /\ clock'[q] = [clock[q] EXCEPT !.spent = @ + 1]
  <2>1. /\ clock'[q].spent = clock[q].spent + 1 /\ clock'[q].due = clock[q].due
        /\ clock'[q].budget = clock[q].budget
    BY <1>1, <1>5
  <2>2. clock'[q].spent <= clock'[q].due
    BY <1>1, <1>5, <2>1
  <2>3. /\ window'[q] # "none" /\ clock[q].due = clock[q].budget
        /\ clock[q].budget \in {ask[q].budget, LongestEntry(ask[q])}
        /\ form[q] = "mrz" => ask[q].kind = "offer" /\ clock[q].budget = LongestEntry(ask[q])
    BY <1>5 DEF ClockInv, Shown
  <2> QED
    BY <1>5, <2>1, <2>2, <2>3
<1>6. CASE window[q] # "none" /\ window'[q] = "closed" /\ form'[q] = form[q] /\ clock'[q] = clock[q]
    BY <1>6 DEF ClockInv
<1> QED
    BY <1>2, <1>3, <1>4, <1>5, <1>6, WindowStep DEF WindowMoves

\* A window that expired is not shown again, and its clock stands still.
LEMMA ExpiredStep == OnceInv /\ ClockInv /\ ExpiredInv /\ [Next]_vars => ExpiredInv'
<1> SUFFICES ASSUME OnceInv, ExpiredInv, [Next]_vars, NEW q \in Prompts,
                    "timeout" = reply'[q].word \/ "Timeout" = result'[q].status
             PROVE  window'[q] = "closed" /\ clock'[q].due > 0 /\ clock'[q].spent = clock'[q].due
    BY Zenon DEF ExpiredInv
<1>1. \/ "timeout" = reply[q].word \/ "Timeout" = result[q].status
      \/ /\ reply'[q] = [word |-> "timeout", fd |-> NoSecret] /\ window'[q] = "closed"
         /\ clock[q].due > 0 /\ clock[q].spent = clock[q].due /\ clock'[q] = clock[q]
  <2>1. CASE "timeout" = reply'[q].word
    <3>1. CASE reply'[q] = reply[q]
        BY <2>1, <3>1
    <3>2. reply'[q] # NoAnswer
        BY <2>1 DEF NoAnswer
    <3>3. ASSUME NEW word \in {"error", "unauthorized", "cancelled"},
                 reply'[q] = [word |-> word, fd |-> NoSecret]
          PROVE  FALSE
        BY <2>1, <3>3
    <3>4. reply'[q] # [word |-> OkWord(q), fd |-> form[q]]
        BY <2>1 DEF OkWord
    <3>5. UNCHANGED clock => clock'[q] = clock[q]
        OBVIOUS
    <3> QED
        BY <3>1, <3>2, <3>3, <3>4, <3>5, ReplyStep DEF Answers
  <2>2. CASE "Timeout" = result'[q].status
    <3>1. CASE result'[q] = result[q]
        BY <2>2, <3>1
    <3>2. ASSUME NEW status \in {"Error", "HelperTooOld"}, result'[q] = Failed(status)
          PROVE  FALSE
        BY <2>2, <3>2 DEF Failed
    <3>3. ASSUME NEW readable \in BOOLEAN, result'[q] = Parsed(q, readable)
          PROVE  "timeout" = reply[q].word
      <4> DEFINE status == Status(reply[q].word, ask[q].kind = "offer")
      <4>1. status = "Timeout"
        BY <2>2, <3>3 DEF Parsed, Failed
      <4> QED
        BY <4>1 DEF Status
    <3> QED
        BY <3>1, <3>2, <3>3, ResultStep DEF Results
  <2> QED
    BY <2>1, <2>2
<1>2. CASE "timeout" = reply[q].word \/ "Timeout" = result[q].status
  <2>1. window[q] = "closed" /\ clock[q].due > 0 /\ clock[q].spent = clock[q].due
    BY <1>2 DEF ExpiredInv
  <2>2. ~Names(gui, "raise", q) /\ ~Shown(q)
    BY <2>1 DEF OnceInv, TokenInv, Calm, Shown
  <2>3. window'[q] = "closed" /\ clock'[q] = clock[q]
    BY <2>1, <2>2, WindowStep DEF WindowMoves
  <2> QED
    BY <2>1, <2>3
<1>3. CASE /\ window'[q] = "closed" /\ clock[q].due > 0 /\ clock[q].spent = clock[q].due
           /\ clock'[q] = clock[q]
    BY <1>3
<1> QED
    BY <1>1, <1>2, <1>3

\* "A switched window therefore lives the LONGER of the two budgets, never their
\* sum" (PromptDialog.h), for every pair of budgets and however often and late the
\* form is switched; and no window expires early.
THEOREM EntryTimeIsKept == Spec => []EntryTimeKept
<1>1. Init => ClockInv /\ ExpiredInv
    BY DEF Init, ClockInv, ExpiredInv, Armed, NoAnswer, NoResult
<1>2. OnceInv /\ ClockInv /\ ExpiredInv => EntryTimeKept
  <2> SUFFICES ASSUME OnceInv, ClockInv, ExpiredInv, NEW p \in Prompts
               PROVE  /\ clock[p].spent <= LongestEntry(ask[p])
                      /\ "timeout" = reply[p].word \/ "Timeout" = result[p].status =>
                           /\ ask[p].budget > 0
                           /\ clock[p].spent >= IF form[p] = "mrz" THEN LongestEntry(ask[p])
                                                ELSE ask[p].budget
    BY DEF EntryTimeKept
  <2>1. /\ ask[p] \in [kind : Kinds, budget : Nat, alt : Nat]
        /\ clock[p] \in [budget : Nat, spent : Nat, due : Nat]
    BY PrompterAssumption DEF OnceInv, TypeInv, AgentType, WindowType
  <2>2. /\ LongestEntry(ask[p]) \in Nat /\ LongestEntry(ask[p]) >= ask[p].budget
        /\ ask[p].budget = 0 => LongestEntry(ask[p]) = 0
        /\ ask[p].budget \in Nat /\ clock[p].spent \in Nat
        /\ clock[p].budget \in Nat /\ clock[p].due \in Nat
    BY <2>1, Longest
  <2>3. CASE window[p] = "none"
    <3>1. clock[p].spent = 0 /\ ~("timeout" = reply[p].word \/ "Timeout" = result[p].status)
        BY <2>3 DEF ClockInv, ExpiredInv
    <3> QED
        BY <2>2, <3>1
  <2>4. CASE window[p] # "none"
    <3>1. /\ clock[p].due = clock[p].budget
          /\ clock[p].spent <= clock[p].due
          /\ clock[p].budget \in {ask[p].budget, LongestEntry(ask[p])}
          /\ form[p] = "mrz" => clock[p].budget = LongestEntry(ask[p])
        BY <2>4 DEF ClockInv
    <3>2. "timeout" = reply[p].word \/ "Timeout" = result[p].status =>
            clock[p].due > 0 /\ clock[p].spent = clock[p].due
        BY DEF ExpiredInv
    <3> QED
        BY <2>2, <3>1, <3>2
  <2> QED
    BY <2>3, <2>4
<1> QED
    BY <1>1, <1>2, ClockStep, ExpiredStep, OnceInvariance, PTL DEF Spec

-----------------------------------------------------------------------------
(* Callers: who asked, under which id, and what ended the call.            *)

Ended == {"done", "stranded", "lost"}

\* A blocked call is of the running agent, and an agent gives an id once.
CallerInv ==
    /\ \A p \in Prompts : owner[p] <= agent
    /\ \A p \in Prompts : call[p] \in {"cleared", "waiting"} => up /\ owner[p] = agent
    /\ \A p \in Prompts : call[p] = "idle" => owner[p] = 0 /\ id[p] = NoId
    /\ \A p, q \in Prompts : id[p] = id[q] /\ id[p] # NoId /\ owner[p] = owner[q] => p = q

\* Given up: the operation was cancelled, or nobody waits for the answer.
Given(p) == p \in cancels \/ call[p] \in Ended

\* Who asked and under which id is settled when a prompt is asked for, and what is
\* given up stays so.
Settled(q) ==
    /\ call'[q] # "idle" /\ owner'[q] = owner[q] /\ id'[q] = id[q]
    /\ call[q] # "cleared" => call'[q] # "cleared"
    /\ Given(q) => Given(q)'

\* Once a prompt is asked for, its caller and its id are settled.
LEMMA CallStep ==
    ASSUME OnceInv, [Next]_vars, NEW q \in Prompts, call[q] # "idle"
    PROVE  Settled(q)
<1> USE DEF agentVars, helperVars, history
<1>0. AgentType
    BY DEF OnceInv, TypeInv
<1>1. ASSUME NEW p \in Prompts, NEW i \in Ids \cup {NoId}, Ask(p, i)
      PROVE  Settled(q)
  <2>1. p # q
    BY <1>1 DEF Ask
  <2>2. call'[q] = call[q] /\ owner'[q] = owner[q] /\ id'[q] = id[q] /\ cancels' = cancels
    BY <1>0, <1>1, <2>1 DEF Ask, AgentType
  <2> QED
    BY <2>2 DEF Settled, Given
<1>2. ASSUME NEW p \in Prompts, Send(p) \/ CallFails(p) \/ Receive(p)
      PROVE  Settled(q)
  <2>1. UNCHANGED <<owner, id, cancels>>
    BY <1>2 DEF Send, CallFails, Receive
  <2>2. /\ call[p] \in {"cleared", "waiting"}
        /\ \E c \in {"waiting", "done", "stranded"} : call' = [call EXCEPT ![p] = c]
    BY <1>2 DEF Send, CallFails, Receive
  <2>3. call'[q] = call[q] \/ (call[q] \notin Ended /\ call'[q] \in {"waiting", "done", "stranded"})
    BY <1>0, <2>2 DEF AgentType, Ended
  <2> QED
    BY <2>1, <2>3 DEF Settled, Given, Ended
<1>3. ASSUME NEW p \in Prompts, OperationCancelled(p)
      PROVE  Settled(q)
    BY <1>3 DEF OperationCancelled, Settled, Given
<1>4. CASE AgentCrash
    BY <1>0, <1>4 DEF AgentCrash, AgentType, Settled, Given, Ended
<1>5. ASSUME NEW p \in Prompts, Holder(p) \/ Tick(p) \/ Deadline(p)
      PROVE  UNCHANGED <<call, owner, id, cancels>>
    BY <1>5 DEF Holder, HolderCancels, HolderAccepts, SwapForm, Tick, Deadline
<1>6. ASSUME AgentStart \/ HelperExit \/ Dispatch \/ QtThread \/ UNCHANGED vars
      PROVE  UNCHANGED <<call, owner, id, cancels>>
    BY <1>6 DEF AgentStart, HelperExit, Dispatch, DispatchRequest, DispatchCancel, DispatchReset,
                QtThread, Raise, Dismiss, Sweep, Reject, vars
<1>7. CASE UNCHANGED <<call, owner, id, cancels>>
    BY <1>7 DEF Settled, Given
<1> QED
    BY <1>1, <1>2, <1>3, <1>4, <1>5, <1>6, <1>7 DEF Next, Worker

\* Every step keeps the asks apart and tied to the running agent.
LEMMA CallerStep == OnceInv /\ CallerInv /\ [Next]_vars => CallerInv'
<1> SUFFICES ASSUME OnceInv, CallerInv, [Next]_vars PROVE CallerInv'
    OBVIOUS
<1> USE DEF agentVars, helperVars, history
<1>0. AgentType
    BY DEF OnceInv, TypeInv
<1>1. ASSUME NEW p \in Prompts, NEW i \in Ids \cup {NoId}, Ask(p, i)
      PROVE  CallerInv'
  <2>1. /\ up /\ call[p] = "idle" /\ UNCHANGED <<agent, up>>
        /\ \A q \in Prompts : owner[q] = agent /\ i # NoId => id[q] # i
    BY <1>1 DEF Ask
  <2>2. /\ owner'[p] = agent /\ id'[p] = i /\ call'[p] # "idle"
        /\ \A q \in Prompts : q # p => owner'[q] = owner[q] /\ id'[q] = id[q] /\ call'[q] = call[q]
    BY <1>0, <1>1 DEF Ask, AgentType
  <2>3. agent <= agent
    BY <1>0 DEF AgentType
  <2>4. \A q, r \in Prompts : id'[q] = id'[r] /\ id'[q] # NoId /\ owner'[q] = owner'[r] => q = r
    BY <2>1, <2>2 DEF CallerInv
  <2>5. /\ \A q \in Prompts : owner'[q] <= agent'
        /\ \A q \in Prompts : call'[q] \in {"cleared", "waiting"} => up' /\ owner'[q] = agent'
        /\ \A q \in Prompts : call'[q] = "idle" => owner'[q] = 0 /\ id'[q] = NoId
    BY <2>1, <2>2, <2>3 DEF CallerInv
  <2> QED
    BY <2>4, <2>5 DEF CallerInv
<1>2. ASSUME NEW p \in Prompts, Send(p) \/ CallFails(p) \/ Receive(p)
      PROVE  CallerInv'
  <2>1. UNCHANGED <<agent, up, owner, id>>
    BY <1>2 DEF Send, CallFails, Receive
  <2>2. /\ call[p] \in {"cleared", "waiting"}
        /\ \E c \in {"waiting", "done", "stranded"} : call' = [call EXCEPT ![p] = c]
    BY <1>2 DEF Send, CallFails, Receive
  <2>3. /\ \A q \in Prompts : call'[q] = "idle" => call[q] = "idle"
        /\ \A q \in Prompts : call'[q] \in {"cleared", "waiting"} => call[q] \in {"cleared", "waiting"}
    BY <1>0, <2>2 DEF AgentType
  <2> QED
    BY <2>1, <2>3 DEF CallerInv
<1>3. CASE AgentCrash
  <2>1. /\ UNCHANGED <<agent, owner, id>>
        /\ \A q \in Prompts : call'[q] \notin {"cleared", "waiting"}
        /\ \A q \in Prompts : call'[q] = "idle" => call[q] = "idle"
    BY <1>3 DEF AgentCrash
  <2> QED
    BY <2>1 DEF CallerInv
<1>4. CASE AgentStart
  <2>1. ~up /\ agent' = agent + 1 /\ UNCHANGED <<call, owner, id>>
    BY <1>4 DEF AgentStart
  <2>2. \A q \in Prompts : call[q] \notin {"cleared", "waiting"}
    BY <2>1 DEF CallerInv
  <2>3. \A q \in Prompts : owner[q] <= agent + 1
    <3> TAKE q \in Prompts
    <3>1. owner[q] \in Nat /\ agent \in Nat
        BY <1>0, PrompterAssumption DEF AgentType, Pids
    <3> QED
        BY <3>1 DEF CallerInv
  <2> QED
    BY <2>1, <2>2, <2>3 DEF CallerInv
<1>5. ASSUME NEW p \in Prompts, OperationCancelled(p) \/ Holder(p) \/ Tick(p) \/ Deadline(p)
      PROVE  UNCHANGED <<agent, up, call, owner, id>>
    BY <1>5 DEF OperationCancelled, Holder, HolderCancels, HolderAccepts, SwapForm, Tick, Deadline
<1>6. ASSUME HelperExit \/ Dispatch \/ QtThread \/ UNCHANGED vars
      PROVE  UNCHANGED <<agent, up, call, owner, id>>
    BY <1>6 DEF HelperExit, Dispatch, DispatchRequest, DispatchCancel, DispatchReset,
                QtThread, Raise, Dismiss, Sweep, Reject, vars
<1>7. CASE UNCHANGED <<agent, up, call, owner, id>>
    BY <1>7 DEF CallerInv
<1> QED
    BY <1>1, <1>2, <1>3, <1>4, <1>5, <1>6, <1>7 DEF Next, Worker

-----------------------------------------------------------------------------
(* The way of a message through the two queues.                            *)

On(s, m) == \E k \in DOMAIN s : s[k] = m

\* One message m is queued before one n.
Before(s, m, n) == \E j, k \in DOMAIN s : j < k /\ s[j] = m /\ s[k] = n

\* A message appended comes after all the others.
LEMMA OnAppended ==
    ASSUME NEW S, NEW s \in Seq(S), NEW e \in S
    PROVE  /\ \A m : On(Append(s, e), m) <=> (On(s, m) \/ m = e)
           /\ \A m, n : Before(Append(s, e), m, n) => Before(s, m, n) \/ (On(s, m) /\ n = e)
<1> DEFINE t == Append(s, e)
           l == Len(s) + 1
<1>1. /\ DOMAIN t = 1..l /\ l \in Nat /\ DOMAIN s = 1..(l - 1)
      /\ \A k \in DOMAIN s : t[k] = s[k]
      /\ t[l] = e
    BY Appended
<1>2. /\ \A k \in DOMAIN t : k = l \/ k \in DOMAIN s
      /\ \A k \in DOMAIN s : k \in DOMAIN t
      /\ l \in DOMAIN t
      /\ \A j, k \in DOMAIN t : j < k => j \in DOMAIN s
    BY <1>1
<1> HIDE DEF t, l
<1>3. \A m : On(t, m) <=> (On(s, m) \/ m = e)
    BY <1>1, <1>2, Zenon DEF On
<1>4. ASSUME NEW m, NEW n, Before(t, m, n)
      PROVE  Before(s, m, n) \/ (On(s, m) /\ n = e)
  <2>1. PICK j \in DOMAIN t, k \in DOMAIN t : j < k /\ t[j] = m /\ t[k] = n
    BY <1>4 DEF Before
  <2>2. j \in DOMAIN s /\ s[j] = m
    BY <1>1, <1>2, <2>1
  <2>3. CASE k = l
    BY <1>1, <2>1, <2>2, <2>3 DEF On
  <2>4. CASE k # l
    BY <1>1, <1>2, <2>1, <2>2, <2>4 DEF Before
  <2> QED
    BY <2>3, <2>4
<1> QED
    BY <1>3, <1>4 DEF t

\* The message taken came before all the others.
LEMMA OnTaken ==
    ASSUME NEW S, NEW s \in Seq(S), s # <<>>
    PROVE  /\ On(s, Head(s)) /\ Head(s) \in S
           /\ \A m : On(Tail(s), m) => On(s, m) /\ Before(s, Head(s), m)
           /\ \A m : On(s, m) => On(Tail(s), m) \/ m = Head(s)
           /\ \A m, n : Before(Tail(s), m, n) => Before(s, m, n)
<1> DEFINE t == Tail(s)
<1>1. /\ Head(s) = s[1] /\ 1 \in DOMAIN s /\ Head(s) \in S
      /\ \A k \in DOMAIN t : k + 1 \in DOMAIN s /\ t[k] = s[k + 1] /\ 1 < k + 1
      /\ \A k \in DOMAIN s : k = 1 \/ (k - 1 \in DOMAIN t /\ t[k - 1] = s[k])
      /\ \A j, k \in DOMAIN t : j < k => j + 1 < k + 1
    BY Taken
<1> HIDE DEF t
<1>2. On(s, Head(s))
    BY <1>1 DEF On
<1>3. \A m : On(t, m) => On(s, m) /\ Before(s, Head(s), m)
    BY <1>1, Zenon DEF On, Before
<1>4. ASSUME NEW m, On(s, m) PROVE On(t, m) \/ m = Head(s)
    BY <1>1, <1>4, Zenon DEF On
<1>5. ASSUME NEW m, NEW n, Before(t, m, n) PROVE Before(s, m, n)
  <2>1. PICK j \in DOMAIN t, k \in DOMAIN t : j < k /\ t[j] = m /\ t[k] = n
    BY <1>5 DEF Before
  <2>2. /\ j + 1 \in DOMAIN s /\ k + 1 \in DOMAIN s /\ j + 1 < k + 1
        /\ s[j + 1] = m /\ s[k + 1] = n
    BY <1>1, <2>1
  <2> QED
    BY <2>2, Zenon DEF Before
<1> QED
    BY <1>1, <1>2, <1>3, <1>4, <1>5 DEF t

\* A lost prefix leaves the order of the rest.
LEMMA OnDropped ==
    ASSUME NEW S, NEW s \in Seq(S), NEW d \in 0..Len(s)
    PROVE  /\ \A m : On(SubSeq(s, d + 1, Len(s)), m) => On(s, m)
           /\ \A m, n : Before(SubSeq(s, d + 1, Len(s)), m, n) => Before(s, m, n)
<1> DEFINE t == SubSeq(s, d + 1, Len(s))
<1>1. \A k \in DOMAIN t : k + d \in DOMAIN s /\ t[k] = s[k + d]
    BY Dropped
<1>2. \A j, k \in DOMAIN t : j < k => j + d < k + d
    BY Dropped
<1> HIDE DEF t
<1>3. \A m : On(t, m) => On(s, m)
    BY <1>1, Zenon DEF On
<1>4. ASSUME NEW m, NEW n, Before(t, m, n) PROVE Before(s, m, n)
    BY <1>1, <1>2, <1>4, Zenon DEF Before
<1> QED
    BY <1>3, <1>4 DEF t

\* The rejects of a sweep come after all that is queued.
LEMMA OnSwept ==
    ASSUME AgentType, NEW s, JobsOf(s), NEW r \in Seq(Prompts)
    PROVE  LET t == s \o [k \in DOMAIN r |-> RejectOf(r[k])] IN
           /\ \A m : On(t, m) => On(s, m) \/ m.do = "reject"
           /\ \A m : On(s, m) => On(t, m)
           /\ \A m, n : Before(t, m, n) => Before(s, m, n) \/ n.do = "reject"
<1> DEFINE t == s \o [k \in DOMAIN r |-> RejectOf(r[k])]
<1>1. /\ \A k \in DOMAIN r : r[k] \in Prompts
      /\ \A k \in DOMAIN s : t[k] = s[k]
      /\ \A k \in DOMAIN t : \/ k \in DOMAIN s
                             \/ k - Len(s) \in DOMAIN r /\ t[k] = RejectOf(r[k - Len(s)])
      /\ DOMAIN s = 1..Len(s) /\ DOMAIN t = 1..(Len(s) + Len(r))
      /\ Len(s) \in Nat /\ Len(r) \in Nat
    BY SweptJobs, LenProperties
<1> HIDE DEF t
<1>2. /\ \A k \in DOMAIN s : k \in DOMAIN t
      /\ \A j, k \in DOMAIN t : j < k /\ k \in DOMAIN s => j \in DOMAIN s
    BY <1>1
<1>3. \A k \in DOMAIN t : (k \in DOMAIN s /\ t[k] = s[k]) \/ t[k].do = "reject"
    BY <1>1, MessageTypes
<1>4. \A m : On(t, m) => On(s, m) \/ m.do = "reject"
    BY <1>3, Zenon DEF On
<1>5. \A m : On(s, m) => On(t, m)
    BY <1>1, <1>2, Zenon DEF On
<1>6. ASSUME NEW m, NEW n, Before(t, m, n) PROVE Before(s, m, n) \/ n.do = "reject"
    BY <1>1, <1>2, <1>3, <1>6, Zenon DEF Before
<1> QED
    BY <1>4, <1>5, <1>6 DEF t

\* What may happen to the calls on the bus.
BusMoves ==
    \/ bus' = bus
    \/ \E p \in Prompts : Send(p) /\ bus' = Append(bus, Request(p))
    \/ \E p \in Prompts : /\ CallFails(p) \/ OperationCancelled(p)
                          /\ bus' = Append(bus, CancelOf(p))
    \/ AgentStart /\ bus' = Append(bus, ResetBy(agent + 1))
    \/ Dispatch /\ bus # <<>> /\ bus' = Tail(bus)
    \/ HelperExit /\ \E d \in 0..Len(bus) : bus' = SubSeq(bus, d + 1, Len(bus))

\* These are the ways a step moves the calls to the helper.
LEMMA BusStep == ASSUME [Next]_vars PROVE BusMoves
<1> USE DEF agentVars, helperVars, history
<1>1. ASSUME NEW p \in Prompts, Worker(p) \/ OperationCancelled(p)
      PROVE  BusMoves
    BY <1>1 DEF Worker, Ask, Send, CallFails, Receive, OperationCancelled, BusMoves
<1>2. ASSUME NEW p \in Prompts, Holder(p) \/ Tick(p) \/ Deadline(p)
      PROVE  BusMoves
    BY <1>2 DEF Holder, HolderCancels, HolderAccepts, SwapForm, Tick, Deadline, BusMoves
<1>3. CASE AgentCrash \/ AgentStart \/ HelperExit
    BY <1>3 DEF AgentCrash, AgentStart, HelperExit, BusMoves
<1>4. CASE Dispatch
    BY <1>4 DEF Dispatch, DispatchRequest, DispatchCancel, DispatchReset, NextCall, BusMoves
<1>5. CASE QtThread \/ UNCHANGED vars
    BY <1>5 DEF QtThread, Raise, Dismiss, Sweep, Reject, vars, BusMoves
<1> QED
    BY <1>1, <1>2, <1>3, <1>4, <1>5 DEF Next

\* What may happen to the jobs of the Qt thread.
GuiMoves ==
    \/ gui' = gui
    \/ /\ Dispatch /\ bus # <<>> /\ bus' = Tail(bus)
       /\ \/ Head(bus).do = "request" /\ gui' = Append(gui, [Head(bus) EXCEPT !.do = "raise"])
          \/ Head(bus).do = "cancel" /\ gui' = Append(gui, [Head(bus) EXCEPT !.do = "dismiss"])
          \/ Head(bus).do = "reset" /\ gui' = Append(gui, [Head(bus) EXCEPT !.do = "sweep"])
    \/ gui # <<>> /\ gui' = Tail(gui)
    \/ gui # <<>> /\ \E k \in DOMAIN registry : gui' = Append(Tail(gui), RejectOf(registry[k]))
    \/ gui # <<>> /\ gui' = Tail(gui) \o [k \in DOMAIN registry |-> RejectOf(registry[k])]
    \/ HelperExit /\ gui' = <<>>

\* These are the ways a step moves the jobs of the Qt thread.
LEMMA GuiStep == ASSUME [Next]_vars PROVE GuiMoves
<1> USE DEF agentVars, helperVars, history
<1>1. ASSUME NEW p \in Prompts, Worker(p) \/ OperationCancelled(p)
      PROVE  GuiMoves
    BY <1>1 DEF Worker, Ask, Send, CallFails, Receive, OperationCancelled, GuiMoves
<1>2. ASSUME NEW p \in Prompts, Holder(p) \/ Tick(p) \/ Deadline(p)
      PROVE  GuiMoves
    BY <1>2 DEF Holder, HolderCancels, HolderAccepts, SwapForm, Tick, Deadline, GuiMoves
<1>3. CASE AgentCrash \/ AgentStart \/ HelperExit \/ UNCHANGED vars
    BY <1>3 DEF AgentCrash, AgentStart, HelperExit, vars, GuiMoves
<1>4. CASE Dispatch
    BY <1>4 DEF Dispatch, DispatchRequest, DispatchCancel, DispatchReset, NextCall, GuiMoves
<1>5. CASE Raise \/ Reject
    BY <1>5 DEF Raise, Reject, RunJob, GuiMoves
<1>6. CASE Dismiss
    BY <1>6 DEF Dismiss, RunJob, Entries, GuiMoves
<1>7. CASE Sweep
    BY <1>7 DEF Sweep, Swept, RunJob, GuiMoves
<1> QED
    BY <1>1, <1>2, <1>3, <1>4, <1>5, <1>6, <1>7 DEF Next, QtThread

\* A call put on the bus by this step.
Newest(n) ==
    \/ \E p \in Prompts : Send(p) /\ n = Request(p)
    \/ \E p \in Prompts : (CallFails(p) \/ OperationCancelled(p)) /\ n = CancelOf(p)
    \/ AgentStart /\ n = ResetBy(agent + 1)

\* A step adds at most a newest call, behind the others.
LEMMA BusQueue ==
    ASSUME OnceInv, [Next]_vars
    PROVE  /\ \A m : On(bus', m) => On(bus, m) \/ Newest(m)
           /\ \A m, n : Before(bus', m, n) => Before(bus, m, n) \/ (On(bus, m) /\ Newest(n))
<1> DEFINE Goal == /\ \A m : On(bus', m) => On(bus, m) \/ Newest(m)
                   /\ \A m, n : Before(bus', m, n) => Before(bus, m, n) \/ (On(bus, m) /\ Newest(n))
<1>0. bus \in Seq(Calls) /\ AgentType
    BY DEF OnceInv, TypeInv, QueueType, CallsOf
<1>1. ASSUME NEW e \in Calls, Newest(e), bus' = Append(bus, e)
      PROVE  Goal
    BY <1>0, <1>1, OnAppended
<1>2. ASSUME NEW p \in Prompts, Send(p), bus' = Append(bus, Request(p))
      PROVE  Goal
  <2>1. Request(p) \in Calls /\ Newest(Request(p))
    BY <1>0, <1>2, MessageTypes DEF Newest
  <2> QED
    BY <1>1, <1>2, <2>1
<1>3. ASSUME NEW p \in Prompts, CallFails(p) \/ OperationCancelled(p), bus' = Append(bus, CancelOf(p))
      PROVE  Goal
  <2>1. CancelOf(p) \in Calls /\ Newest(CancelOf(p))
    BY <1>0, <1>3, MessageTypes DEF Newest
  <2> QED
    BY <1>1, <1>3, <2>1
<1>4. ASSUME AgentStart, bus' = Append(bus, ResetBy(agent + 1))
      PROVE  Goal
  <2>1. agent + 1 \in Pids
    BY <1>0, <1>4, PrompterAssumption DEF AgentStart, AgentType, Pids
  <2>2. ResetBy(agent + 1) \in Calls /\ Newest(ResetBy(agent + 1))
    BY <1>4, <2>1, ResetType DEF Newest
  <2> QED
    BY <1>1, <1>4, <2>2
<1>5. ASSUME bus # <<>>, bus' = Tail(bus)
      PROVE  Goal
    BY <1>0, <1>5, OnTaken
<1>6. ASSUME NEW d \in 0..Len(bus), bus' = SubSeq(bus, d + 1, Len(bus))
      PROVE  Goal
    BY <1>0, <1>6, OnDropped
<1>7. CASE bus' = bus
    BY <1>7
<1> QED
    BY <1>2, <1>3, <1>4, <1>5, <1>6, <1>7, BusStep DEF BusMoves

\* A job the bus thread posted in this step, for the first call on the bus.
Posted(n) ==
    /\ Dispatch /\ bus # <<>> /\ bus' = Tail(bus) /\ Head(bus) \in Calls
    /\ n \in Jobs /\ n.prompt = Head(bus).prompt /\ n.id = Head(bus).id /\ n.by = Head(bus).by
    /\ \/ n.do = "raise" /\ Head(bus).do = "request"
       \/ n.do = "dismiss" /\ Head(bus).do = "cancel"
       \/ n.do = "sweep" /\ Head(bus).do = "reset"

\* A step adds at most what it posts or rejects, behind the other jobs.
LEMMA GuiQueue ==
    ASSUME OnceInv, [Next]_vars
    PROVE  /\ \A m : On(gui', m) => On(gui, m) \/ m.do = "reject" \/ Posted(m)
           /\ \A m, n : Before(gui', m, n) =>
                Before(gui, m, n) \/ n.do = "reject" \/ (On(gui, m) /\ Posted(n))
<1> DEFINE Goal == /\ \A m : On(gui', m) => On(gui, m) \/ m.do = "reject" \/ Posted(m)
                   /\ \A m, n : Before(gui', m, n) =>
                        Before(gui, m, n) \/ n.do = "reject" \/ (On(gui, m) /\ Posted(n))
<1>0. /\ CallsOf(bus) /\ gui \in Seq(Jobs) /\ JobsOf(gui) /\ AgentType
      /\ registry \in Seq(Prompts)
    BY DEF OnceInv, TypeInv, QueueType, JobsOf, WindowType
<1>1. ASSUME Dispatch, bus # <<>>, bus' = Tail(bus), NEW what \in {"raise", "dismiss", "sweep"},
             gui' = Append(gui, [Head(bus) EXCEPT !.do = what]),
             \/ what = "raise" /\ Head(bus).do = "request"
             \/ what = "dismiss" /\ Head(bus).do = "cancel"
             \/ what = "sweep" /\ Head(bus).do = "reset"
      PROVE  Goal
  <2> DEFINE j == [Head(bus) EXCEPT !.do = what]
  <2>1. Head(bus) \in Calls
    BY <1>0, <1>1, CallsKept
  <2>2. /\ j \in Jobs /\ j.do = what /\ j.prompt = Head(bus).prompt
        /\ j.id = Head(bus).id /\ j.by = Head(bus).by
    BY <2>1, PostedType
  <2> HIDE DEF j
  <2>3. Posted(j)
    BY <1>1, <2>1, <2>2 DEF Posted
  <2>4. gui' = Append(gui, j)
    BY <1>1 DEF j
  <2> QED
    BY <1>0, <2>2, <2>3, <2>4, OnAppended
<1>2. ASSUME gui # <<>>
      PROVE  /\ Tail(gui) \in Seq(Jobs) /\ JobsOf(Tail(gui))
             /\ \A m : On(Tail(gui), m) => On(gui, m)
             /\ \A m, n : Before(Tail(gui), m, n) => Before(gui, m, n)
    BY <1>0, <1>2, OnTaken, JobsKept, Taken
<1>3. ASSUME gui # <<>>, gui' = Tail(gui)
      PROVE  Goal
    BY <1>2, <1>3
<1>4. ASSUME gui # <<>>, NEW k \in DOMAIN registry, gui' = Append(Tail(gui), RejectOf(registry[k]))
      PROVE  Goal
  <2>1. registry[k] \in Prompts
    BY <1>0, LenProperties
  <2>2. RejectOf(registry[k]) \in Jobs /\ RejectOf(registry[k]).do = "reject"
    BY <1>0, <2>1, MessageTypes
  <2>3. /\ \A m : On(gui', m) <=> (On(Tail(gui), m) \/ m = RejectOf(registry[k]))
        /\ \A m, n : Before(gui', m, n) =>
             Before(Tail(gui), m, n) \/ (On(Tail(gui), m) /\ n = RejectOf(registry[k]))
    BY <1>2, <1>4, <2>2, OnAppended
  <2> QED
    BY <1>2, <1>4, <2>2, <2>3, Zenon
<1>5. ASSUME gui # <<>>, gui' = Tail(gui) \o [k \in DOMAIN registry |-> RejectOf(registry[k])]
      PROVE  Goal
  <2>1. /\ \A m : On(gui', m) => On(Tail(gui), m) \/ m.do = "reject"
        /\ \A m, n : Before(gui', m, n) => Before(Tail(gui), m, n) \/ n.do = "reject"
    BY <1>0, <1>2, <1>5, OnSwept
  <2> QED
    BY <1>2, <1>5, <2>1, Zenon
<1>6. CASE gui' = <<>>
    BY <1>6 DEF On, Before
<1>7. CASE gui' = gui
    BY <1>7
<1> QED
    BY <1>1, <1>3, <1>4, <1>5, <1>6, <1>7, GuiStep DEF GuiMoves

\* A message of the bus or a job about a prompt names one whose call has begun.
LEMMA NamedByOne ==
    ASSUME OnceInv, NEW m
    PROVE  /\ On(bus, m) /\ m.do = "request" =>
                m.prompt \in Prompts /\ Names(bus, "request", m.prompt) /\ call[m.prompt] # "idle"
           /\ On(gui, m) /\ m.do = "raise" =>
                m.prompt \in Prompts /\ Names(gui, "raise", m.prompt) /\ call[m.prompt] # "idle"
<1>1. ASSUME On(bus, m), m.do = "request"
      PROVE  m.prompt \in Prompts /\ Names(bus, "request", m.prompt)
    BY <1>1 DEF On, Names, OnceInv, TypeInv, QueueType, CallsOf
<1>2. ASSUME On(gui, m), m.do = "raise"
      PROVE  m.prompt \in Prompts /\ Names(gui, "raise", m.prompt)
    BY <1>2 DEF On, Names, OnceInv, TypeInv, QueueType, JobsOf
<1> QED
    BY <1>1, <1>2 DEF OnceInv, TokenInv

\* A shown window's call has begun.
LEMMA ShownWasAsked ==
    ASSUME OnceInv, NEW p \in Prompts, Shown(p) \/ Names(gui, "raise", p) \/ Names(bus, "request", p)
    PROVE  call[p] \notin {"idle", "cleared"}
    BY DEF OnceInv, TokenInv, Calm, Shown

-----------------------------------------------------------------------------
(* A Reset comes after everything its predecessors sent and before         *)
(* everything its own agent sends.                                         *)

BusOrder ==
    /\ \A m : On(bus, m) /\ m.do = "reset" => m.by <= agent
    /\ \A m, n : Before(bus, m, n) /\ m.do = "request" /\ n.do = "reset" => owner[m.prompt] < n.by
    /\ \A m, n : Before(bus, m, n) /\ m.do = "reset" /\ n.do = "request" => m.by <= owner[n.prompt]

\* What is raised, or about to be, is older than a Reset behind it.
ResetOrder ==
    /\ \A p \in Prompts : \A n :
         (Shown(p) \/ Names(gui, "raise", p)) /\ On(bus, n) /\ n.do = "reset" => owner[p] < n.by
    /\ \A m, n : Before(gui, m, n) /\ m.do = "raise" /\ n.do = "sweep" => owner[m.prompt] < n.by
    /\ \A p \in Prompts : \A n : Shown(p) /\ On(gui, n) /\ n.do = "sweep" => owner[p] < n.by

ServedOrder ==
    /\ resetBy <= agent
    /\ \A n : On(gui, n) /\ n.do = "sweep" => n.by <= agent
    /\ \A p \in Prompts : Names(bus, "request", p) => resetBy <= owner[p]

OrderInv == BusOrder /\ ResetOrder /\ ServedOrder

\* Agents come one after the other.
LEMMA AgentGrows ==
    ASSUME OnceInv, [Next]_vars
    PROVE  agent \in Nat /\ agent' \in Nat /\ agent <= agent' /\ (AgentStart => agent' = agent + 1)
<1> USE DEF agentVars, helperVars, history
<1>0. agent \in Nat /\ AgentType
    BY PrompterAssumption DEF OnceInv, TypeInv, AgentType
<1>1. ASSUME NEW p \in Prompts,
             Worker(p) \/ OperationCancelled(p) \/ Holder(p) \/ Tick(p) \/ Deadline(p)
      PROVE  agent' = agent
    BY <1>1 DEF Worker, Ask, Send, CallFails, Receive, OperationCancelled, Holder, HolderCancels,
                HolderAccepts, SwapForm, Tick, Deadline
<1>2. ASSUME AgentCrash \/ HelperExit \/ Dispatch \/ QtThread \/ UNCHANGED vars
      PROVE  agent' = agent
    BY <1>2 DEF AgentCrash, HelperExit, Dispatch, DispatchRequest, DispatchCancel, DispatchReset,
                QtThread, Raise, Dismiss, Sweep, Reject, vars
<1>3. AgentStart => agent' = agent + 1
    BY DEF AgentStart
<1>4. agent' = agent \/ agent' = agent + 1
    BY <1>1, <1>2, <1>3 DEF Next
<1> QED
    BY <1>0, <1>3, <1>4

\* A Reset put on the bus is of the agent that starts; a request, of the one that runs.
LEMMA NewestBy ==
    ASSUME OnceInv, CallerInv, [Next]_vars, NEW n, Newest(n)
    PROVE  /\ n.do = "reset" => n.by = agent + 1 /\ n.by = agent' /\ AgentStart
           /\ n.do = "request" => n.prompt \in Prompts /\ owner[n.prompt] = agent
                                  /\ call[n.prompt] # "idle"
           /\ n.do = "cancel" => \E p \in Prompts : n.id = id[p] /\ n.by = owner[p]
                                    /\ (CallFails(p) \/ OperationCancelled(p))
<1>0. AgentType
    BY DEF OnceInv, TypeInv
<1>1. ASSUME NEW p \in Prompts, Send(p), n = Request(p)
      PROVE  n.do = "request" /\ n.prompt = p /\ owner[p] = agent /\ call[p] # "idle"
    BY <1>0, <1>1, MessageTypes DEF Send, Running
<1>2. ASSUME NEW p \in Prompts, CallFails(p) \/ OperationCancelled(p), n = CancelOf(p)
      PROVE  n.do = "cancel" /\ n.id = id[p] /\ n.by = owner[p]
    BY <1>0, <1>2, MessageTypes
<1>3. ASSUME AgentStart, n = ResetBy(agent + 1)
      PROVE  n.do = "reset" /\ n.by = agent + 1 /\ n.by = agent'
  <2>1. agent + 1 \in Pids
    BY <1>0, <1>3, PrompterAssumption DEF AgentStart, AgentType, Pids
  <2> QED
    BY <1>3, <2>1, ResetType, AgentGrows
<1> QED
    BY <1>1, <1>2, <1>3 DEF Newest

\* An owner is a process that was started.
LEMMA OwnerTypes ==
    ASSUME OnceInv, CallerInv, NEW p \in Prompts
    PROVE  owner[p] \in Nat /\ agent \in Nat /\ owner[p] <= agent
    BY PrompterAssumption DEF OnceInv, TypeInv, AgentType, Pids, CallerInv

\* Who sent a queued message is a process.
LEMMA ByTypes ==
    ASSUME OnceInv, NEW m
    PROVE  (On(bus, m) => m.by \in Nat) /\ (On(gui, m) => m.by \in Nat)
<1>1. On(bus, m) => m \in Calls
    BY LenProperties DEF On, OnceInv, TypeInv, QueueType, CallsOf
<1>2. On(gui, m) => m \in Jobs
    BY LenProperties DEF On, OnceInv, TypeInv, QueueType, JobsOf
<1> QED
    BY <1>1, <1>2, PrompterAssumption DEF Calls, Jobs, Pids

\* A message that stays behind another was queued itself.
LEMMA BeforeOn ==
    ASSUME NEW s, NEW m, NEW n, Before(s, m, n)
    PROVE  On(s, m) /\ On(s, n)
    BY DEF Before, On

\* Every step keeps the calls of successive agents in their order.
LEMMA BusOrderStep ==
    ASSUME OnceInv, CallerInv, OrderInv, [Next]_vars
    PROVE  BusOrder'
<1>1. ASSUME NEW m, On(bus', m), m.do = "reset"
      PROVE  m.by <= agent'
  <2>1. CASE On(bus, m)
    BY <1>1, <2>1, AgentGrows, ByTypes DEF OrderInv, BusOrder
  <2>2. CASE Newest(m)
    BY <1>1, <2>2, NewestBy, AgentGrows
  <2> QED
    BY <1>1, <2>1, <2>2, BusQueue
<1>2. ASSUME NEW m, NEW n, Before(bus', m, n), m.do = "request", n.do = "reset"
      PROVE  owner'[m.prompt] < n.by
  <2>1. On(bus, m)
    BY <1>2, BusQueue, BeforeOn
  <2>2. m.prompt \in Prompts /\ owner'[m.prompt] = owner[m.prompt]
    BY <1>2, <2>1, NamedByOne, CallStep DEF Settled
  <2>3. CASE Before(bus, m, n)
    BY <1>2, <2>2, <2>3 DEF OrderInv, BusOrder
  <2>4. CASE Newest(n)
    BY <1>2, <2>2, <2>4, NewestBy, OwnerTypes
  <2> QED
    BY <1>2, <2>3, <2>4, BusQueue
<1>3. ASSUME NEW m, NEW n, Before(bus', m, n), m.do = "reset", n.do = "request"
      PROVE  m.by <= owner'[n.prompt]
  <2>1. CASE Before(bus, m, n)
    <3>1. On(bus, n)
        BY <2>1, BeforeOn
    <3>2. owner'[n.prompt] = owner[n.prompt]
        BY <1>3, <3>1, NamedByOne, CallStep DEF Settled
    <3> QED
        BY <1>3, <2>1, <3>2 DEF OrderInv, BusOrder
  <2>2. CASE On(bus, m) /\ Newest(n)
    <3>1. n.prompt \in Prompts /\ owner[n.prompt] = agent /\ call[n.prompt] # "idle"
        BY <1>3, <2>2, NewestBy
    <3>2. owner'[n.prompt] = agent
        BY <3>1, CallStep DEF Settled
    <3> QED
        BY <1>3, <2>2, <3>2 DEF OrderInv, BusOrder
  <2> QED
    BY <1>3, <2>1, <2>2, BusQueue
<1> QED
    BY <1>1, <1>2, <1>3 DEF BusOrder

\* Every step keeps a Reset behind the prompts of earlier agents only.
LEMMA ResetOrderStep ==
    ASSUME OnceInv, CallerInv, OrderInv, [Next]_vars
    PROVE  ResetOrder'
<1>1. ASSUME NEW p \in Prompts, NEW n, Shown(p)' \/ Names(gui', "raise", p), On(bus', n), n.do = "reset"
      PROVE  owner'[p] < n.by
  <2>1. Shown(p) \/ Names(gui, "raise", p) \/ Names(bus, "request", p)
    BY <1>1, WindowStep, RaisesQueued DEF WindowMoves, Shown
  <2>2. owner'[p] = owner[p]
    BY <2>1, ShownWasAsked, CallStep DEF Settled
  <2>3. CASE Newest(n)
    BY <1>1, <2>2, <2>3, NewestBy, OwnerTypes
  <2>4. CASE On(bus, n) /\ (Shown(p) \/ Names(gui, "raise", p))
    BY <1>1, <2>2, <2>4 DEF OrderInv, ResetOrder
  <2>5. CASE On(bus, n) /\ ~(Shown(p) \/ Names(gui, "raise", p))
    <3>1. Names(gui', "raise", p)
        BY <1>1, <2>5, WindowStep DEF WindowMoves, Shown
    <3>2. PICK m : On(gui', m) /\ m.do = "raise" /\ m.prompt = p
        BY <3>1, Zenon DEF Names, On
    <3>3. ~On(gui, m)
        BY <2>5, <3>2, NamedByOne
    <3>4. Posted(m)
        BY <3>2, <3>3, GuiQueue
    <3>5. /\ bus # <<>> /\ bus' = Tail(bus)
          /\ Head(bus).do = "request" /\ Head(bus).prompt = p
        BY <3>2, <3>4 DEF Posted
    <3>6. Before(bus, Head(bus), n)
        BY <1>1, <3>5, OnTaken DEF OnceInv, TypeInv, QueueType, CallsOf
    <3> QED
        BY <1>1, <2>2, <3>5, <3>6 DEF OrderInv, BusOrder
  <2> QED
    BY <1>1, <2>3, <2>4, <2>5, BusQueue
<1>2. ASSUME NEW m, NEW n, Before(gui', m, n), m.do = "raise", n.do = "sweep"
      PROVE  owner'[m.prompt] < n.by
  <2>1. Before(gui, m, n) \/ (On(gui, m) /\ Posted(n))
    BY <1>2, GuiQueue
  <2>2. On(gui, m)
    BY <2>1, BeforeOn
  <2>3. /\ m.prompt \in Prompts /\ Names(gui, "raise", m.prompt)
        /\ owner'[m.prompt] = owner[m.prompt]
    BY <1>2, <2>2, NamedByOne, CallStep DEF Settled
  <2>4. CASE Before(gui, m, n)
    BY <1>2, <2>3, <2>4 DEF OrderInv, ResetOrder
  <2>5. CASE Posted(n)
    <3>1. bus # <<>> /\ Head(bus).do = "reset" /\ Head(bus).by = n.by
        BY <1>2, <2>5 DEF Posted
    <3>2. On(bus, Head(bus))
        BY <3>1, OnTaken DEF OnceInv, TypeInv, QueueType, CallsOf
    <3> QED
        BY <2>3, <3>1, <3>2 DEF OrderInv, ResetOrder
  <2> QED
    BY <2>1, <2>4, <2>5
<1>3. ASSUME NEW p \in Prompts, NEW n, Shown(p)', On(gui', n), n.do = "sweep"
      PROVE  owner'[p] < n.by
  <2>1. \/ Shown(p)
        \/ Names(gui, "raise", p) /\ Raise /\ Head(gui).prompt = p
    BY <1>3, WindowStep DEF WindowMoves, Shown
  <2>2. owner'[p] = owner[p]
    BY <2>1, ShownWasAsked, CallStep DEF Settled
  <2>3. CASE Shown(p) /\ On(gui, n)
    BY <1>3, <2>2, <2>3 DEF OrderInv, ResetOrder
  <2>4. CASE Shown(p) /\ Posted(n)
    <3>1. bus # <<>> /\ Head(bus).do = "reset" /\ Head(bus).by = n.by
        BY <1>3, <2>4 DEF Posted
    <3>2. On(bus, Head(bus))
        BY <3>1, OnTaken DEF OnceInv, TypeInv, QueueType, CallsOf
    <3> QED
        BY <2>2, <2>4, <3>1, <3>2 DEF OrderInv, ResetOrder
  <2>5. CASE Raise /\ Head(gui).prompt = p
    <3>1. gui # <<>> /\ gui' = Tail(gui) /\ Head(gui).do = "raise"
        BY <2>5 DEF Raise, RunJob
    <3>2. Before(gui, Head(gui), n)
        BY <1>3, <3>1, OnTaken DEF OnceInv, TypeInv, QueueType, JobsOf
    <3> QED
        BY <1>3, <2>2, <2>5, <3>1, <3>2 DEF OrderInv, ResetOrder
  <2> QED
    BY <1>3, <2>1, <2>3, <2>4, <2>5, GuiQueue
<1> QED
    BY <1>1, <1>2, <1>3 DEF ResetOrder

\* Only a Reset served moves what was swept last.
LEMMA ResetServed ==
    ASSUME OnceInv, [Next]_vars
    PROVE  \/ resetBy' = resetBy
           \/ /\ bus # <<>> /\ bus' = Tail(bus) /\ Head(bus).do = "reset" /\ resetBy' = Head(bus).by
              /\ gui' = Append(gui, [Head(bus) EXCEPT !.do = "sweep"]) /\ UNCHANGED <<agent, window>>
<1> USE DEF agentVars, helperVars, history
<1>1. ASSUME NEW p \in Prompts,
             Worker(p) \/ OperationCancelled(p) \/ Holder(p) \/ Tick(p) \/ Deadline(p)
      PROVE  resetBy' = resetBy
    BY <1>1 DEF Worker, Ask, Send, CallFails, Receive, OperationCancelled, Holder, HolderCancels,
                HolderAccepts, SwapForm, Tick, Deadline
<1>2. ASSUME \/ AgentCrash \/ AgentStart \/ HelperExit \/ DispatchRequest \/ DispatchCancel
             \/ QtThread \/ UNCHANGED vars
      PROVE  resetBy' = resetBy
    BY <1>2 DEF AgentCrash, AgentStart, HelperExit, DispatchRequest, DispatchCancel,
                QtThread, Raise, Dismiss, Sweep, Reject, vars
<1>3. CASE DispatchReset
    BY <1>3 DEF DispatchReset, NextCall
<1> QED
    BY <1>1, <1>2, <1>3 DEF Next, Dispatch

\* Every step keeps what is still on the bus behind the Reset served last.
LEMMA ServedOrderStep ==
    ASSUME OnceInv, CallerInv, OrderInv, [Next]_vars
    PROVE  ServedOrder'
<1>0. bus \in Seq(Calls) /\ resetBy \in Nat
    BY PrompterAssumption DEF OnceInv, TypeInv, QueueType, CallsOf, RestType, Pids
<1>1. bus # <<>> => On(bus, Head(bus))
    BY <1>0, OnTaken
<1>2. resetBy' <= agent'
  <2>1. CASE resetBy' = resetBy
    BY <1>0, <2>1, AgentGrows DEF OrderInv, ServedOrder
  <2>2. CASE bus # <<>> /\ Head(bus).do = "reset" /\ resetBy' = Head(bus).by
    BY <1>1, <2>2, AgentGrows, ByTypes DEF OrderInv, BusOrder
  <2> QED
    BY <2>1, <2>2, ResetServed
<1>3. ASSUME NEW n, On(gui', n), n.do = "sweep"
      PROVE  n.by <= agent'
  <2>1. CASE On(gui, n)
    BY <1>3, <2>1, AgentGrows, ByTypes DEF OrderInv, ServedOrder
  <2>2. CASE Posted(n)
    <3>1. bus # <<>> /\ Head(bus).do = "reset" /\ Head(bus).by = n.by
        BY <1>3, <2>2 DEF Posted
    <3> QED
        BY <1>1, <3>1, AgentGrows, ByTypes DEF OrderInv, BusOrder
  <2> QED
    BY <1>3, <2>1, <2>2, GuiQueue
<1>4. ASSUME NEW p \in Prompts, Names(bus', "request", p)
      PROVE  resetBy' <= owner'[p]
  <2>1. call[p] # "idle"
    BY <1>4, RequestsQueued, ShownWasAsked
  <2>2. owner'[p] = owner[p]
    BY <2>1, CallStep DEF Settled
  <2>3. CASE resetBy' = resetBy
    <3>1. CASE Names(bus, "request", p)
        BY <2>2, <2>3, <3>1 DEF OrderInv, ServedOrder
    <3>2. CASE Send(p)
      <4>1. owner[p] = agent
        BY <3>2 DEF Send, Running
      <4> QED
        BY <2>2, <2>3, <4>1 DEF OrderInv, ServedOrder
    <3> QED
        BY <1>4, <3>1, <3>2, RequestsQueued
  <2>4. CASE bus # <<>> /\ bus' = Tail(bus) /\ Head(bus).do = "reset" /\ resetBy' = Head(bus).by
    <3>1. PICK n : On(bus', n) /\ n.do = "request" /\ n.prompt = p
        BY <1>4, Zenon DEF Names, On
    <3>2. Before(bus, Head(bus), n)
        BY <1>0, <2>4, <3>1, OnTaken
    <3> QED
        BY <2>2, <2>4, <3>1, <3>2 DEF OrderInv, BusOrder
  <2> QED
    BY <2>3, <2>4, ResetServed
<1> QED
    BY <1>2, <1>3, <1>4 DEF ServedOrder

-----------------------------------------------------------------------------
(* Who closes a window somebody waits for.                                 *)

\* A Cancel of id i by pid b is about a prompt that was given up.
Cancelled(i, b) == \E p \in Prompts : call[p] # "idle" /\ id[p] = i /\ owner[p] = b /\ Given(p)

CancelInv ==
    /\ \A m : On(bus, m) /\ m.do = "cancel" => Cancelled(m.id, m.by)
    /\ \A m : On(gui, m) /\ m.do = "dismiss" => Cancelled(m.id, m.by)
    /\ \A p \in Prompts : Names(gui, "reject", p) => Given(p)
    /\ \A p \in Prompts : reply[p].word = "cancelled" => p \in declined \/ Given(p)

\* A prompt that was given up stays so.
LEMMA CancelledStays ==
    ASSUME OnceInv, [Next]_vars, NEW i, NEW b, Cancelled(i, b)
    PROVE  Cancelled(i, b)'
    BY CallStep DEF Cancelled, Settled

\* What was declined or cancelled is not forgotten.
LEMMA HistoryGrows ==
    ASSUME [Next]_vars
    PROVE  declined \subseteq declined' /\ cancels \subseteq cancels'
<1> USE DEF agentVars, helperVars, history
<1>1. ASSUME NEW p \in Prompts,
             Worker(p) \/ OperationCancelled(p) \/ Holder(p) \/ Tick(p) \/ Deadline(p)
      PROVE  declined \subseteq declined' /\ cancels \subseteq cancels'
    BY <1>1 DEF Worker, Ask, Send, CallFails, Receive, OperationCancelled, Holder, HolderCancels,
                HolderAccepts, SwapForm, Tick, Deadline
<1>2. ASSUME AgentCrash \/ AgentStart \/ HelperExit \/ Dispatch \/ QtThread \/ UNCHANGED vars
      PROVE  UNCHANGED <<declined, cancels>>
    BY <1>2 DEF AgentCrash, AgentStart, HelperExit, Dispatch, DispatchRequest, DispatchCancel,
                DispatchReset, QtThread, Raise, Dismiss, Sweep, Reject, vars
<1> QED
    BY <1>1, <1>2 DEF Next

\* A window told to reject was given up: the dismissal carries its own id and its
\* own caller, and a sweep meets only windows of agents that are gone.
LEMMA ToldIsGiven ==
    ASSUME OnceInv, CallerInv, OrderInv, CancelInv, NEW q \in Prompts, ToldBy(q)
    PROVE  Given(q)
<1>0. gui \in Seq(Jobs) /\ AgentType
    BY DEF OnceInv, TypeInv, QueueType, JobsOf
<1>1. On(gui, Head(gui)) /\ Shown(q)
    BY <1>0, OnTaken DEF ToldBy
<1>2. CASE /\ Head(gui).do = "dismiss" /\ Head(gui).id # NoId
           /\ Head(gui).id = id[q] /\ Head(gui).by = owner[q]
  <2>1. PICK p \in Prompts : id[p] = Head(gui).id /\ owner[p] = Head(gui).by /\ Given(p)
    BY <1>1, <1>2 DEF CancelInv, Cancelled
  <2>2. p = q
    BY <1>2, <2>1 DEF CallerInv
  <2> QED
    BY <2>1, <2>2
<1>3. CASE Head(gui).do = "sweep"
  <2>1. owner[q] < Head(gui).by /\ Head(gui).by <= agent /\ Head(gui).by \in Nat
    BY <1>1, <1>3, ByTypes DEF OrderInv, ResetOrder, ServedOrder
  <2>2. owner[q] # agent
    BY <2>1, OwnerTypes
  <2>3. call[q] \notin {"idle", "cleared", "waiting"}
    BY <1>1, <2>2, ShownWasAsked DEF CallerInv
  <2> QED
    BY <1>0, <2>3 DEF Given, Ended, AgentType
<1> QED
    BY <1>2, <1>3 DEF ToldBy

\* Every step keeps dismissals to prompts that were given up.
LEMMA CancelStep ==
    ASSUME OnceInv, CallerInv, OrderInv, CancelInv, [Next]_vars
    PROVE  CancelInv'
<1>0. bus \in Seq(Calls) /\ AgentType
    BY DEF OnceInv, TypeInv, QueueType, CallsOf
<1>1. ASSUME NEW m, On(bus', m), m.do = "cancel"
      PROVE  Cancelled(m.id, m.by)'
  <2>1. CASE On(bus, m)
    BY <1>1, <2>1, CancelledStays DEF CancelInv
  <2>2. CASE Newest(m)
    <3>1. PICK p \in Prompts : /\ m.id = id[p] /\ m.by = owner[p]
                               /\ CallFails(p) \/ OperationCancelled(p)
        BY <1>1, <2>2, NewestBy
    <3>2. call[p] # "idle" /\ Given(p)'
        BY <1>0, <3>1 DEF CallFails, OperationCancelled, Given, Ended, AgentType
    <3>3. call'[p] # "idle" /\ id'[p] = id[p] /\ owner'[p] = owner[p]
        BY <3>2, CallStep DEF Settled
    <3> QED
        BY <3>1, <3>2, <3>3 DEF Cancelled
  <2> QED
    BY <1>1, <2>1, <2>2, BusQueue
<1>2. ASSUME NEW m, On(gui', m), m.do = "dismiss"
      PROVE  Cancelled(m.id, m.by)'
  <2>1. CASE On(gui, m)
    BY <1>2, <2>1, CancelledStays DEF CancelInv
  <2>2. CASE Posted(m)
    <3>1. bus # <<>> /\ Head(bus).do = "cancel" /\ m.id = Head(bus).id /\ m.by = Head(bus).by
        BY <1>2, <2>2 DEF Posted
    <3>2. On(bus, Head(bus))
        BY <1>0, <3>1, OnTaken
    <3>3. Cancelled(m.id, m.by)
        BY <3>1, <3>2 DEF CancelInv
    <3> QED
        BY <3>3, CancelledStays
  <2> QED
    BY <1>2, <2>1, <2>2, GuiQueue
<1>3. ASSUME NEW p \in Prompts, Given(p), call[p] # "idle"
      PROVE  Given(p)'
    BY <1>3, CallStep DEF Settled
<1>4. ASSUME NEW p \in Prompts, Names(gui', "reject", p)
      PROVE  Given(p)'
  <2>1. Given(p)
    BY <1>4, RejectsQueued, ToldIsGiven DEF CancelInv
  <2>2. window[p] # "none"
    BY <1>4, RejectsQueued DEF OnceInv, RejectInv, ToldBy, Shown
  <2>3. call[p] # "idle"
    BY <2>2 DEF OnceInv, TokenInv, Calm
  <2> QED
    BY <1>3, <2>1, <2>3
<1>5. ASSUME NEW p \in Prompts, reply'[p].word = "cancelled"
      PROVE  p \in declined' \/ Given(p)'
  <2>1. CASE reply'[p] = reply[p]
    <3>1. p \in declined \/ Given(p)
        BY <1>5, <2>1 DEF CancelInv
    <3>2. p \in cancels => Given(p)'
      <4>1. cancels \subseteq cancels'
        BY HistoryGrows
      <4> QED
        BY <4>1 DEF Given
    <3>3. call[p] \in Ended => Given(p)'
        BY <1>3 DEF Given, Ended
    <3> QED
        BY <3>1, <3>2, <3>3, HistoryGrows DEF Given
  <2>2. reply'[p] # NoAnswer
    BY <1>5 DEF NoAnswer
  <2>3. ASSUME NEW word \in {"error", "unauthorized", "timeout"},
               reply'[p] = [word |-> word, fd |-> NoSecret]
        PROVE  FALSE
    BY <1>5, <2>3
  <2>4. reply'[p] # [word |-> OkWord(p), fd |-> form[p]]
    BY <1>5 DEF OkWord
  <2>5. CASE call[p] = "waiting" /\ (Names(gui, "reject", p) \/ p \in declined')
    BY <1>3, <2>5 DEF CancelInv
  <2> QED
    BY <2>1, <2>2, <2>3, <2>4, <2>5, ReplyStep DEF Answers
<1> QED
    BY <1>1, <1>2, <1>4, <1>5, Zenon DEF CancelInv

\* The asks and the order of the messages hold for every step.
THEOREM OrderInvariance == Spec => [](CallerInv /\ OrderInv)
<1>1. Init => CallerInv /\ OrderInv
  <2> SUFFICES ASSUME Init PROVE CallerInv /\ OrderInv
    OBVIOUS
  <2>1. CallerInv
    BY DEF Init, CallerInv
  <2>2. (\A m : ~On(bus, m) /\ ~On(gui, m)) /\ (\A m, n : ~Before(bus, m, n) /\ ~Before(gui, m, n))
    BY DEF Init, On, Before
  <2>3. (\A p : ~Names(bus, "request", p)) /\ resetBy <= agent
    BY DEF Init, Names
  <2> QED
    BY <2>1, <2>2, <2>3 DEF OrderInv, BusOrder, ResetOrder, ServedOrder
<1>2. OnceInv /\ CallerInv /\ OrderInv /\ [Next]_vars => CallerInv' /\ OrderInv'
    BY CallerStep, BusOrderStep, ResetOrderStep, ServedOrderStep DEF OrderInv
<1> QED
    BY <1>1, <1>2, OnceInvariance, PTL DEF Spec

\* A worker is told "cancelled" only if the holder declined that very window or its
\* own operation was cancelled: no other prompt's Cancel, no Cancel of a
\* predecessor that minted the same id and no Reset closes a window somebody still
\* waits for (PrompterService::dismissOnGuiThread, AgentService::registerOnBus).
THEOREM CancelledIsTrue == Spec => []CancelledIsTruthful
<1> DEFINE Inv == CancelInv /\ CancelledIsTruthful
<1>1. Init => Inv
  <2> SUFFICES ASSUME Init PROVE Inv
    OBVIOUS
  <2>1. CancelInv
    <3>1. \A m : ~On(bus, m) /\ ~On(gui, m)
        BY DEF Init, On
    <3>2. \A p \in Prompts : ~Names(gui, "reject", p) /\ reply[p].word # "cancelled"
        BY DEF Init, Names, NoAnswer
    <3> QED
        BY <3>1, <3>2 DEF CancelInv
  <2>2. CancelledIsTruthful
    BY DEF Init, CancelledIsTruthful, NoResult
  <2> QED
    BY <2>1, <2>2
<1>2. OnceInv /\ CallerInv /\ OrderInv /\ Inv /\ [Next]_vars => Inv'
  <2> SUFFICES ASSUME OnceInv, CallerInv, OrderInv, Inv, [Next]_vars PROVE Inv'
    OBVIOUS
  <2>1. CancelInv'
    BY CancelStep
  <2>2. ASSUME NEW q \in Prompts, result'[q].status = "Cancelled"
        PROVE  q \in declined' \cup cancels'
    <3>1. CASE result'[q] = result[q]
        BY <2>2, <3>1, HistoryGrows DEF CancelledIsTruthful
    <3>2. ASSUME NEW status \in {"Error", "HelperTooOld"}, result'[q] = Failed(status)
          PROVE  FALSE
        BY <2>2, <3>2 DEF Failed
    <3>3. ASSUME NEW readable \in BOOLEAN, result'[q] = Parsed(q, readable), call[q] = "waiting"
          PROVE  q \in declined' \cup cancels'
      <4> DEFINE status == Status(reply[q].word, ask[q].kind = "offer")
      <4>1. status = "Cancelled"
        BY <2>2, <3>3 DEF Parsed, Failed
      <4>2. reply[q].word = "cancelled"
        BY <4>1 DEF Status
      <4>3. q \in declined \/ q \in cancels
        BY <3>3, <4>2 DEF CancelInv, Given, Ended
      <4> QED
        BY <4>3, HistoryGrows
    <3> QED
        BY <3>1, <3>2, <3>3, ResultStep DEF Results
  <2> QED
    BY <2>1, <2>2 DEF CancelledIsTruthful
<1> QED
    BY <1>1, <1>2, OnceInvariance, OrderInvariance, PTL DEF Spec

-----------------------------------------------------------------------------
(* What is due on a window: a job that will close it runs after it is      *)
(* raised.                                                                 *)

\* One of the jobs M is queued.
Queued(s, M) == \E k \in DOMAIN s : s[k] \in M

\* One of the jobs M is queued behind the job that raises p.
Behind(s, p, M) ==
    \A j \in DOMAIN s : s[j].do = "raise" /\ s[j].prompt = p => \E k \in DOMAIN s : j < k /\ s[k] \in M

\* A posted job leaves the order of the others, and is behind them all.
LEMMA BehindAppended ==
    ASSUME NEW S, NEW s \in Seq(S), NEW e \in S, NEW p, NEW M
    PROVE  /\ Queued(Append(s, e), M) <=> Queued(s, M) \/ e \in M
           /\ Behind(s, p, M) /\ ~(e.do = "raise" /\ e.prompt = p) => Behind(Append(s, e), p, M)
           /\ e \in M /\ e.do # "raise" => Behind(Append(s, e), p, M)
<1> DEFINE t == Append(s, e)
           l == Len(s) + 1
<1>1. /\ DOMAIN t = 1..l /\ l \in Nat /\ DOMAIN s = 1..(l - 1)
      /\ \A k \in DOMAIN s : t[k] = s[k]
      /\ t[l] = e
    BY Appended
<1>2. /\ \A k \in DOMAIN t : k = l \/ k \in DOMAIN s
      /\ \A k \in DOMAIN s : k \in DOMAIN t /\ k < l
      /\ l \in DOMAIN t
    BY <1>1
<1> HIDE DEF t, l
<1>3. Queued(t, M) <=> Queued(s, M) \/ e \in M
    BY <1>1, <1>2, Zenon DEF Queued
<1>4. ASSUME Behind(s, p, M), ~(e.do = "raise" /\ e.prompt = p)
      PROVE  Behind(t, p, M)
    BY <1>1, <1>2, <1>4, Zenon DEF Behind
<1>5. ASSUME e \in M, e.do # "raise"
      PROVE  Behind(t, p, M)
    BY <1>1, <1>2, <1>5, Zenon DEF Behind
<1> QED
    BY <1>3, <1>4, <1>5 DEF t

\* The first job runs: what was behind the raise is still to run.
LEMMA BehindTaken ==
    ASSUME NEW S, NEW s \in Seq(S), s # <<>>, NEW p, NEW M
    PROVE  /\ Queued(s, M) => Queued(Tail(s), M) \/ Head(s) \in M
           /\ Behind(s, p, M) => Behind(Tail(s), p, M)
           /\ Behind(s, p, M) /\ Head(s).do = "raise" /\ Head(s).prompt = p => Queued(Tail(s), M)
<1> DEFINE t == Tail(s)
<1>1. /\ Head(s) = s[1] /\ 1 \in DOMAIN s
      /\ \A k \in DOMAIN t : k + 1 \in DOMAIN s /\ t[k] = s[k + 1]
      /\ \A k \in DOMAIN s : k = 1 \/ (k - 1 \in DOMAIN t /\ t[k - 1] = s[k])
      /\ \A k \in DOMAIN s : 1 < k => k # 1
      /\ \A j \in DOMAIN t, k \in DOMAIN s : j + 1 < k => k # 1 /\ j < k - 1
    BY Taken
<1> HIDE DEF t
<1>2. Queued(s, M) => Queued(t, M) \/ Head(s) \in M
    BY <1>1, Zenon DEF Queued
<1>3. ASSUME Behind(s, p, M), NEW j \in DOMAIN t, t[j].do = "raise", t[j].prompt = p
      PROVE  \E k \in DOMAIN t : j < k /\ t[k] \in M
  <2>1. j + 1 \in DOMAIN s /\ s[j + 1].do = "raise" /\ s[j + 1].prompt = p
    BY <1>1, <1>3
  <2>2. PICK k \in DOMAIN s : j + 1 < k /\ s[k] \in M
    BY <1>3, <2>1, Zenon DEF Behind
  <2>3. k - 1 \in DOMAIN t /\ t[k - 1] = s[k] /\ j < k - 1
    BY <1>1, <2>2
  <2> QED
    BY <2>2, <2>3
<1>4. ASSUME Behind(s, p, M), Head(s).do = "raise", Head(s).prompt = p
      PROVE  Queued(t, M)
  <2>1. PICK k \in DOMAIN s : 1 < k /\ s[k] \in M
    BY <1>1, <1>4 DEF Behind
  <2>2. k - 1 \in DOMAIN t /\ t[k - 1] = s[k]
    BY <1>1, <2>1
  <2> QED
    BY <2>1, <2>2 DEF Queued
<1> QED
    BY <1>2, <1>3, <1>4 DEF t, Behind

\* The rejects of a sweep come behind all that is queued.
LEMMA BehindSwept ==
    ASSUME AgentType, NEW s, JobsOf(s), NEW r \in Seq(Prompts), NEW p, NEW M
    PROVE  LET t == s \o [k \in DOMAIN r |-> RejectOf(r[k])] IN
           /\ Queued(s, M) => Queued(t, M)
           /\ Behind(s, p, M) => Behind(t, p, M)
<1> DEFINE t == s \o [k \in DOMAIN r |-> RejectOf(r[k])]
<1>1. /\ \A k \in DOMAIN r : r[k] \in Prompts
      /\ \A k \in DOMAIN s : t[k] = s[k]
      /\ \A k \in DOMAIN t : \/ k \in DOMAIN s
                             \/ k - Len(s) \in DOMAIN r /\ t[k] = RejectOf(r[k - Len(s)])
      /\ DOMAIN s = 1..Len(s) /\ DOMAIN t = 1..(Len(s) + Len(r))
      /\ Len(s) \in Nat /\ Len(r) \in Nat
    BY SweptJobs, LenProperties
<1> HIDE DEF t
<1>2. \A k \in DOMAIN s : k \in DOMAIN t
    BY <1>1
<1>3. \A k \in DOMAIN t : (k \in DOMAIN s /\ t[k] = s[k]) \/ t[k].do = "reject"
    BY <1>1, MessageTypes
<1>4. Queued(s, M) => Queued(t, M)
    BY <1>1, <1>2, Zenon DEF Queued
<1>5. \A k \in DOMAIN t : t[k].do = "raise" => k \in DOMAIN s /\ t[k] = s[k]
    BY <1>3
<1>6. Behind(s, p, M) => Behind(t, p, M)
    BY <1>1, <1>2, <1>5, Zenon DEF Behind
<1> QED
    BY <1>4, <1>6 DEF t

\* A window that stands is told to close, or one of the jobs M is still to run; and
\* one of them is behind the job that is to raise it.
Due(p, M) ==
    /\ Shown(p) => Queued(gui, M) \/ Names(gui, "reject", p)
    /\ Behind(gui, p, M)

\* What is due stays due until it is done, whatever is posted, raised, dismissed
\* or swept meanwhile, if the jobs M tell the window to close when they run.
LEMMA DueStep ==
    ASSUME OnceInv, [Next]_vars, NEW p \in Prompts, NEW M, Due(p, M), ~Names(bus, "request", p),
           \A m \in M : m.do \in {"dismiss", "sweep"},
           Shown(p) /\ Head(gui) \in M /\ (Dismiss \/ Sweep) => Names(gui', "reject", p)
    PROVE  Due(p, M)'
<1> USE DEF agentVars, helperVars, history
<1>0. /\ bus \in Seq(Calls) /\ gui \in Seq(Jobs) /\ JobsOf(gui) /\ AgentType
      /\ registry \in Seq(Prompts) /\ window \in [Prompts -> {"none", "shown", "closed"}]
    BY DEF OnceInv, TypeInv, QueueType, CallsOf, JobsOf, WindowType
<1>1. Shown(p)' => Shown(p) \/ (Raise /\ Head(gui).prompt = p)
    BY WindowStep DEF WindowMoves, Shown
<1>2. ASSUME gui # <<>>
      PROVE  /\ Tail(gui) \in Seq(Jobs) /\ JobsOf(Tail(gui)) /\ Behind(Tail(gui), p, M)
             /\ Queued(gui, M) => Queued(Tail(gui), M) \/ Head(gui) \in M
             /\ Names(gui, "reject", p) =>
                  Names(Tail(gui), "reject", p) \/ (Head(gui).do = "reject" /\ Head(gui).prompt = p)
    BY <1>0, <1>2, BehindTaken, JobsKept, Taken, NamesTaken DEF Due
<1>3. CASE Raise
  <2>1. gui # <<>> /\ Head(gui).do = "raise" /\ gui' = Tail(gui)
    BY <1>3 DEF Raise, RunJob
  <2>2. Head(gui).prompt = p => Queued(Tail(gui), M)
    BY <1>0, <2>1, BehindTaken DEF Due
  <2>3. Head(gui) \notin M
    BY <2>1
  <2>4. Shown(p)' => Queued(gui', M) \/ Names(gui', "reject", p)
    BY <1>1, <1>2, <2>1, <2>2, <2>3 DEF Due
  <2> QED
    BY <1>2, <2>1, <2>4 DEF Due
<1>4. CASE Reject
  <2>1. /\ gui # <<>> /\ Head(gui).do = "reject" /\ gui' = Tail(gui)
        /\ window' = [window EXCEPT ![Head(gui).prompt] = "closed"]
    BY <1>4 DEF Reject, RunJob, Finished
  <2>2. Head(gui) \notin M
    BY <2>1
  <2>3. Shown(p)' => Shown(p) /\ Head(gui).prompt # p
    BY <1>0, <2>1 DEF Shown
  <2>4. Shown(p)' => Queued(gui', M) \/ Names(gui', "reject", p)
    BY <1>2, <2>1, <2>2, <2>3 DEF Due
  <2> QED
    BY <1>2, <2>1, <2>4 DEF Due
<1>5. CASE Dismiss
  <2>1. gui # <<>> /\ Head(gui).do = "dismiss" /\ UNCHANGED window
    BY <1>5 DEF Dismiss, RunJob
  <2>2. ASSUME gui' = Tail(gui)
        PROVE  Due(p, M)'
    <3>1. Shown(p)' => Queued(gui', M) \/ Names(gui', "reject", p)
        BY <1>2, <1>5, <2>1, <2>2 DEF Due, Shown
    <3> QED
        BY <1>2, <2>1, <2>2, <3>1 DEF Due
  <2>3. ASSUME NEW k \in DOMAIN registry, gui' = Append(Tail(gui), RejectOf(registry[k]))
        PROVE  Due(p, M)'
    <3>1. registry[k] \in Prompts
        BY <1>0, LenProperties
    <3> DEFINE e == RejectOf(registry[k])
    <3>2. e \in Jobs /\ e.do = "reject"
        BY <1>0, <3>1, MessageTypes
    <3> HIDE DEF e
    <3>3. gui' = Append(Tail(gui), e)
        BY <2>3 DEF e
    <3>4. /\ Behind(gui', p, M) /\ (Queued(Tail(gui), M) => Queued(gui', M))
          /\ Names(Tail(gui), "reject", p) => Names(gui', "reject", p)
      <4>1. Behind(Tail(gui), p, M) /\ Tail(gui) \in Seq(Jobs)
        BY <1>2, <2>1
      <4>2. Behind(Append(Tail(gui), e), p, M) /\ (Queued(Tail(gui), M) => Queued(Append(Tail(gui), e), M))
        BY <3>2, <4>1, BehindAppended
      <4>3. Names(Tail(gui), "reject", p) => Names(Append(Tail(gui), e), "reject", p)
        BY <3>2, <4>1, NamesAppended
      <4> QED
        BY <3>3, <4>2, <4>3
    <3>5. Shown(p)' => Queued(gui', M) \/ Names(gui', "reject", p)
        BY <1>2, <1>5, <2>1, <3>4 DEF Due, Shown
    <3> QED
        BY <3>4, <3>5 DEF Due
  <2> QED
    BY <1>5, <2>2, <2>3 DEF Dismiss, Entries
<1>6. CASE Sweep
  <2>1. /\ gui # <<>> /\ Head(gui).do = "sweep" /\ UNCHANGED window
        /\ gui' = Tail(gui) \o [k \in DOMAIN registry |-> RejectOf(registry[k])]
    BY <1>6 DEF Sweep, Swept, RunJob
  <2>2. /\ Behind(gui', p, M) /\ (Queued(Tail(gui), M) => Queued(gui', M))
        /\ Names(Tail(gui), "reject", p) => Names(gui', "reject", p)
    BY <1>0, <1>2, <2>1, BehindSwept, NamesSwept
  <2>3. Shown(p)' => Queued(gui', M) \/ Names(gui', "reject", p)
    BY <1>2, <1>6, <2>1, <2>2 DEF Due, Shown
  <2> QED
    BY <2>2, <2>3 DEF Due
<1>7. CASE Dispatch
  <2>1. UNCHANGED window
    BY <1>7 DEF Dispatch, DispatchRequest, DispatchCancel, DispatchReset
  <2>2. CASE gui' = gui
    BY <2>1, <2>2 DEF Due, Shown
  <2>3. ASSUME bus # <<>>, NEW what \in {"raise", "dismiss", "sweep"},
               gui' = Append(gui, [Head(bus) EXCEPT !.do = what]),
               what = "raise" => Head(bus).do = "request"
        PROVE  Due(p, M)'
    <3>1. Head(bus) \in Calls
        BY <2>3, CallsKept DEF OnceInv, TypeInv, QueueType
    <3>2. what = "raise" => Head(bus).prompt # p
        BY <1>0, <2>3, NamesTaken
    <3> DEFINE e == [Head(bus) EXCEPT !.do = what]
    <3>3. e \in Jobs /\ e.do = what /\ e.prompt = Head(bus).prompt
        BY <3>1, PostedType
    <3> HIDE DEF e
    <3>4. gui' = Append(gui, e)
        BY <2>3 DEF e
    <3>5. ~(e.do = "raise" /\ e.prompt = p)
        BY <3>2, <3>3
    <3>6. Behind(gui', p, M) /\ (Queued(gui, M) => Queued(gui', M))
        BY <1>0, <3>3, <3>4, <3>5, BehindAppended DEF Due
    <3>7. Names(gui, "reject", p) => Names(gui', "reject", p)
        BY <1>0, <3>3, <3>4, NamesAppended
    <3> QED
        BY <2>1, <3>6, <3>7 DEF Due, Shown
  <2>4. /\ bus # <<>>
        /\ \/ gui' = gui
           \/ \E what \in {"raise", "dismiss", "sweep"} :
                /\ gui' = Append(gui, [Head(bus) EXCEPT !.do = what])
                /\ what = "raise" => Head(bus).do = "request"
    BY <1>7 DEF Dispatch, DispatchRequest, DispatchCancel, DispatchReset, NextCall
  <2> QED
    BY <2>2, <2>3, <2>4
<1>8. CASE HelperExit
  <2>1. gui' = <<>> /\ ~Shown(p)'
    BY <1>8 DEF HelperExit, Shown
  <2> QED
    BY <2>1 DEF Due, Behind
<1>9. ASSUME UNCHANGED gui, ~Raise
      PROVE  Due(p, M)'
    BY <1>1, <1>9 DEF Due
<1>10. ASSUME NEW q \in Prompts,
              Worker(q) \/ OperationCancelled(q) \/ Holder(q) \/ Tick(q) \/ Deadline(q)
       PROVE  UNCHANGED gui
    BY <1>10 DEF Worker, Ask, Send, CallFails, Receive, OperationCancelled, Holder, HolderCancels,
                 HolderAccepts, SwapForm, Tick, Deadline
<1>11. ASSUME AgentCrash \/ AgentStart \/ UNCHANGED vars
       PROVE  UNCHANGED gui
    BY <1>11 DEF AgentCrash, AgentStart, vars
<1> QED
    BY <1>3, <1>4, <1>5, <1>6, <1>7, <1>8, <1>9, <1>10, <1>11 DEF Next, QtThread

\* Nothing is due in an idle Qt thread: what had to close is closed.
LEMMA IdleOwesNothing ==
    ASSUME NEW p, NEW M, Due(p, M), gui = <<>>
    PROVE  ~Shown(p)
    BY DEF Due, Queued, Names

-----------------------------------------------------------------------------
(* A Reset served sweeps the windows of every earlier agent.               *)

SweepJobs == {m \in Jobs : m.do = "sweep"}

SweepInv == \A p \in Prompts : owner[p] < resetBy => Due(p, SweepJobs)

\* A prompt that is not asked for yet has no window to close.
LEMMA UnaskedOwesNothing ==
    ASSUME OnceInv, [Next]_vars, NEW p \in Prompts, NEW M, call[p] = "idle"
    PROVE  Due(p, M)'
<1>1. ~Shown(p) /\ ~Names(gui, "raise", p) /\ ~Names(bus, "request", p)
    BY ShownWasAsked
<1>2. ~Shown(p)'
    BY <1>1, WindowStep DEF WindowMoves, Shown
<1>3. ~Names(gui', "raise", p)
    BY <1>1, RaisesQueued
<1> QED
    BY <1>2, <1>3, Zenon DEF Due, Behind, Names

\* Every step keeps the sweep due on the windows of earlier agents.
LEMMA SweepStep ==
    ASSUME OnceInv, CallerInv, OrderInv, SweepInv, [Next]_vars
    PROVE  SweepInv'
<1>0. /\ bus \in Seq(Calls) /\ gui \in Seq(Jobs) /\ JobsOf(gui) /\ AgentType
      /\ registry \in Seq(Prompts)
    BY DEF OnceInv, TypeInv, QueueType, CallsOf, JobsOf, WindowType
<1> SUFFICES ASSUME NEW p \in Prompts, owner'[p] < resetBy'
             PROVE  Due(p, SweepJobs)'
    BY DEF SweepInv
<1>1. CASE call[p] = "idle"
    BY <1>1, UnaskedOwesNothing
<1>2. ASSUME call[p] # "idle", resetBy' = resetBy
      PROVE  Due(p, SweepJobs)'
  <2>1. owner[p] < resetBy
    BY <1>2, CallStep DEF Settled
  <2>2. Due(p, SweepJobs)
    BY <2>1 DEF SweepInv
  <2>3. ~Names(bus, "request", p)
    <3>1. resetBy \in Nat
        BY PrompterAssumption DEF OnceInv, TypeInv, RestType, Pids
    <3>2. ~(resetBy <= owner[p])
        BY <2>1, <3>1, OwnerTypes
    <3> QED
        BY <3>2 DEF OrderInv, ServedOrder
  <2>4. ASSUME Shown(p), Head(gui) \in SweepJobs, Dismiss \/ Sweep
        PROVE  Names(gui', "reject", p)
    <3>1. /\ gui # <<>>
          /\ gui' = Tail(gui) \o [k \in DOMAIN registry |-> RejectOf(registry[k])]
        BY <2>4 DEF Dismiss, Sweep, Swept, RunJob, SweepJobs
    <3>2. JobsOf(Tail(gui)) /\ Contains(registry, p)
        BY <1>0, <2>4, <3>1, JobsKept DEF OnceInv, StandInv
    <3> QED
        BY <1>0, <3>1, <3>2, NamesSwept
  <2>5. \A m \in SweepJobs : m.do \in {"dismiss", "sweep"}
    BY DEF SweepJobs
  <2> QED
    BY <2>2, <2>3, <2>4, <2>5, DueStep
<1>3. ASSUME bus # <<>>, Head(bus).do = "reset", gui' = Append(gui, [Head(bus) EXCEPT !.do = "sweep"])
      PROVE  Due(p, SweepJobs)'
  <2> DEFINE e == [Head(bus) EXCEPT !.do = "sweep"]
  <2>1. Head(bus) \in Calls
    BY <1>3, CallsKept DEF OnceInv, TypeInv, QueueType
  <2>2. e \in Jobs /\ e.do = "sweep"
    BY <2>1, PostedType
  <2> HIDE DEF e
  <2>3. gui' = Append(gui, e) /\ e \in SweepJobs
    BY <1>3, <2>2 DEF e, SweepJobs
  <2>4. Queued(gui', SweepJobs) /\ Behind(gui', p, SweepJobs)
    BY <1>0, <2>2, <2>3, BehindAppended
  <2> QED
    BY <2>4 DEF Due
<1> QED
    BY <1>1, <1>2, <1>3, ResetServed

\* Once an agent's Reset is served and the Qt thread is idle, no window of an
\* earlier agent stands, also not one whose request the bus thread had taken before
\* the Reset and the Qt thread had still to raise (AgentService::registerOnBus,
\* PrompterService::dismissEveryWindowOnGuiThread).
THEOREM PredecessorsAreSwept == Spec => []PredecessorsSwept
<1>1. Init => SweepInv
    BY DEF Init, SweepInv, Due, Behind, Shown
<1>2. OnceInv /\ CallerInv /\ OrderInv /\ SweepInv /\ [Next]_vars => SweepInv'
    BY SweepStep
<1>3. OnceInv /\ CallerInv /\ SweepInv => PredecessorsSwept
  <2> SUFFICES ASSUME OnceInv, CallerInv, SweepInv, gui = <<>>, NEW p \in Prompts, Shown(p)
               PROVE  owner[p] >= resetBy
    BY DEF PredecessorsSwept
  <2>1. ~(owner[p] < resetBy)
    BY IdleOwesNothing DEF SweepInv
  <2>2. resetBy \in Nat
    BY PrompterAssumption DEF OnceInv, TypeInv, RestType, Pids
  <2> QED
    BY <2>1, <2>2, OwnerTypes
<1> QED
    BY <1>1, <1>2, <1>3, OnceInvariance, OrderInvariance, PTL DEF Spec

-----------------------------------------------------------------------------
(* A Cancel served after the request it names closes that window.          *)

DismissJobs(i, b) == {m \in Jobs : m.do = "dismiss" /\ m.id = i /\ m.by = b}

DismissInv ==
    \A p \in dismissed :
        /\ id[p] # NoId /\ call[p] \notin {"idle", "cleared"} /\ ~Names(bus, "request", p)
        /\ Due(p, DismissJobs(id[p], owner[p]))

\* Only a Cancel served adds to what it dismisses, and it posts the lookup.
LEMMA CancelServed ==
    ASSUME OnceInv, [Next]_vars
    PROVE  \/ dismissed' = dismissed
           \/ /\ bus # <<>> /\ bus' = Tail(bus) /\ Head(bus).do = "cancel"
              /\ dismissed' = dismissed \cup Addressed(Head(bus).id, Head(bus).by)
              /\ gui' = Append(gui, [Head(bus) EXCEPT !.do = "dismiss"]) /\ UNCHANGED agentVars
<1> USE DEF agentVars, helperVars, history
<1>1. ASSUME NEW p \in Prompts,
             Worker(p) \/ OperationCancelled(p) \/ Holder(p) \/ Tick(p) \/ Deadline(p)
      PROVE  dismissed' = dismissed
    BY <1>1 DEF Worker, Ask, Send, CallFails, Receive, OperationCancelled, Holder, HolderCancels,
                HolderAccepts, SwapForm, Tick, Deadline
<1>2. ASSUME \/ AgentCrash \/ AgentStart \/ HelperExit \/ DispatchRequest \/ DispatchReset
             \/ QtThread \/ UNCHANGED vars
      PROVE  dismissed' = dismissed
    BY <1>2 DEF AgentCrash, AgentStart, HelperExit, DispatchRequest, DispatchReset,
                QtThread, Raise, Dismiss, Sweep, Reject, vars
<1>3. CASE DispatchCancel
    BY <1>3 DEF DispatchCancel, NextCall
<1> QED
    BY <1>1, <1>2, <1>3 DEF Next, Dispatch

\* The lookup finds the window of that id and caller: no other stands under the id.
LEMMA LookupFinds ==
    ASSUME OnceInv, NEW p \in Prompts, Shown(p), id[p] # NoId,
           Head(gui) \in DismissJobs(id[p], owner[p]), Dismiss \/ Sweep
    PROVE  Names(gui', "reject", p)
<1>0. gui \in Seq(Jobs) /\ AgentType /\ registry \in Seq(Prompts) /\ Distinct(registry, id)
    BY DEF OnceInv, TypeInv, QueueType, JobsOf, WindowType, StandInv
<1>1. /\ gui # <<>> /\ Dismiss /\ Head(gui).id = id[p] /\ Head(gui).by = owner[p]
    BY DEF Dismiss, Sweep, RunJob, DismissJobs
<1>2. Contains(registry, p)
    BY DEF OnceInv, StandInv
<1>3. PICK k \in DOMAIN registry : registry[k] = p
    BY <1>0, <1>2, LenProperties DEF Contains
<1>4. k \in Entries(Head(gui).id) /\ \A j \in Entries(Head(gui).id) : registry[j] = p
    BY <1>0, <1>1, <1>3 DEF Entries, Distinct
<1>5. gui' = Append(Tail(gui), RejectOf(p))
    BY <1>1, <1>4 DEF Dismiss
<1>6. Tail(gui) \in Seq(Jobs)
    BY <1>0, <1>1, Taken
<1>7. RejectOf(p) \in Jobs /\ RejectOf(p).do = "reject" /\ RejectOf(p).prompt = p
    BY <1>0, MessageTypes
<1> QED
    BY <1>5, <1>6, <1>7, NamesAppended

\* Every step keeps the dismissal due on the windows a Cancel named.
LEMMA DismissStep ==
    ASSUME OnceInv, CallerInv, DismissInv, [Next]_vars
    PROVE  DismissInv'
<1>0. /\ bus \in Seq(Calls) /\ gui \in Seq(Jobs) /\ AgentType /\ dismissed \subseteq Prompts
    BY DEF OnceInv, TypeInv, QueueType, CallsOf, JobsOf, RestType
<1>1. ASSUME NEW p \in Prompts, id[p] # NoId, call[p] \notin {"idle", "cleared"},
             ~Names(bus, "request", p), NEW M, M = DismissJobs(id[p], owner[p]), Due(p, M)'
      PROVE  /\ id'[p] # NoId /\ call'[p] \notin {"idle", "cleared"} /\ ~Names(bus', "request", p)
             /\ Due(p, DismissJobs(id[p], owner[p]))'
  <2>1. /\ id'[p] = id[p] /\ owner'[p] = owner[p] /\ call'[p] \notin {"idle", "cleared"}
    BY <1>1, CallStep DEF Settled
  <2>2. ~Names(bus', "request", p)
    BY <1>1, RequestsQueued
  <2>3. M = DismissJobs(id'[p], owner'[p])
    BY <1>1, <2>1
  <2> QED
    BY <1>1, <2>1, <2>2, <2>3 DEF Due
<1>2. ASSUME NEW p \in dismissed
      PROVE  /\ id'[p] # NoId /\ call'[p] \notin {"idle", "cleared"} /\ ~Names(bus', "request", p)
             /\ Due(p, DismissJobs(id[p], owner[p]))'
  <2>1. /\ p \in Prompts /\ id[p] # NoId /\ call[p] \notin {"idle", "cleared"}
        /\ ~Names(bus, "request", p) /\ Due(p, DismissJobs(id[p], owner[p]))
    BY <1>0, <1>2 DEF DismissInv
  <2>2. PICK M : M = DismissJobs(id[p], owner[p])
    OBVIOUS
  <2>3. Due(p, M) /\ (\A m \in M : m.do \in {"dismiss", "sweep"})
    BY <2>1, <2>2 DEF DismissJobs
  <2>4. Shown(p) /\ Head(gui) \in M /\ (Dismiss \/ Sweep) => Names(gui', "reject", p)
    BY <2>1, <2>2, LookupFinds
  <2>5. Due(p, M)'
    BY <2>1, <2>3, <2>4, DueStep
  <2> QED
    BY <1>1, <2>1, <2>2, <2>5
<1>3. ASSUME bus # <<>>, gui' = Append(gui, [Head(bus) EXCEPT !.do = "dismiss"]),
             NEW p \in Addressed(Head(bus).id, Head(bus).by)
      PROVE  /\ id'[p] # NoId /\ call'[p] \notin {"idle", "cleared"} /\ ~Names(bus', "request", p)
             /\ Due(p, DismissJobs(id[p], owner[p]))'
  <2>1. /\ p \in Prompts /\ id[p] # NoId /\ id[p] = Head(bus).id /\ owner[p] = Head(bus).by
        /\ Shown(p) \/ Names(gui, "raise", p)
    BY <1>3 DEF Addressed, Names
  <2>2. call[p] \notin {"idle", "cleared"} /\ ~Names(bus, "request", p)
    BY <2>1, ShownWasAsked DEF OnceInv, TokenInv, Calm, Shown
  <2>3. PICK M : M = DismissJobs(id[p], owner[p])
    OBVIOUS
  <2> DEFINE e == [Head(bus) EXCEPT !.do = "dismiss"]
  <2>4. Head(bus) \in Calls
    BY <1>3, CallsKept DEF OnceInv, TypeInv, QueueType
  <2>5. e \in Jobs /\ e.do = "dismiss" /\ e.id = Head(bus).id /\ e.by = Head(bus).by
    BY <2>4, PostedType
  <2> HIDE DEF e
  <2>6. gui' = Append(gui, e) /\ e \in M
    BY <1>3, <2>1, <2>3, <2>5 DEF e, DismissJobs
  <2>7. Queued(gui', M) /\ Behind(gui', p, M)
    BY <1>0, <2>5, <2>6, BehindAppended
  <2>8. Due(p, M)'
    BY <2>7 DEF Due
  <2> QED
    BY <1>1, <2>1, <2>2, <2>3, <2>8
<1>4. CASE dismissed' = dismissed
    BY <1>2, <1>4 DEF DismissInv
<1>5. ASSUME bus # <<>>, gui' = Append(gui, [Head(bus) EXCEPT !.do = "dismiss"]),
             dismissed' = dismissed \cup Addressed(Head(bus).id, Head(bus).by)
      PROVE  DismissInv'
    BY <1>2, <1>3, <1>5 DEF DismissInv
<1> QED
    BY <1>4, <1>5, CancelServed

\* A Cancel served after the request it names ends that window, also when the
\* window was still to be raised: once the Qt thread is idle it does not stand
\* (PrompterService::Cancel posts the lookup behind the raise).
THEOREM CancelReaches == Spec => []CancelReachesWindow
<1>1. Init => DismissInv
    BY DEF Init, DismissInv
<1>2. OnceInv /\ CallerInv /\ DismissInv /\ [Next]_vars => DismissInv'
    BY DismissStep
<1>3. DismissInv => CancelReachesWindow
    BY IdleOwesNothing DEF DismissInv, CancelReachesWindow
<1> QED
    BY <1>1, <1>2, <1>3, OnceInvariance, OrderInvariance, PTL DEF Spec

-----------------------------------------------------------------------------
(* Prompter implements PromptLife.                                         *)

\* What only a window that stood can have been answered with.
WindowWords == {"ok", "okMrz", "cancelled", "timeout"}

\* Nobody is told anything before its call ends; the answers of a window come after
\* it closed; and a prompt turned down for the helper's age is on no queue.
OutcomeInv ==
    /\ \A p \in Prompts : call[p] \in {"idle", "cleared", "waiting"} => result[p].status = "none"
    /\ \A p \in Prompts : reply[p].word \in WindowWords => window[p] = "closed"
    /\ \A p \in Prompts : result[p].status = "HelperTooOld" =>
         /\ call[p] \notin {"idle", "cleared"}
         /\ ~Names(bus, "request", p) /\ ~Names(gui, "raise", p)

\* The outcomes an answer is parsed to: only the words of a window give more than
\* an error.
LEMMA ParsedStatus ==
    ASSUME NEW p, NEW readable \in BOOLEAN
    PROVE  /\ Parsed(p, readable).status \in {"Error", "Ok", "Cancelled", "Timeout"}
           /\ Parsed(p, readable).status # "Error" => reply[p].word \in WindowWords
<1> DEFINE status == Status(reply[p].word, ask[p].kind = "offer")
<1>1. /\ status \in {"Error", "Ok", "Cancelled", "Timeout"}
      /\ status # "Error" => reply[p].word \in WindowWords
    BY DEF Status, WindowWords
<1>2. Parsed(p, readable).status \in {"Error", status}
    BY DEF Parsed, Failed
<1> QED
    BY <1>1, <1>2

\* A result handed over ends the call it is handed to, and only an Ask turns down.
LEMMA ToldOnce ==
    ASSUME OnceInv, OutcomeInv, [Next]_vars, NEW q \in Prompts
    PROVE  /\ call'[q] \in {"idle", "cleared", "waiting"} => result'[q].status = "none"
           /\ result'[q].status = "HelperTooOld" /\ result[q].status # "HelperTooOld" =>
                call[q] = "idle" /\ UNCHANGED <<bus, gui>> /\ call'[q] = "done"
<1> USE DEF agentVars, helperVars, history
<1>0. /\ AgentType /\ result \in [Prompts -> [status : Statuses, chosen : {NoSecret, "mrz"},
                                               secret : Forms \cup {NoSecret}]]
    BY DEF OnceInv, TypeInv, AnswerType
<1>1. CASE UNCHANGED <<call, result>>
    BY <1>1 DEF OutcomeInv
<1>2. ASSUME NEW p \in Prompts, NEW i \in Ids \cup {NoId}, Ask(p, i)
      PROVE  /\ call'[q] \in {"idle", "cleared", "waiting"} => result'[q].status = "none"
             /\ result'[q].status = "HelperTooOld" /\ result[q].status # "HelperTooOld" =>
                  call[q] = "idle" /\ UNCHANGED <<bus, gui>> /\ call'[q] = "done"
  <2>1. /\ call[p] = "idle" /\ UNCHANGED <<bus, gui>>
        /\ \/ call' = [call EXCEPT ![p] = "cleared"] /\ UNCHANGED result
           \/ /\ call' = [call EXCEPT ![p] = "done"]
              /\ \E verdict \in Usability : result' = [result EXCEPT ![p] = Refusal(verdict)]
    BY <1>2 DEF Ask
  <2>2. CASE q = p
    BY <1>0, <2>1, <2>2 DEF AgentType, OutcomeInv
  <2>3. CASE q # p
    BY <1>0, <2>1, <2>3 DEF AgentType, OutcomeInv
  <2> QED
    BY <2>2, <2>3
<1>3. ASSUME NEW p \in Prompts, Send(p)
      PROVE  /\ UNCHANGED result
             /\ call'[q] \in {"idle", "cleared", "waiting"} => call[q] \in {"idle", "cleared", "waiting"}
    BY <1>0, <1>3 DEF Send, AgentType
<1>4. ASSUME NEW p \in Prompts, CallFails(p) \/ Receive(p)
      PROVE  /\ call'[q] \in {"idle", "cleared", "waiting"} => q # p /\ call'[q] = call[q]
             /\ q # p => result'[q] = result[q]
             /\ result'[p].status # "HelperTooOld"
  <2>1. \E c \in {"done", "stranded"} : call' = [call EXCEPT ![p] = c]
    BY <1>4 DEF CallFails, Receive
  <2>2. \/ result' = [result EXCEPT ![p] = Failed("Error")]
        \/ \E readable \in BOOLEAN : result' = [result EXCEPT ![p] = Parsed(p, readable)]
    BY <1>4 DEF CallFails, Receive
  <2>3. \A readable \in BOOLEAN : Parsed(p, readable).status # "HelperTooOld"
    BY ParsedStatus
  <2>4. result'[p].status # "HelperTooOld" /\ (q # p => result'[q] = result[q])
    BY <1>0, <2>2, <2>3 DEF Failed
  <2> QED
    BY <1>0, <2>1, <2>4 DEF AgentType
<1>5. CASE AgentCrash
    BY <1>0, <1>5 DEF AgentCrash, AgentType, OutcomeInv
<1>6. ASSUME NEW p \in Prompts, OperationCancelled(p) \/ Holder(p) \/ Tick(p) \/ Deadline(p)
      PROVE  UNCHANGED <<call, result>>
    BY <1>6 DEF OperationCancelled, Holder, HolderCancels, HolderAccepts, SwapForm, Tick, Deadline
<1>7. ASSUME AgentStart \/ HelperExit \/ Dispatch \/ QtThread \/ UNCHANGED vars
      PROVE  UNCHANGED <<call, result>>
    BY <1>7 DEF AgentStart, HelperExit, Dispatch, DispatchRequest, DispatchCancel, DispatchReset,
                QtThread, Raise, Dismiss, Sweep, Reject, vars
<1>8. ASSUME NEW p \in Prompts, Send(p) \/ CallFails(p) \/ Receive(p)
      PROVE  /\ call'[q] \in {"idle", "cleared", "waiting"} => result'[q].status = "none"
             /\ ~(result'[q].status = "HelperTooOld" /\ result[q].status # "HelperTooOld")
  <2>1. CASE Send(p)
    BY <1>3, <2>1 DEF OutcomeInv
  <2>2. CASE CallFails(p) \/ Receive(p)
    <3>1. CASE q = p
        BY <1>4, <2>2, <3>1
    <3>2. CASE q # p
        BY <1>4, <2>2, <3>2 DEF OutcomeInv
    <3> QED
        BY <3>1, <3>2
  <2> QED
    BY <1>8, <2>1, <2>2
<1> QED
    BY <1>1, <1>2, <1>5, <1>6, <1>7, <1>8 DEF Next, Worker

\* Every step keeps what may have been told.
LEMMA OutcomeStep == OnceInv /\ OutcomeInv /\ [Next]_vars => OutcomeInv'
<1> SUFFICES ASSUME OnceInv, OutcomeInv, [Next]_vars PROVE OutcomeInv'
    OBVIOUS
<1>1. ASSUME NEW p \in Prompts, reply'[p].word \in WindowWords
      PROVE  window'[p] = "closed"
  <2>1. CASE reply'[p] = reply[p]
    <3>1. window[p] = "closed"
        BY <1>1, <2>1 DEF OutcomeInv
    <3>2. ~Names(gui, "raise", p)
        BY <3>1 DEF OnceInv, TokenInv, Calm
    <3> QED
        BY <3>1, <3>2, WindowStep DEF WindowMoves
  <2>2. reply'[p] # NoAnswer
    BY <1>1 DEF NoAnswer, WindowWords
  <2>3. ASSUME NEW word \in {"error", "unauthorized"}, reply'[p] = [word |-> word, fd |-> NoSecret]
        PROVE  FALSE
    BY <1>1, <2>3 DEF WindowWords
  <2> QED
    BY <2>1, <2>2, <2>3, ReplyStep DEF Answers
<1>2. ASSUME NEW p \in Prompts, result'[p].status = "HelperTooOld"
      PROVE  /\ call'[p] \notin {"idle", "cleared"}
             /\ ~Names(bus', "request", p) /\ ~Names(gui', "raise", p)
  <2>1. CASE result[p].status = "HelperTooOld"
    <3>1. /\ call[p] \notin {"idle", "cleared"}
          /\ ~Names(bus, "request", p) /\ ~Names(gui, "raise", p)
        BY <2>1 DEF OutcomeInv
    <3> QED
        BY <3>1, CallStep, RequestsQueued, RaisesQueued DEF Settled
  <2>2. CASE result[p].status # "HelperTooOld"
    <3>1. call[p] = "idle" /\ UNCHANGED <<bus, gui>> /\ call'[p] = "done"
        BY <1>2, <2>2, ToldOnce
    <3> QED
        BY <3>1, ShownWasAsked
  <2> QED
    BY <2>1, <2>2
<1> QED
    BY <1>1, <1>2, ToldOnce DEF OutcomeInv

\* A prompt stands where it stood as long as neither its window nor its answers nor
\* its being asked changes.
LEMMA LifeKept ==
    ASSUME NEW q, window'[q] = window[q], replies'[q] = replies[q],
           call'[q] = "idle" <=> call[q] = "idle",
           result'[q].status = "HelperTooOld" <=> result[q].status = "HelperTooOld"
    PROVE  LifeOf(q)' = LifeOf(q)
    BY DEF LifeOf

\* What LifeOf says of a prompt, case by case.
LEMMA LifeCases ==
    ASSUME OnceInv, NEW p \in Prompts
    PROVE  /\ call[p] = "idle" => LifeOf(p) = "unasked"
           /\ Shown(p) => LifeOf(p) = "shown"
           /\ window[p] = "closed" => LifeOf(p) = "closed"
           /\ call[p] # "idle" /\ Calm(p) /\ result[p].status # "HelperTooOld" => LifeOf(p) = "asked"
           /\ call[p] # "idle" => LifeOf(p) # "unasked"
<1>1. call[p] = "idle" => window[p] = "none"
    BY DEF OnceInv, TokenInv, Calm
<1>2. window[p] \in {"none", "shown", "closed"}
    BY DEF OnceInv, TypeInv, WindowType
<1> QED
    BY <1>1, <1>2 DEF LifeOf, Calm, Shown

\* A step that concerns no prompt but p.
Others(p) ==
    \A q \in Prompts : q # p => LifeOf(q)' = LifeOf(q) /\ result'[q].status = result[q].status

\* Such a step changes the abstract state at p alone.
LEMMA MovesOne ==
    ASSUME NEW p \in Prompts, Others(p)
    PROVE  /\ Lives' = [Lives EXCEPT ![p] = LifeOf(p)']
           /\ Outcomes' = [Outcomes EXCEPT ![p] = result'[p].status]
           /\ Lives[p] = LifeOf(p) /\ Outcomes[p] = result[p].status
           /\ LifeOf(p)' = LifeOf(p) => UNCHANGED Lives
           /\ result'[p].status = result[p].status => UNCHANGED Outcomes
<1>1. \A q \in Prompts : Lives'[q] = LifeOf(q)' /\ Lives[q] = LifeOf(q)
    BY DEF Lives
<1>2. \A q \in Prompts : Outcomes'[q] = result'[q].status /\ Outcomes[q] = result[q].status
    BY DEF Outcomes
<1>3. Lives = [q \in Prompts |-> Lives[q]] /\ Lives' = [q \in Prompts |-> Lives'[q]]
    BY DEF Lives
<1>4. Outcomes = [q \in Prompts |-> Outcomes[q]] /\ Outcomes' = [q \in Prompts |-> Outcomes'[q]]
    BY DEF Outcomes
<1> QED
    BY <1>1, <1>2, <1>3, <1>4 DEF Others

\* The abstract state stays when nothing of it changes at any prompt.
LEMMA LivesOn ==
    ASSUME \A q \in Prompts : LifeOf(q)' = LifeOf(q) /\ result'[q].status = result[q].status
    PROVE  UNCHANGED <<Lives, Outcomes>>
    BY DEF Lives, Outcomes

\* Asking is Ask, or TurnDown where the helper is too old.
LEMMA AskRefines ==
    ASSUME OnceInv, OutcomeInv, NEW p \in Prompts, NEW i \in Ids \cup {NoId}, Ask(p, i)
    PROVE  Life!Ask(p) \/ Life!TurnDown(p)
<1> USE DEF agentVars, helperVars, history
<1>1. /\ call \in [Prompts -> {"idle", "cleared", "waiting", "done", "stranded", "lost"}]
      /\ result \in [Prompts -> [status : Statuses, chosen : {NoSecret, "mrz"},
                                 secret : Forms \cup {NoSecret}]]
    BY DEF OnceInv, TypeInv, AgentType, AnswerType
<1>2. /\ call[p] = "idle" /\ UNCHANGED <<window, replies>>
      /\ \/ call' = [call EXCEPT ![p] = "cleared"] /\ UNCHANGED result
         \/ /\ call' = [call EXCEPT ![p] = "done"]
            /\ \E status \in {"Error", "HelperTooOld"} :
                 result' = [result EXCEPT ![p] = Failed(status)]
    BY DEF Ask, Refusal
<1>3. /\ call'[p] # "idle" /\ \A q \in Prompts : q # p => call'[q] = call[q] /\ result'[q] = result[q]
      /\ result'[p] = result[p] \/ \E status \in {"Error", "HelperTooOld"} : result'[p] = Failed(status)
    BY <1>1, <1>2
<1>4. Others(p)
    BY <1>2, <1>3, LifeKept DEF Others
<1>5. LifeOf(p) = "unasked" /\ Calm(p) /\ result[p].status = "none"
    BY <1>2, LifeCases DEF OnceInv, TokenInv, OutcomeInv
<1>6. result'[p].status \in {"none", "Error", "HelperTooOld"}
    BY <1>3, <1>5 DEF Failed
<1>7. LifeOf(p)' = IF result'[p].status = "HelperTooOld" THEN "refused" ELSE "asked"
    BY <1>2, <1>3, <1>5 DEF LifeOf, Calm
<1> QED
    BY <1>4, <1>5, <1>6, <1>7, MovesOne DEF Life!Ask, Life!TurnDown

\* A call that fails, and one that returns, is Tell: the caller's answer came from
\* a window only if that window has closed.
LEMMA TellRefines ==
    ASSUME OnceInv, OutcomeInv, NEW p \in Prompts, CallFails(p) \/ Receive(p)
    PROVE  Life!Tell(p)
<1> USE DEF agentVars, helperVars, history
<1>1. /\ call \in [Prompts -> {"idle", "cleared", "waiting", "done", "stranded", "lost"}]
      /\ result \in [Prompts -> [status : Statuses, chosen : {NoSecret, "mrz"},
                                 secret : Forms \cup {NoSecret}]]
    BY DEF OnceInv, TypeInv, AgentType, AnswerType
<1>2. /\ call[p] \in {"cleared", "waiting"} /\ UNCHANGED <<window, replies>>
      /\ \E c \in {"done", "stranded"} : call' = [call EXCEPT ![p] = c]
      /\ \/ result' = [result EXCEPT ![p] = Failed("Error")]
         \/ \E readable \in BOOLEAN : result' = [result EXCEPT ![p] = Parsed(p, readable)]
    BY DEF CallFails, Receive
<1>3. call'[p] # "idle" /\ \A q \in Prompts : q # p => call'[q] = call[q] /\ result'[q] = result[q]
    BY <1>1, <1>2
<1>4. /\ result'[p].status \in {"Error", "Ok", "Cancelled", "Timeout"}
      /\ result'[p].status # "Error" => window[p] = "closed"
  <2>1. CASE result' = [result EXCEPT ![p] = Failed("Error")]
    BY <1>1, <2>1 DEF Failed
  <2>2. ASSUME NEW readable \in BOOLEAN, result' = [result EXCEPT ![p] = Parsed(p, readable)]
        PROVE  /\ result'[p].status \in {"Error", "Ok", "Cancelled", "Timeout"}
               /\ result'[p].status # "Error" => window[p] = "closed"
    <3>1. result'[p] = Parsed(p, readable)
        BY <1>1, <2>2
    <3> QED
        BY <3>1, ParsedStatus DEF OutcomeInv
  <2> QED
    BY <1>2, <2>1, <2>2
<1>5. result[p].status = "none" /\ LifeOf(p) # "unasked"
    BY <1>2, LifeCases DEF OutcomeInv
<1>6. Others(p) /\ LifeOf(p)' = LifeOf(p)
    BY <1>2, <1>3, <1>4, <1>5, LifeKept DEF Others
<1>7. result'[p].status # "Error" => LifeOf(p) = "closed"
    BY <1>4, LifeCases
<1> QED
    BY <1>4, <1>5, <1>6, <1>7, MovesOne DEF Life!Tell, Life!FromTheWindow

\* An answer to a prompt nothing has been done about is Refuse.
LEMMA RefuseRefines ==
    ASSUME OnceInv, NEW p \in Prompts, NEW word, NEW fd, Answer(p, word, fd), Calm(p),
           call[p] # "idle", result[p].status # "HelperTooOld",
           UNCHANGED <<call, window, result>>
    PROVE  Life!Refuse(p)
<1>1. /\ replies'[p] = replies[p] + 1
      /\ \A q \in Prompts : q # p => replies'[q] = replies[q]
    BY AnswerEffect DEF OnceInv, TypeInv
<1>2. Others(p)
    BY <1>1, LifeKept DEF Others
<1>3. LifeOf(p) = "asked"
    BY LifeCases
<1>4. LifeOf(p)' = "refused"
    BY <1>1 DEF LifeOf, Calm
<1> QED
    BY <1>2, <1>3, <1>4, MovesOne DEF Life!Refuse

\* What finishes a window is Close of that one; a reject that comes after is nothing.
LEMMA CloseRefines ==
    ASSUME OnceInv, NEW p \in Prompts, NEW word, NEW fd, Finished(p, word, fd),
           window[p] # "none", UNCHANGED <<call, result>>
    PROVE  Life!Close({p}) \/ UNCHANGED <<Lives, Outcomes>>
<1>1. Closes(p, word, fd)
    BY FinishedEffect DEF OnceInv
<1>2. /\ window'[p] = "closed"
      /\ \A q \in Prompts : q # p => window'[q] = window[q] /\ replies'[q] = replies[q]
    BY <1>1 DEF Closes
<1>3. Others(p)
    BY <1>2, LifeKept DEF Others
<1>4. call[p] # "idle"
    BY DEF OnceInv, TokenInv, Calm
<1>5. LifeOf(p)' = "closed"
    BY <1>2, <1>4 DEF LifeOf
<1>6. window[p] \in {"shown", "closed"}
    BY DEF OnceInv, TypeInv, WindowType
<1>7. LifeOf(p) \in {"shown", "closed"}
    BY <1>6, LifeCases DEF Shown
<1>8. CASE LifeOf(p) = "closed"
    BY <1>3, <1>5, <1>8, MovesOne
<1>9. CASE LifeOf(p) = "shown"
  <2>1. \A q \in Prompts : Lives'[q] = IF q \in {p} THEN "closed" ELSE Lives[q]
    BY <1>3, <1>5 DEF Others, Lives
  <2>2. Lives' = [q \in Prompts |-> Lives'[q]]
    BY DEF Lives
  <2> QED
    BY <1>3, <1>9, <2>1, <2>2, MovesOne DEF Life!Close
<1> QED
    BY <1>7, <1>8, <1>9

\* A request the bus thread answers itself is Refuse; one it posts moves nothing.
LEMMA DispatchRefines ==
    ASSUME OnceInv, OutcomeInv, DispatchRequest
    PROVE  Life!Next \/ UNCHANGED <<Lives, Outcomes>>
<1> USE DEF agentVars, helperVars, history
<1> DEFINE m == Head(bus)
<1>1. /\ bus # <<>> /\ m.do = "request" /\ UNCHANGED <<call, window, result>>
      /\ UNCHANGED replies \/ \E word, fd : Answer(m.prompt, word, fd)
    BY DEF DispatchRequest, NextCall
<1>2. m.prompt \in Prompts /\ Names(bus, "request", m.prompt)
    BY <1>1, CallsKept, NamesTaken DEF OnceInv, TypeInv, QueueType, CallsOf
<1>3. CASE UNCHANGED replies
    BY <1>1, <1>3, LifeKept, LivesOn
<1>4. ASSUME NEW word, NEW fd, Answer(m.prompt, word, fd)
      PROVE  Life!Refuse(m.prompt)
  <2>1. /\ Calm(m.prompt) /\ call[m.prompt] # "idle"
        /\ result[m.prompt].status # "HelperTooOld"
    BY <1>2 DEF OnceInv, TokenInv, OutcomeInv
  <2> QED
    BY <1>1, <1>2, <1>4, <2>1, RefuseRefines
<1> QED
    BY <1>1, <1>2, <1>3, <1>4 DEF Life!Next

\* The window of a prompt nothing has been done about appears: Raise.
LEMMA ShowRefines ==
    ASSUME OnceInv, NEW p \in Prompts, window' = [window EXCEPT ![p] = "shown"], Calm(p),
           call[p] # "idle", result[p].status # "HelperTooOld",
           UNCHANGED <<call, replies, result>>
    PROVE  Life!Raise(p)
<1>1. window'[p] = "shown" /\ \A q \in Prompts : q # p => window'[q] = window[q]
    BY DEF OnceInv, TypeInv, WindowType
<1>2. Others(p)
    BY <1>1, LifeKept DEF Others
<1>3. LifeOf(p) = "asked"
    BY LifeCases
<1>4. LifeOf(p)' = "shown"
    BY <1>1 DEF LifeOf
<1> QED
    BY <1>2, <1>3, <1>4, MovesOne DEF Life!Raise

\* A window raised is Raise, a prompt whose id stands already is Refuse.
LEMMA RaiseRefines ==
    ASSUME OnceInv, OutcomeInv, Raise
    PROVE  Life!Next
<1> USE DEF agentVars, helperVars, history
<1> DEFINE p == Head(gui).prompt
<1>1. /\ gui # <<>> /\ Head(gui).do = "raise" /\ UNCHANGED <<call, result>>
      /\ \/ UNCHANGED replies /\ window' = [window EXCEPT ![p] = "shown"]
         \/ UNCHANGED window /\ Answer(p, "error", NoSecret)
    BY DEF Raise, RunJob
<1>2. p \in Prompts /\ Names(gui, "raise", p)
    BY <1>1, JobsKept, NamesTaken DEF OnceInv, TypeInv, QueueType, JobsOf
<1>3. Calm(p) /\ call[p] # "idle" /\ result[p].status # "HelperTooOld"
    BY <1>2 DEF OnceInv, TokenInv, OutcomeInv
<1>4. CASE UNCHANGED window /\ Answer(p, "error", NoSecret)
  <2>1. Life!Refuse(p)
    BY <1>1, <1>2, <1>3, <1>4, RefuseRefines
  <2> QED
    BY <1>2, <2>1 DEF Life!Next
<1>5. CASE UNCHANGED replies /\ window' = [window EXCEPT ![p] = "shown"]
  <2>1. Life!Raise(p)
    BY <1>1, <1>2, <1>3, <1>5, ShowRefines
  <2> QED
    BY <1>2, <2>1 DEF Life!Next
<1> QED
    BY <1>1, <1>4, <1>5

\* The helper's exit is Close of every window that stands.
LEMMA ExitRefines ==
    ASSUME OnceInv, HelperExit
    PROVE  Life!Close({p \in Prompts : Shown(p)})
<1> USE DEF agentVars, helperVars, history
<1> DEFINE closing == {p \in Prompts : Shown(p)}
<1>1. /\ UNCHANGED <<call, result, replies>>
      /\ \A q \in Prompts : window'[q] = IF Shown(q) THEN "closed" ELSE window[q]
    BY DEF HelperExit
<1>2. \A q \in Prompts : Shown(q) => LifeOf(q) = "shown" /\ call[q] # "idle"
    BY LifeCases DEF OnceInv, TokenInv, Calm, Shown
<1>3. \A q \in Prompts : LifeOf(q)' = IF q \in closing THEN "closed" ELSE LifeOf(q)
  <2> TAKE q \in Prompts
  <2>1. CASE Shown(q)
    <3>1. LifeOf(q)' = "closed"
        BY <1>1, <1>2, <2>1 DEF LifeOf
    <3> QED
        BY <2>1, <3>1
  <2>2. CASE ~Shown(q)
    BY <1>1, <2>2, LifeKept
  <2> QED
    BY <2>1, <2>2
<1>4. \A q \in Prompts : Lives'[q] = LifeOf(q)' /\ Lives[q] = LifeOf(q)
    BY DEF Lives
<1>5. Lives' = [q \in Prompts |-> Lives'[q]] /\ UNCHANGED Outcomes
    BY <1>1 DEF Lives, Outcomes
<1> HIDE DEF closing
<1>6. \A q \in closing : Lives[q] = "shown"
    BY <1>2, <1>4 DEF closing
<1>7. Lives' = [q \in Prompts |-> IF q \in closing THEN "closed" ELSE Lives[q]]
    BY <1>3, <1>4, <1>5
<1> QED
    BY <1>5, <1>6, <1>7 DEF Life!Close, closing

\* Agent, bus and helper together keep what PromptLife promises for each prompt: one
\* window at most and none after a refusal, one outcome, and an outcome only the
\* window can bring about told only once it is gone (PrompterClient::request,
\* PrompterService, PromptRegistry), for any prompts, crashes and helper exits.
THEOREM PromptLifeIsKept == Spec => ImplementsPromptLife
<1> USE DEF agentVars, helperVars, history
<1>1. Init => Life!Init
    BY DEF Init, Life!Init, Lives, Outcomes, LifeOf, NoResult
<1>2. Init => OutcomeInv
    BY DEF Init, OutcomeInv, NoResult, NoAnswer, WindowWords
<1>3. OnceInv /\ OutcomeInv /\ [Next]_vars => OutcomeInv'
    BY OutcomeStep
<1>4. ASSUME OnceInv, OutcomeInv, [Next]_vars
      PROVE  [Life!Next]_<<Lives, Outcomes>>
  <2>1. ASSUME NEW p \in Prompts, NEW i \in Ids \cup {NoId}, Ask(p, i)
        PROVE  Life!Next
    BY <1>4, <2>1, AskRefines DEF Life!Next
  <2>2. ASSUME NEW p \in Prompts, CallFails(p) \/ Receive(p)
        PROVE  Life!Next
    BY <1>4, <2>2, TellRefines DEF Life!Next
  <2>3. ASSUME NEW p \in Prompts, NEW word, NEW fd, Finished(p, word, fd), window[p] # "none",
               UNCHANGED <<call, result>>
        PROVE  [Life!Next]_<<Lives, Outcomes>>
    BY <1>4, <2>3, CloseRefines DEF Life!Next
  <2>4. ASSUME NEW p \in Prompts, HolderCancels(p) \/ HolderAccepts(p) \/ Deadline(p)
        PROVE  [Life!Next]_<<Lives, Outcomes>>
    <3>1. window[p] # "none" /\ UNCHANGED <<call, result>> /\ \E word, fd : Finished(p, word, fd)
        BY <2>4 DEF HolderCancels, HolderAccepts, Deadline, Shown
    <3> QED
        BY <2>3, <3>1
  <2>5. CASE Reject
    <3>1. /\ gui # <<>> /\ Head(gui).do = "reject" /\ UNCHANGED <<call, result>>
          /\ Finished(Head(gui).prompt, "cancelled", NoSecret)
        BY <2>5 DEF Reject, RunJob
    <3>2. Head(gui).prompt \in Prompts /\ Names(gui, "reject", Head(gui).prompt)
        BY <1>4, <3>1, JobsKept, NamesTaken DEF OnceInv, TypeInv, QueueType, JobsOf
    <3>3. window[Head(gui).prompt] # "none"
        BY <1>4, <3>2 DEF OnceInv, RejectInv
    <3> QED
        BY <2>3, <3>1, <3>2, <3>3
  <2>6. CASE DispatchRequest
    BY <1>4, <2>6, DispatchRefines
  <2>7. CASE Raise
    BY <1>4, <2>7, RaiseRefines
  <2>8. CASE HelperExit
    BY <1>4, <2>8, ExitRefines DEF Life!Next
  <2>9. ASSUME NEW p \in Prompts, Send(p) \/ OperationCancelled(p) \/ SwapForm(p) \/ Tick(p)
        PROVE  \A q \in Prompts : /\ window'[q] = window[q] /\ replies'[q] = replies[q]
                                  /\ result'[q] = result[q]
                                  /\ call'[q] = "idle" <=> call[q] = "idle"
    BY <1>4, <2>9 DEF Send, OperationCancelled, SwapForm, Tick, OnceInv, TypeInv, AgentType
  <2>10. ASSUME AgentCrash \/ AgentStart \/ DispatchCancel \/ DispatchReset \/ Dismiss \/ Sweep
                \/ UNCHANGED vars
         PROVE  \A q \in Prompts : /\ window'[q] = window[q] /\ replies'[q] = replies[q]
                                   /\ result'[q] = result[q]
                                   /\ call'[q] = "idle" <=> call[q] = "idle"
    BY <1>4, <2>10 DEF AgentCrash, AgentStart, DispatchCancel, DispatchReset, Dismiss, Sweep, vars
  <2>11. ASSUME \A q \in Prompts : /\ window'[q] = window[q] /\ replies'[q] = replies[q]
                                   /\ result'[q] = result[q]
                                   /\ call'[q] = "idle" <=> call[q] = "idle"
         PROVE  UNCHANGED <<Lives, Outcomes>>
    BY <2>11, LifeKept, LivesOn
  <2> QED
    BY <1>4, <2>1, <2>2, <2>4, <2>5, <2>6, <2>7, <2>8, <2>9, <2>10, <2>11
       DEF Next, Worker, Holder, Dispatch, QtThread
<1> QED
    BY <1>1, <1>2, <1>3, <1>4, OnceInvariance, PTL DEF Spec, ImplementsPromptLife, Life!Spec

===============================================================================
