-------------------------- MODULE Pkcs11ClientProofs --------------------------
(***************************************************************************)
(* Proofs about the PKCS#11 module's view of the agent, for any number of  *)
(* application threads, readers, cards, insertions and crashes; what a     *)
(* second thread breaks is proved for a module with one.                   *)
(***************************************************************************)
EXTENDS Pkcs11Client, TLAPS

-----------------------------------------------------------------------------
(* The shape of the state.                                                 *)

AgentType ==
    /\ up \in BOOLEAN /\ crashes \in 0..MaxCrashes /\ inserts \in 0..MaxInserts
    /\ seat \in [Readers -> Cards \cup {NoCard}]
    /\ onBus \subseteq Cards /\ minted \subseteq Cards
    /\ life \in [Cards -> Lives]
    /\ signals \in Nat

OpType ==
    /\ op \in [Threads -> [state : {"none", "running", "completed", "finished", "gone"},
                           life : Lives, end : Ends \cup {"none"}]]
    /\ finished \in [Threads -> {"none", "flying", "handled"}]

ImplType ==
    /\ dirty \in BOOLEAN
    /\ cached \in [Readers -> [card : Cards \cup {NoCard}, life : Lives]]
    /\ settled \subseteq [card : Cards, life : Lives]
    /\ outdated \subseteq Threads
    /\ handler \in {"idle", "marking"}

ThreadType ==
    /\ pc \in [Threads -> Steps]
    /\ todo \in [Threads -> SUBSET Readers]
    /\ at \in [Threads -> Readers \cup {NoReader}]
    /\ snap \in [Threads -> [Readers -> [card : Cards \cup {NoCard}, life : Lives]]]
    /\ complete \in [Threads -> BOOLEAN]
    /\ armed \subseteq {t \in Threads : pc[t] \in {"completed", "status", "wait", "result"}}
    /\ read \in [Threads -> [life : Lives, end : Ends \cup {"none"}]]

\* A path names a card per process at most.
LifeInv == \A c \in Cards : life[c] <= crashes + 1 /\ (c \notin minted => life[c] <= crashes)

\* A card is seated once and published from its seat.
SeatInv ==
    /\ \A r \in Readers : seat[r] # NoCard => seat[r] \in minted
    /\ \A q, r \in Readers : seat[q] = seat[r] /\ seat[q] # NoCard => q = r
    /\ onBus \subseteq minted

\* A thread is at a reader whose card it reads or settles.
AtACard == {"call", "arm", "completed", "status", "wait", "result", "settle"}

AtInv ==
    \A t \in Threads :
        /\ \A r \in todo[t] : snap[t][r].card \in Cards
        /\ pc[t] \in AtACard => at[t] \in Readers /\ snap[t][at[t]].card \in Cards
        /\ pc[t] \in {"store", "mark"} => todo[t] = {}

Shape == AgentType /\ OpType /\ ImplType /\ ThreadType /\ LifeInv /\ SeatInv /\ AtInv

\* The client starts with nothing cached and every thread idle.
LEMMA ShapeInit == Init => Shape
<1> SUFFICES ASSUME Init PROVE Shape
  OBVIOUS
<1> USE ClientAssumption DEF Init
<1>1. AgentType /\ LifeInv /\ SeatInv
  BY DEF AgentType, LifeInv, SeatInv, Lives
<1>2. OpType
  BY DEF OpType, NoOp, Lives, Ends
<1>3. ImplType
  BY DEF ImplType, EmptySnapshot, NoSlot, Lives
<1>4. ThreadType /\ AtInv
  BY DEF ThreadType, AtInv, EmptySnapshot, NoSlot, NoRead, Lives, Ends, Steps, AtACard
<1> QED
  BY <1>1, <1>2, <1>3, <1>4 DEF Shape

\* What a snapshot of the tree holds.
LEMMA SlotType ==
    ASSUME AgentType, NEW c \in Cards \cup {NoCard}
    PROVE  Slot(c) \in [card : Cards \cup {NoCard}, life : Lives] /\ Slot(c).card = c
  BY ClientAssumption DEF AgentType, Slot, Lives

\* The steps of the agent, its crash and its restart keep the shape.
LEMMA AgentKeepsShape ==
    ASSUME Shape,
           \/ \E r \in Readers : (\E c \in Cards : Seat(r, c)) \/ Publish(r) \/ Clear(r)
           \/ \E c \in Cards : Withdraw(c)
           \/ Crash \/ Restart
    PROVE  Shape'
<1>1. UNCHANGED <<finished, implVars, threadVars>>
  BY DEF Seat, Publish, Clear, Withdraw, Crash, Restart, opVars
<1>2. ImplType' /\ ThreadType' /\ AtInv'
  BY <1>1 DEF Shape, implVars, threadVars, ImplType, ThreadType, AtInv
<1> USE ClientAssumption DEF Shape, AgentType, LifeInv, SeatInv, Lives
<1>3. ASSUME NEW r \in Readers, NEW c \in Cards, Seat(r, c)
      PROVE  (AgentType /\ LifeInv /\ SeatInv)'
  BY <1>3 DEF Seat
<1>4. ASSUME NEW r \in Readers, Publish(r) PROVE (AgentType /\ LifeInv /\ SeatInv)'
  BY <1>4 DEF Publish
<1>5. ASSUME NEW r \in Readers, Clear(r) PROVE (AgentType /\ LifeInv /\ SeatInv)'
  BY <1>5 DEF Clear
<1>6. ASSUME NEW c \in Cards, Withdraw(c) PROVE (AgentType /\ LifeInv /\ SeatInv)'
  BY <1>6 DEF Withdraw
<1>7. CASE Crash
  <2>1. /\ up' = FALSE /\ crashes < MaxCrashes /\ crashes' = crashes + 1
        /\ seat' = [r \in Readers |-> NoCard] /\ onBus' = {} /\ minted' = {}
        /\ UNCHANGED <<inserts, life, signals>>
    BY <1>7 DEF Crash
  <2>2. AgentType' /\ SeatInv'
    <3>1. crashes' \in 0..MaxCrashes
      BY <2>1
    <3>2. seat' \in [Readers -> Cards \cup {NoCard}] /\ \A r \in Readers : seat'[r] = NoCard
      BY <2>1
    <3> QED
      BY <2>1, <3>1, <3>2
  <2>3. LifeInv'
    BY <2>1
  <2>4. ASSUME NEW t \in Threads
        PROVE  [op[t] EXCEPT !.state = IF @ = "none" THEN @ ELSE "gone"]
                 \in [state : {"none", "running", "completed", "finished", "gone"},
                      life : Lives, end : Ends \cup {"none"}]
    BY DEF OpType
  <2>5. OpType'
    BY <1>1, <1>7, <2>4 DEF Crash, OpType
  <2> QED
    BY <1>2, <2>2, <2>3, <2>5
<1>8. CASE Restart
  BY <1>2, <1>8 DEF Restart, opVars, OpType
<1>9. ASSUME UNCHANGED opVars PROVE OpType'
  BY <1>9 DEF opVars, OpType
<1> QED
  BY <1>2, <1>3, <1>4, <1>5, <1>6, <1>7, <1>8, <1>9 DEF Seat, Publish, Clear, Withdraw

\* The steps of the agent's operations and of the client's event-loop thread.
LEMMA SignalsKeepShape ==
    ASSUME Shape,
           \/ \E t \in Threads : Complete(t) \/ EmitFinished(t) \/ Evict(t) \/ HandleFinished(t)
           \/ HandleSignal \/ MarkDirty
    PROVE  Shape'
<1>1. CASE HandleSignal
  BY <1>1 DEF HandleSignal, ForgetSettled, Shape, AgentType, OpType, ImplType, ThreadType, LifeInv, SeatInv, AtInv,
         opVars, threadVars
<1>2. CASE MarkDirty
  BY <1>2 DEF MarkDirty, Shape, AgentType, OpType, ImplType, ThreadType, LifeInv, SeatInv, AtInv,
         agentVars, opVars, threadVars
<1>3. ASSUME NEW t \in Threads, Complete(t) \/ EmitFinished(t) \/ Evict(t) \/ HandleFinished(t)
      PROVE  Shape'
  <2>1. UNCHANGED <<agentVars, implVars, threadVars>>
    BY <1>3 DEF Complete, EmitFinished, Evict, HandleFinished
  <2>2. OpType'
    <3> USE DEF Shape, OpType
    <3>1. CASE Complete(t)
      <4>1. PICK end \in Ends : op' = [op EXCEPT ![t] = [@ EXCEPT !.state = "completed", !.end = end]]
        BY <3>1 DEF Complete
      <4>2. op'[t].life = op[t].life /\ op'[t] = [state |-> "completed", life |-> op[t].life, end |-> end]
        BY <4>1
      <4> QED
        BY <3>1, <4>1, <4>2 DEF Complete
    <3>2. CASE EmitFinished(t)
      BY <3>2 DEF EmitFinished
    <3>3. CASE Evict(t)
      BY <3>3 DEF Evict
    <3>4. CASE HandleFinished(t)
      BY <3>4 DEF HandleFinished
    <3> QED
      BY <1>3, <3>1, <3>2, <3>3, <3>4
  <2> QED
    BY <2>1, <2>2 DEF Shape, AgentType, ImplType, ThreadType, LifeInv, SeatInv, AtInv,
       agentVars, implVars, threadVars
<1> QED
  BY <1>1, <1>2, <1>3

\* The end of a read, as the steps that end one leave the thread.
LEMMA EndReadKeepsShape ==
    ASSUME Shape, NEW t \in Threads, NEW outcome, EndRead(t, outcome), pc[t] \in AtACard,
           UNCHANGED <<agentVars, implVars, todo, at, snap>>,
           read' \in [Threads -> [life : Lives, end : Ends \cup {"none"}]]
    PROVE  Shape'
<1>1. /\ armed' = armed \ {t} /\ op' = [op EXCEPT ![t] = NoOp] /\ finished' = [finished EXCEPT ![t] = "none"]
      /\ complete' = [complete EXCEPT ![t] = @ /\ outcome # "AskAgain"]
      /\ \E step \in {"settle", "reader"} : pc' = [pc EXCEPT ![t] = step]
  BY DEF EndRead, Goto
<1>2. AgentType' /\ ImplType' /\ LifeInv' /\ SeatInv'
  BY DEF Shape, AgentType, ImplType, LifeInv, SeatInv, agentVars, implVars
<1>3. OpType'
  BY <1>1, ClientAssumption DEF Shape, OpType, NoOp, Lives, Ends
<1>4. ThreadType'
  <2>1. complete' \in [Threads -> BOOLEAN]
    BY <1>1 DEF Shape, ThreadType
  <2>2. pc' \in [Threads -> Steps]
    BY <1>1 DEF Shape, ThreadType, Steps
  <2>3. armed' \subseteq {u \in Threads : pc'[u] \in {"completed", "status", "wait", "result"}}
    BY <1>1 DEF Shape, ThreadType
  <2> QED
    BY <2>1, <2>2, <2>3 DEF Shape, ThreadType
<1>5. AtInv'
  BY <1>1 DEF Shape, ThreadType, AtInv, AtACard
<1> QED
  BY <1>2, <1>3, <1>4, <1>5 DEF Shape

\* A step that only moves the thread, and arms or disarms nobody else.
LEMMA MoveKeepsShape ==
    ASSUME Shape, NEW t \in Threads, NEW step \in Steps, pc' = [pc EXCEPT ![t] = step],
           armed' \subseteq armed \cup {t},
           t \in armed' => step \in {"completed", "status", "wait", "result"},
           step \in AtACard => pc[t] \in AtACard,
           step \notin {"store", "mark"} \/ pc[t] \in {"store", "mark"},
           UNCHANGED <<agentVars, opVars, todo, at, snap, complete>>,
           read' \in [Threads -> [life : Lives, end : Ends \cup {"none"}]],
           ImplType'
    PROVE  Shape'
<1>1. AgentType' /\ OpType' /\ LifeInv' /\ SeatInv'
  BY DEF Shape, AgentType, OpType, LifeInv, SeatInv, agentVars, opVars
<1>2. ThreadType'
  <2>1. pc' \in [Threads -> Steps] /\ pc'[t] = step /\ \A u \in Threads \ {t} : pc'[u] = pc[u]
    BY DEF Shape, ThreadType
  <2>2. armed' \subseteq {u \in Threads : pc'[u] \in {"completed", "status", "wait", "result"}}
    BY <2>1 DEF Shape, ThreadType
  <2> QED
    BY <2>1, <2>2 DEF Shape, ThreadType
<1>3. AtInv'
  BY DEF Shape, ThreadType, AtInv, AtACard
<1> QED
  BY <1>1, <1>2, <1>3 DEF Shape

\* The tree is taken in.
LEMMA TreeKeepsShape ==
    ASSUME Shape, NEW t \in Threads, GetManagedObjects(t)
    PROVE  Shape'
<1> DEFINE tree == [r \in Readers |-> Slot(seat[r])]
<1>1. AgentType' /\ OpType' /\ ImplType' /\ LifeInv' /\ SeatInv'
  BY DEF GetManagedObjects, Shape, AgentType, OpType, ImplType, LifeInv, SeatInv, agentVars, opVars, implVars
<1>2. UNCHANGED <<at, armed, read>> /\ pc[t] = "tree"
  BY DEF GetManagedObjects
<1>3. \A r \in Readers : /\ Slot(seat[r]) \in [card : Cards \cup {NoCard}, life : Lives]
                         /\ Slot(seat[r]).card = seat[r]
  BY SlotType DEF Shape, AgentType
<1>4. EmptySnapshot \in [Readers -> [card : Cards \cup {NoCard}, life : Lives]]
  BY ClientAssumption DEF EmptySnapshot, NoSlot, Lives
<1>5. tree \in [Readers -> [card : Cards \cup {NoCard}, life : Lives]]
  BY <1>3
<1>6. \A r \in Readers : seat[r] # NoCard => tree[r].card \in Cards
  BY <1>3 DEF Shape, AgentType
<1>7. PICK new \in [Readers -> [card : Cards \cup {NoCard}, life : Lives]], left \in SUBSET Readers,
           done \in BOOLEAN, step \in {"reader", "store"} :
        /\ snap' = [snap EXCEPT ![t] = new] /\ todo' = [todo EXCEPT ![t] = left]
        /\ complete' = [complete EXCEPT ![t] = done] /\ pc' = [pc EXCEPT ![t] = step]
        /\ \A r \in left : new[r].card \in Cards
        /\ step = "store" => left = {}
  <2>1. CASE up
    <3> DEFINE left == {r \in Readers : seat[r] # NoCard}
    <3>1. /\ snap' = [snap EXCEPT ![t] = tree] /\ todo' = [todo EXCEPT ![t] = left]
          /\ complete' = [complete EXCEPT ![t] = TRUE] /\ pc' = [pc EXCEPT ![t] = "reader"]
      BY <2>1 DEF GetManagedObjects, Goto
    <3>2. left \in SUBSET Readers /\ \A r \in left : tree[r].card \in Cards
      BY <1>6
    <3> HIDE DEF left, tree
    <3> QED
      BY <1>5, <3>1, <3>2
  <2>2. CASE ~up
    BY <1>4, <2>2 DEF GetManagedObjects, Goto
  <2> QED
    BY <2>1, <2>2
<1> HIDE DEF tree
<1>8. ThreadType'
  <2>1. pc' \in [Threads -> Steps] /\ \A u \in Threads \ {t} : pc'[u] = pc[u]
    BY <1>7 DEF Shape, ThreadType, Steps
  <2>2. snap' \in [Threads -> [Readers -> [card : Cards \cup {NoCard}, life : Lives]]]
    BY <1>7 DEF Shape, ThreadType
  <2>3. todo' \in [Threads -> SUBSET Readers] /\ complete' \in [Threads -> BOOLEAN]
    BY <1>7 DEF Shape, ThreadType
  <2>4. armed' \subseteq {u \in Threads : pc'[u] \in {"completed", "status", "wait", "result"}}
    BY <1>2, <2>1 DEF Shape, ThreadType
  <2> QED
    BY <1>2, <2>1, <2>2, <2>3, <2>4 DEF Shape, ThreadType
<1>9. AtInv'
  BY <1>2, <1>7 DEF Shape, ThreadType, AtInv, AtACard
<1> QED
  BY <1>1, <1>8, <1>9 DEF Shape

\* Going on to the next reader keeps the shape.
LEMMA ReaderKeepsShape ==
    ASSUME Shape, NEW t \in Threads, NextReader(t)
    PROVE  Shape'
<1>1. AgentType' /\ OpType' /\ ImplType' /\ LifeInv' /\ SeatInv'
  BY DEF NextReader, Shape, AgentType, OpType, ImplType, LifeInv, SeatInv, agentVars, opVars, implVars
<1>2. UNCHANGED <<snap, complete, armed>> /\ pc[t] = "reader" /\ t \notin armed
  BY DEF NextReader, Shape, ThreadType
<1>3. CASE todo[t] = {} /\ Goto(t, "store") /\ UNCHANGED <<todo, at, read>>
  <2>1. ThreadType'
    BY <1>2, <1>3 DEF Goto, Shape, ThreadType, Steps
  <2>2. AtInv'
    BY <1>2, <1>3 DEF Goto, Shape, ThreadType, AtInv, AtACard
  <2> QED
    BY <1>1, <2>1, <2>2 DEF Shape
<1>4. ASSUME NEW r \in todo[t],
             todo' = [todo EXCEPT ![t] = @ \ {r}], at' = [at EXCEPT ![t] = r],
             LET before == {s \in settled : s.card = snap[t][r].card}
             IN IF before = {}
                THEN read' = [read EXCEPT ![t] = NoRead] /\ Goto(t, "call")
                ELSE /\ read' = [read EXCEPT ![t] = [NoRead EXCEPT !.life = (CHOOSE s \in before : TRUE).life]]
                     /\ Goto(t, "settle")
      PROVE  Shape'
  <2>1. r \in Readers /\ snap[t][r].card \in Cards
    BY DEF Shape, ThreadType, AtInv
  <2>2. \E step \in {"call", "settle"} : pc' = [pc EXCEPT ![t] = step]
    BY <1>4 DEF Goto
  <2>3. read' \in [Threads -> [life : Lives, end : Ends \cup {"none"}]]
    <3> DEFINE before == {s \in settled : s.card = snap[t][r].card}
    <3>1. CASE before = {}
      <4>1. read' = [read EXCEPT ![t] = NoRead]
        BY <1>4, <3>1
      <4>2. NoRead \in [life : Lives, end : Ends \cup {"none"}]
        BY ClientAssumption DEF NoRead, Lives
      <4> QED
        BY <4>1, <4>2 DEF Shape, ThreadType
    <3>2. CASE before # {}
      <4> DEFINE s == CHOOSE s \in before : TRUE
      <4>1. s \in settled
        BY <3>2
      <4>2. s.life \in Lives
        BY <4>1 DEF Shape, ImplType
      <4>3. read' = [read EXCEPT ![t] = [NoRead EXCEPT !.life = s.life]]
        BY <1>4, <3>2
      <4> HIDE DEF s
      <4>4. [NoRead EXCEPT !.life = s.life] \in [life : Lives, end : Ends \cup {"none"}]
        BY <4>2 DEF NoRead
      <4> QED
        BY <4>3, <4>4 DEF Shape, ThreadType
    <3> QED
      BY <3>1, <3>2
  <2>4. ThreadType'
    <3>1. at' \in [Threads -> Readers \cup {NoReader}] /\ todo' \in [Threads -> SUBSET Readers]
      <4>1. todo[t] \ {r} \in SUBSET Readers
        BY DEF Shape, ThreadType
      <4>2. todo' \in [Threads -> SUBSET Readers]
        BY <1>4, <4>1 DEF Shape, ThreadType
      <4>3. at' \in [Threads -> Readers \cup {NoReader}]
        BY <1>4, <2>1 DEF Shape, ThreadType
      <4> QED
        BY <4>2, <4>3
    <3>2. pc' \in [Threads -> Steps] /\ \A u \in Threads \ {t} : pc'[u] = pc[u]
      BY <2>2 DEF Shape, ThreadType, Steps
    <3>3. armed' \subseteq {u \in Threads : pc'[u] \in {"completed", "status", "wait", "result"}}
      BY <1>2, <3>2 DEF Shape, ThreadType
    <3> QED
      BY <1>2, <2>3, <3>1, <3>2, <3>3 DEF Shape, ThreadType
  <2>5. AtInv'
    BY <1>2, <1>4, <2>1, <2>2 DEF Shape, ThreadType, AtInv, AtACard
  <2> QED
    BY <1>1, <2>4, <2>5 DEF Shape
<1> QED
  BY <1>3, <1>4 DEF NextReader

\* readCertificates(), step by step.
LEMMA ReadKeepsShape ==
    ASSUME Shape, NEW t \in Threads, ReadStep(t)
    PROVE  Shape'
<1>1. /\ op[t] \in [state : {"none", "running", "completed", "finished", "gone"},
                    life : Lives, end : Ends \cup {"none"}]
      /\ read[t] \in [life : Lives, end : Ends \cup {"none"}]
      /\ read \in [Threads -> [life : Lives, end : Ends \cup {"none"}]]
      /\ (UNCHANGED implVars => ImplType')
  BY DEF Shape, OpType, ThreadType, ImplType, implVars
<1>2. ASSUME NEW outcome, EndRead(t, outcome), pc[t] \in AtACard,
             UNCHANGED <<agentVars, implVars, todo, at, snap, read>>
      PROVE  Shape'
  BY <1>1, <1>2, EndReadKeepsShape
<1>3. CASE CallReadCertificates(t)
  <2> DEFINE c == snap[t][at[t]].card
  <2>1. c \in Cards /\ life[c] \in Lives /\ pc[t] = "call"
    BY <1>3 DEF CallReadCertificates, Shape, AgentType, AtInv, AtACard
  <2>2. UNCHANGED <<agentVars, implVars, todo, at, snap>>
    BY <1>3 DEF CallReadCertificates
  <2>3. CASE /\ op' = [op EXCEPT ![t] = [state |-> "running", life |-> life[c], end |-> "none"]]
             /\ Goto(t, "arm")
             /\ UNCHANGED <<finished, complete, armed, read>>
    <3>1. AgentType' /\ ImplType' /\ LifeInv' /\ SeatInv'
      BY <2>2 DEF Shape, AgentType, ImplType, LifeInv, SeatInv, agentVars, implVars
    <3>2. [state |-> "running", life |-> life[c], end |-> "none"]
            \in [state : {"none", "running", "completed", "finished", "gone"}, life : Lives, end : Ends \cup {"none"}]
      BY <2>1
    <3> HIDE DEF c
    <3>3. OpType'
      BY <2>3, <3>2 DEF Shape, OpType
    <3>4. ThreadType'
      BY <2>1, <2>2, <2>3 DEF Shape, ThreadType, Goto, Steps
    <3>5. AtInv'
      BY <2>1, <2>2, <2>3 DEF Shape, ThreadType, AtInv, AtACard, Goto
    <3> QED
      BY <3>1, <3>3, <3>4, <3>5 DEF Shape
  <2>4. CASE read' = [read EXCEPT ![t].life = life[c]] /\ EndRead(t, "Settled")
    <3>1. read' \in [Threads -> [life : Lives, end : Ends \cup {"none"}]]
      <4> HIDE DEF c
      <4> QED
        BY <1>1, <2>1, <2>4
    <3> QED
      BY <2>1, <2>2, <2>4, <3>1, EndReadKeepsShape DEF AtACard
  <2>5. CASE EndRead(t, "AskAgain") /\ UNCHANGED read
    BY <1>2, <2>1, <2>2, <2>5 DEF AtACard
  <2> QED
    BY <1>3, <2>3, <2>4, <2>5 DEF CallReadCertificates
<1>4. CASE Arm(t)
  <2>1. /\ pc[t] = "arm" /\ armed' = armed \cup {t} /\ pc' = [pc EXCEPT ![t] = "completed"]
        /\ UNCHANGED <<agentVars, opVars, implVars, todo, at, snap, complete, read>>
    BY <1>4 DEF Arm, Goto
  <2> QED
    BY <1>1, <2>1, MoveKeepsShape DEF AtACard, Steps
<1>5. CASE GetCompleted(t)
  <2>1. PICK step \in {"wait", "status"} : pc' = [pc EXCEPT ![t] = step]
    BY <1>5 DEF GetCompleted, Goto
  <2>2. pc[t] = "completed" /\ UNCHANGED <<agentVars, opVars, implVars, todo, at, snap, complete, armed, read>>
    BY <1>5 DEF GetCompleted
  <2> QED
    BY <1>1, <2>1, <2>2, MoveKeepsShape DEF AtACard, Steps
<1>6. ASSUME TakeStatus(t), pc[t] \in {"status", "wait"} PROVE Shape'
  <2>1. read' = [read EXCEPT ![t] = [life |-> op[t].life, end |-> op[t].end]]
    BY <1>6 DEF TakeStatus
  <2>2. read' \in [Threads -> [life : Lives, end : Ends \cup {"none"}]]
    BY <1>1, <2>1
  <2>3. UNCHANGED <<agentVars, implVars, todo, at, snap>>
    BY <1>6 DEF TakeStatus
  <2>4. CASE op[t].end = "Ok"
    <3>1. pc' = [pc EXCEPT ![t] = "result"] /\ UNCHANGED <<op, finished, complete, armed>>
      BY <1>6, <2>4 DEF TakeStatus, Goto
    <3> QED
      BY <1>1, <1>6, <2>2, <2>3, <3>1, MoveKeepsShape DEF AtACard, Steps, opVars
  <2>5. CASE op[t].end # "Ok"
    <3>1. PICK outcome \in {"Settled", "AskAgain"} : EndRead(t, outcome)
      BY <1>6, <2>5 DEF TakeStatus
    <3> QED
      BY <1>6, <2>2, <2>3, <3>1, EndReadKeepsShape DEF AtACard
  <2> QED
    BY <2>4, <2>5
<1>7. CASE GetStatus(t) \/ WakeUp(t)
  BY <1>6, <1>7 DEF GetStatus, WakeUp
<1>8. CASE TimeOut(t) \/ GetResult(t) \/ CallThrows(t)
  BY <1>2, <1>8 DEF TimeOut, GetResult, CallThrows, AtACard
<1> QED
  BY <1>3, <1>4, <1>5, <1>7, <1>8 DEF ReadStep

\* The rest of snapshot().
LEMMA SnapshotKeepsShape ==
    ASSUME Shape, NEW t \in Threads, BeginSnapshot(t) \/ SnapshotStep(t)
    PROVE  Shape'
<1>1. t \in armed => pc[t] \in AtACard
  BY DEF Shape, ThreadType, AtACard
<1>2. read \in [Threads -> [life : Lives, end : Ends \cup {"none"}]]
  BY DEF Shape, ThreadType
<1>3. CASE BeginSnapshot(t)
  <2>1. /\ pc[t] = "idle" /\ pc' = [pc EXCEPT ![t] = "generation"] /\ ImplType'
        /\ UNCHANGED <<agentVars, opVars, todo, at, snap, complete, armed, read>>
    BY <1>3 DEF BeginSnapshot, Goto, Shape, ImplType
  <2> QED
    BY <1>1, <1>2, <2>1, MoveKeepsShape DEF AtACard, Steps
<1>4. CASE CaptureGeneration(t)
  <2>1. /\ pc[t] = "generation" /\ pc' = [pc EXCEPT ![t] = "tree"] /\ ImplType'
        /\ UNCHANGED <<agentVars, opVars, todo, at, snap, complete, armed, read>>
    BY <1>4 DEF CaptureGeneration, Goto, Shape, ImplType
  <2> QED
    BY <1>1, <1>2, <2>1, MoveKeepsShape DEF AtACard, Steps
<1>5. CASE Settle(t)
  <2>1. /\ pc[t] = "settle" /\ pc' = [pc EXCEPT ![t] = "reader"]
        /\ UNCHANGED <<agentVars, opVars, dirty, cached, outdated, handler, todo, at, snap, complete, armed, read>>
    BY <1>5 DEF Settle, Goto
  <2>2. snap[t][at[t]].card \in Cards /\ read[t].life \in Lives
    BY <2>1 DEF Shape, ThreadType, AtInv, AtACard
  <2>3. ImplType'
    BY <1>5, <2>1, <2>2 DEF Settle, Shape, ImplType
  <2>4. t \notin armed
    BY <2>1 DEF Shape, ThreadType
  <2> QED
    BY <1>2, <2>1, <2>3, <2>4, MoveKeepsShape DEF AtACard, Steps
<1>6. CASE StoreSnapshot(t)
  <2>1. /\ pc[t] = "store" /\ pc' = [pc EXCEPT ![t] = "mark"] /\ cached' = snap[t]
        /\ UNCHANGED <<agentVars, opVars, dirty, settled, outdated, handler, todo, at, snap, complete, armed, read>>
    BY <1>6 DEF StoreSnapshot, Goto
  <2>2. ImplType'
    BY <2>1 DEF Shape, ImplType, ThreadType
  <2> QED
    BY <1>1, <1>2, <2>1, <2>2, MoveKeepsShape DEF AtACard, Steps
<1>7. CASE KeepOrMark(t)
  <2>1. /\ pc[t] = "mark" /\ pc' = [pc EXCEPT ![t] = "idle"]
        /\ dirty' = (dirty \/ ~complete[t]) /\ outdated' = outdated \cup {t}
        /\ snap' = [snap EXCEPT ![t] = EmptySnapshot] /\ at' = [at EXCEPT ![t] = NoReader]
        /\ read' = [read EXCEPT ![t] = NoRead] /\ complete' = [complete EXCEPT ![t] = FALSE]
        /\ UNCHANGED <<agentVars, opVars, cached, settled, handler, todo, armed>>
    BY <1>7 DEF KeepOrMark, Goto
  <2>2. EmptySnapshot \in [Readers -> [card : Cards \cup {NoCard}, life : Lives]]
    BY ClientAssumption DEF EmptySnapshot, NoSlot, Lives
  <2>3. NoRead \in [life : Lives, end : Ends \cup {"none"}]
    BY ClientAssumption DEF NoRead, Lives
  <2>4. AgentType' /\ OpType' /\ LifeInv' /\ SeatInv'
    BY <2>1 DEF Shape, AgentType, OpType, LifeInv, SeatInv, agentVars, opVars
  <2>5. ImplType'
    BY <2>1 DEF Shape, ImplType
  <2>6. ThreadType'
    <3>1. pc' \in [Threads -> Steps] /\ \A u \in Threads \ {t} : pc'[u] = pc[u]
      BY <2>1 DEF Shape, ThreadType, Steps
    <3>2. /\ snap' \in [Threads -> [Readers -> [card : Cards \cup {NoCard}, life : Lives]]]
          /\ read' \in [Threads -> [life : Lives, end : Ends \cup {"none"}]]
      BY <2>1, <2>2, <2>3 DEF Shape, ThreadType
    <3>3. armed' \subseteq {u \in Threads : pc'[u] \in {"completed", "status", "wait", "result"}}
      BY <2>1, <3>1 DEF Shape, ThreadType
    <3> QED
      BY <2>1, <3>1, <3>2, <3>3 DEF Shape, ThreadType
  <2>7. AtInv'
    BY <2>1 DEF Shape, ThreadType, AtInv, AtACard
  <2> QED
    BY <2>4, <2>5, <2>6, <2>7 DEF Shape
<1> QED
  BY <1>3, <1>4, <1>5, <1>6, <1>7, TreeKeepsShape, ReaderKeepsShape, ReadKeepsShape DEF SnapshotStep

\* Every step keeps the shape.
LEMMA ShapeStep == Shape /\ [Next]_vars => Shape'
<1> SUFFICES ASSUME Shape, [Next]_vars PROVE Shape'
  OBVIOUS
<1>1. CASE Agent
  BY <1>1, AgentKeepsShape, SignalsKeepShape DEF Agent
<1>2. CASE EventLoop
  BY <1>2, SignalsKeepShape DEF EventLoop
<1>3. ASSUME NEW t \in Threads, BeginSnapshot(t) \/ SnapshotStep(t) PROVE Shape'
  BY <1>3, SnapshotKeepsShape
<1>4. CASE UNCHANGED vars
  BY <1>4 DEF vars, agentVars, opVars, implVars, threadVars, Shape, AgentType, OpType, ImplType, ThreadType,
         LifeInv, SeatInv, AtInv
<1> QED
  BY <1>1, <1>2, <1>3, <1>4 DEF Next

\* Every variable of the client and of its view of the agent stays in its range, and
\* a Finished handler is armed only inside readCertificates().
THEOREM TypeCorrect == Spec => []TypeOK
<1>1. Shape => TypeOK
  BY DEF Shape, AgentType, OpType, ImplType, ThreadType, TypeOK
<1> QED
  BY <1>1, ShapeInit, ShapeStep, PTL DEF Spec

-----------------------------------------------------------------------------
(* A signal that is waited for comes.                                      *)

ComingInv ==
    \A t \in Threads :
        /\ pc[t] \in {"completed", "wait"} => t \in armed
        /\ pc[t] = "wait" /\ op[t].state = "finished" => finished[t] # "none"

\* Every step keeps the Finished of a waiting thread to come.
LEMMA ComingStep == Shape /\ ComingInv /\ [Next]_vars => ComingInv'
<1> SUFFICES ASSUME Shape, ComingInv, [Next]_vars PROVE ComingInv'
  OBVIOUS
<1>1. /\ pc \in [Threads -> Steps]
      /\ op \in [Threads -> [state : {"none", "running", "completed", "finished", "gone"},
                             life : Lives, end : Ends \cup {"none"}]]
      /\ finished \in [Threads -> {"none", "flying", "handled"}]
  BY DEF Shape, OpType, ThreadType
<1>2. ASSUME UNCHANGED <<pc, op, finished, armed>> PROVE ComingInv'
  BY <1>2 DEF ComingInv
<1>3. CASE Crash
  BY <1>1, <1>3 DEF Crash, ComingInv, implVars, threadVars
<1>4. ASSUME NEW t \in Threads, Complete(t) \/ EmitFinished(t) \/ Evict(t) \/ HandleFinished(t)
      PROVE  ComingInv'
  <2>1. UNCHANGED <<pc, armed>> /\ \A u \in Threads \ {t} : op'[u] = op[u] /\ finished'[u] = finished[u]
    BY <1>1, <1>4 DEF Complete, EmitFinished, Evict, HandleFinished, threadVars
  <2>2. \/ op'[t].state # "finished"
        \/ finished'[t] = IF t \in armed THEN "flying" ELSE "none"
        \/ op'[t] = op[t] /\ finished'[t] = IF t \in armed THEN "handled" ELSE "none"
    BY <1>1, <1>4 DEF Complete, EmitFinished, Evict, HandleFinished
  <2> QED
    BY <2>1, <2>2 DEF ComingInv
<1>5. ASSUME NEW t \in Threads, NEW outcome, EndRead(t, outcome) PROVE ComingInv'
  BY <1>1, <1>5 DEF EndRead, Goto, ComingInv
<1>6. ASSUME NEW t \in Threads, NEW step \in Steps \ {"completed", "wait"}, Goto(t, step),
             UNCHANGED <<op, finished, armed>>
      PROVE  ComingInv'
  BY <1>1, <1>6 DEF Goto, ComingInv
<1>7. ASSUME NEW t \in Threads, CallReadCertificates(t) PROVE ComingInv'
  <2>1. CASE /\ op' = [op EXCEPT ![t] = [state |-> "running", life |-> life[snap[t][at[t]].card], end |-> "none"]]
             /\ Goto(t, "arm")
             /\ UNCHANGED <<finished, complete, armed, read>>
    BY <1>1, <2>1 DEF Goto, ComingInv
  <2> QED
    BY <1>5, <1>7, <2>1 DEF CallReadCertificates
<1>8. ASSUME NEW t \in Threads, Arm(t) PROVE ComingInv'
  BY <1>1, <1>8 DEF Arm, Goto, ComingInv, opVars
<1>9. ASSUME NEW t \in Threads, GetCompleted(t) PROVE ComingInv'
  BY <1>1, <1>9 DEF GetCompleted, Goto, ComingInv, opVars
<1>10. ASSUME NEW t \in Threads, TakeStatus(t) PROVE ComingInv'
  BY <1>5, <1>6, <1>10 DEF TakeStatus, Steps
<1>11. ASSUME NEW t \in Threads, ReadStep(t) PROVE ComingInv'
  BY <1>5, <1>7, <1>8, <1>9, <1>10, <1>11 DEF ReadStep, GetStatus, WakeUp, TimeOut, GetResult, CallThrows
<1>12. ASSUME NEW t \in Threads,
              \/ BeginSnapshot(t) \/ CaptureGeneration(t) \/ GetManagedObjects(t) \/ NextReader(t)
              \/ Settle(t) \/ StoreSnapshot(t) \/ KeepOrMark(t)
       PROVE  ComingInv'
  <2>1. UNCHANGED <<op, finished, armed>>
    BY <1>12 DEF BeginSnapshot, CaptureGeneration, GetManagedObjects, NextReader, Settle, StoreSnapshot, KeepOrMark,
           opVars
  <2>2. PICK step \in Steps \ {"completed", "wait"} : Goto(t, step)
    BY <1>12 DEF BeginSnapshot, CaptureGeneration, GetManagedObjects, NextReader, Settle, StoreSnapshot, KeepOrMark,
           Steps
  <2> QED
    BY <1>6, <2>1, <2>2
<1>13. ASSUME NEW t \in Threads, BeginSnapshot(t) \/ SnapshotStep(t) PROVE ComingInv'
  BY <1>11, <1>12, <1>13 DEF SnapshotStep
<1>14. CASE EventLoop
  BY <1>2, <1>4, <1>14 DEF EventLoop, HandleSignal, MarkDirty, opVars, threadVars
<1>15. CASE Agent
  BY <1>2, <1>3, <1>4, <1>15 DEF Agent, Seat, Publish, Clear, Withdraw, Restart, opVars, threadVars
<1>16. CASE UNCHANGED vars
  BY <1>2, <1>16 DEF vars, opVars, threadVars
<1> QED
  BY <1>13, <1>14, <1>15, <1>16 DEF Next

\* readCertificates() waits only for a Finished that its handler will be given, as
\* CertificateRead.h argues from arming before asking: for any number of threads.
THEOREM FinishedComes == Spec => []FinishedStillComing
<1>1. Init => ComingInv
  BY DEF Init, ComingInv
<1>2. ComingInv => FinishedStillComing
  BY DEF ComingInv, FinishedStillComing
<1> QED
  BY <1>1, <1>2, ShapeInit, ShapeStep, ComingStep, PTL DEF Spec

-----------------------------------------------------------------------------
(* A card that is settled is the one whose read settled it.                *)

\* What is known of path c is of the card it names now, whose object is still on
\* the bus; or the agent is down; or a signal is on its way that says otherwise.
Fresh(c, l) == signals > 0 \/ (l = life[c] /\ (up => c \in onBus))

Here(t) == snap[t][at[t]].card

FreshInv ==
    /\ \A s \in settled : Fresh(s.card, s.life)
    /\ \A t \in Threads \ outdated :
         /\ pc[t] \in {"arm", "completed", "status", "wait"} => Fresh(Here(t), op[t].life)
         /\ pc[t] = "settle" => Fresh(Here(t), read[t].life)

\* The agent does nothing to a fresh fact but announce its end.
LEMMA FreshStays ==
    ASSUME Shape, NEW c \in Cards, NEW l, Fresh(c, l),
           \/ \E r \in Readers : (\E d \in Cards : Seat(r, d)) \/ Publish(r) \/ Clear(r)
           \/ \E d \in Cards : Withdraw(d)
           \/ Crash \/ Restart
    PROVE  Fresh(c, l)'
<1> USE DEF Shape, AgentType, SeatInv, Fresh
<1>1. ASSUME NEW r \in Readers, NEW d \in Cards, Seat(r, d) PROVE Fresh(c, l)'
  BY <1>1 DEF Seat
<1>2. ASSUME NEW r \in Readers, Publish(r) PROVE Fresh(c, l)'
  BY <1>2 DEF Publish
<1>3. ASSUME NEW r \in Readers, Clear(r) PROVE Fresh(c, l)'
  BY <1>3 DEF Clear
<1>4. ASSUME NEW d \in Cards, Withdraw(d) PROVE Fresh(c, l)'
  BY <1>4 DEF Withdraw
<1>5. CASE Crash
  BY <1>5 DEF Crash
<1>6. CASE Restart
  BY <1>6 DEF Restart
<1> QED
  BY <1>1, <1>2, <1>3, <1>4, <1>5, <1>6

\* The steps of snapshot() keep the settled cards and the reads in flight true.
LEMMA FreshThread ==
    ASSUME Shape, FreshInv, NEW t \in Threads, BeginSnapshot(t) \/ SnapshotStep(t)
    PROVE  FreshInv'
<1>1. /\ pc \in [Threads -> Steps] /\ at \in [Threads -> Readers \cup {NoReader}]
      /\ op \in [Threads -> [state : {"none", "running", "completed", "finished", "gone"},
                             life : Lives, end : Ends \cup {"none"}]]
      /\ read \in [Threads -> [life : Lives, end : Ends \cup {"none"}]]
      /\ snap \in [Threads -> [Readers -> [card : Cards \cup {NoCard}, life : Lives]]]
  BY DEF Shape, OpType, ThreadType
<1>2. UNCHANGED agentVars
  BY DEF BeginSnapshot, SnapshotStep, CaptureGeneration, GetManagedObjects, NextReader, ReadStep,
     CallReadCertificates, Arm, GetCompleted, GetStatus, WakeUp, TakeStatus, TimeOut, GetResult, CallThrows,
     Settle, StoreSnapshot, KeepOrMark
<1>3. \A c, l : Fresh(c, l)' <=> Fresh(c, l)
  BY <1>2 DEF Fresh, agentVars
\* The step leaves the other threads alone; this is what remains to be shown.
<1> DEFINE Own == /\ \A s \in settled' : Fresh(s.card, s.life)
                  /\ t \notin outdated' =>
                       /\ pc'[t] \in {"arm", "completed", "status", "wait"} => Fresh(Here(t)', op'[t].life)
                       /\ pc'[t] = "settle" => Fresh(Here(t)', read'[t].life)
<1>4. SUFFICES Own
  <2>1. ASSUME NEW u \in Threads \ {t}
        PROVE  /\ u \in outdated' <=> u \in outdated
               /\ pc'[u] = pc[u] /\ at'[u] = at[u] /\ op'[u] = op[u] /\ read'[u] = read[u] /\ snap'[u] = snap[u]
    <3> USE DEF Goto
    <3>1. CASE BeginSnapshot(t) \/ CaptureGeneration(t) \/ GetManagedObjects(t) \/ Settle(t) \/ StoreSnapshot(t)
      BY <1>1, <3>1 DEF BeginSnapshot, CaptureGeneration, GetManagedObjects, Settle, StoreSnapshot, opVars, implVars
    <3>2. CASE NextReader(t) \/ KeepOrMark(t)
      BY <1>1, <3>2 DEF NextReader, KeepOrMark, opVars, implVars
    <3>3. CASE ReadStep(t)
      BY <1>1, <3>3 DEF ReadStep, CallReadCertificates, Arm, GetCompleted, GetStatus, WakeUp, TakeStatus, TimeOut,
             GetResult, CallThrows, EndRead, opVars, implVars
    <3> QED
      BY <3>1, <3>2, <3>3 DEF SnapshotStep
  <2>2. \A u \in Threads \ {t} : Here(u)' = Here(u)
    BY <2>1 DEF Here
  <2> QED
    BY <1>3, <2>1, <2>2 DEF FreshInv
<1>5. CASE BeginSnapshot(t) \/ CaptureGeneration(t) \/ GetManagedObjects(t) \/ StoreSnapshot(t) \/ KeepOrMark(t)
  BY <1>1, <1>5 DEF BeginSnapshot, CaptureGeneration, GetManagedObjects, StoreSnapshot, KeepOrMark, Goto, implVars,
         FreshInv
<1>6. CASE NextReader(t)
  <2>1. UNCHANGED <<settled, outdated, snap>>
    BY <1>6 DEF NextReader, implVars
  <2>2. CASE pc'[t] # "settle"
    BY <1>1, <1>6, <2>1, <2>2 DEF NextReader, Goto, FreshInv
  <2>3. CASE pc'[t] = "settle"
    <3>1. PICK r \in todo[t] :
            LET before == {s \in settled : s.card = snap[t][r].card}
            IN /\ at' = [at EXCEPT ![t] = r]
               /\ before # {}
               /\ read' = [read EXCEPT ![t] = [NoRead EXCEPT !.life = (CHOOSE s \in before : TRUE).life]]
      BY <1>1, <1>6, <2>3 DEF NextReader, Goto
    <3> DEFINE before == {s \in settled : s.card = snap[t][r].card}
               s == CHOOSE s \in before : TRUE
    <3>2. s \in settled /\ s.card = snap[t][r].card
      BY <3>1
    <3>3. read'[t].life = s.life
      BY <1>1, <3>1 DEF NoRead
    <3>4. Here(t)' = snap[t][r].card
      BY <1>1, <2>1, <3>1 DEF Here
    <3> HIDE DEF s
    <3>5. Fresh(Here(t)', read'[t].life)
      BY <3>2, <3>3, <3>4 DEF FreshInv
    <3> QED
      BY <2>1, <2>3, <3>5 DEF FreshInv
  <2> QED
    BY <2>2, <2>3
<1>7. CASE Settle(t)
  <2>1. pc[t] = "settle" /\ pc' = [pc EXCEPT ![t] = "reader"] /\ UNCHANGED outdated
    BY <1>7 DEF Settle, Goto
  <2>2. settled' = IF t \notin outdated
                   THEN settled \cup {[card |-> Here(t), life |-> read[t].life]}
                   ELSE settled
    BY <1>7 DEF Settle, Here
  <2>3. t \notin outdated => Fresh(Here(t), read[t].life)
    BY <2>1 DEF FreshInv
  <2>4. \A s \in settled' : Fresh(s.card, s.life)
    BY <2>2, <2>3 DEF FreshInv
  <2> QED
    BY <1>1, <2>1, <2>4
<1>8. ASSUME NEW outcome, EndRead(t, outcome), UNCHANGED <<implVars, snap, at>>,
             pc'[t] = "settle" => t \in outdated \/ Fresh(Here(t), read'[t].life)
      PROVE  Own
  <2>1. pc'[t] \in {"settle", "reader"}
    BY <1>1, <1>8 DEF EndRead, Goto
  <2> QED
    BY <1>8, <2>1 DEF FreshInv, implVars, Here
<1>9. CASE CallReadCertificates(t)
  <2>1. UNCHANGED <<implVars, at, snap>> /\ Here(t)' = Here(t)
    BY <1>9 DEF CallReadCertificates, Here
  <2>2. CASE /\ up /\ Here(t) \in onBus
             /\ op' = [op EXCEPT ![t] = [state |-> "running", life |-> life[Here(t)], end |-> "none"]]
             /\ Goto(t, "arm")
    <3>1. Fresh(Here(t), op'[t].life) /\ pc'[t] = "arm"
      BY <1>1, <2>2 DEF Fresh, Goto
    <3> QED
      BY <2>1, <3>1 DEF FreshInv, implVars
  <2>3. CASE /\ up /\ Here(t) \in onBus
             /\ read' = [read EXCEPT ![t].life = life[Here(t)]]
             /\ EndRead(t, "Settled")
    <3>1. Fresh(Here(t), read'[t].life)
      BY <1>1, <2>3 DEF Fresh
    <3> QED
      BY <1>8, <2>1, <2>3, <3>1
  <2>4. CASE EndRead(t, "AskAgain")
    <3>1. pc'[t] = "reader"
      BY <1>1, <2>4 DEF EndRead, Goto
    <3> QED
      BY <1>8, <2>1, <2>4, <3>1
  <2> QED
    BY <1>9, <2>2, <2>3, <2>4 DEF CallReadCertificates, Here
<1>10. CASE Arm(t) \/ GetCompleted(t)
  <2>1. /\ pc[t] \in {"arm", "completed"} /\ pc'[t] \in {"completed", "wait", "status"}
        /\ UNCHANGED <<opVars, implVars, at, snap>>
    BY <1>1, <1>10 DEF Arm, GetCompleted, Goto
  <2> QED
    BY <2>1 DEF FreshInv, opVars, implVars, Here
<1>11. ASSUME TakeStatus(t), pc[t] \in {"status", "wait"} PROVE Own
  <2>1. UNCHANGED <<implVars, at, snap>> /\ read'[t].life = op[t].life
    BY <1>1, <1>11 DEF TakeStatus
  <2>2. t \in outdated \/ Fresh(Here(t), read'[t].life)
    BY <1>11, <2>1 DEF FreshInv
  <2>3. CASE op[t].end = "Ok"
    <3>1. pc'[t] = "result"
      BY <1>1, <1>11, <2>3 DEF TakeStatus, Goto
    <3> QED
      BY <2>1, <3>1 DEF FreshInv, implVars
  <2>4. CASE op[t].end # "Ok"
    <3>1. PICK outcome \in {"Settled", "AskAgain"} : EndRead(t, outcome)
      BY <1>11, <2>4 DEF TakeStatus
    <3> QED
      BY <1>8, <2>1, <2>2, <3>1
  <2> QED
    BY <2>3, <2>4
<1>12. CASE TimeOut(t) \/ GetResult(t) \/ CallThrows(t)
  <2>1. PICK outcome \in {"AskAgain", "Read"} : EndRead(t, outcome)
    BY <1>12 DEF TimeOut, GetResult, CallThrows
  <2>2. pc'[t] = "reader" /\ UNCHANGED <<implVars, snap, at>>
    BY <1>1, <1>12, <2>1 DEF TimeOut, GetResult, CallThrows, EndRead, Goto
  <2> QED
    BY <1>8, <2>1, <2>2
<1> QED
  BY <1>5, <1>6, <1>7, <1>9, <1>10, <1>11, <1>12 DEF SnapshotStep, ReadStep, GetStatus, WakeUp

\* Every step keeps the settled cards and the reads in flight true.
LEMMA FreshStep == Shape /\ FreshInv /\ [Next]_vars => FreshInv'
<1> SUFFICES ASSUME Shape, FreshInv, [Next]_vars PROVE FreshInv'
  OBVIOUS
<1>1. /\ \A s \in settled : s.card \in Cards
      /\ \A t \in Threads : pc[t] \in AtACard => Here(t) \in Cards
  BY DEF Shape, ImplType, AtInv, Here
<1>2. CASE \/ \E r \in Readers : (\E d \in Cards : Seat(r, d)) \/ Publish(r) \/ Clear(r)
           \/ \E d \in Cards : Withdraw(d)
           \/ Crash \/ Restart
  <2>1. UNCHANGED <<implVars, threadVars>>
    BY <1>2 DEF Seat, Publish, Clear, Withdraw, Crash, Restart
  <2>2. \A t \in Threads : op'[t].life = op[t].life /\ Here(t)' = Here(t)
    BY <1>2, <2>1 DEF Seat, Publish, Clear, Withdraw, Crash, Restart, opVars, threadVars, Here, Shape, OpType
  <2>3. \A c \in Cards : \A l : Fresh(c, l) => Fresh(c, l)'
    BY <1>2, FreshStays
  <2> QED
    BY <1>1, <2>1, <2>2, <2>3 DEF FreshInv, implVars, threadVars, AtACard
<1>3. ASSUME NEW t \in Threads, Complete(t) \/ EmitFinished(t) \/ Evict(t) \/ HandleFinished(t)
      PROVE  FreshInv'
  <2>1. UNCHANGED <<agentVars, implVars, threadVars>>
    BY <1>3 DEF Complete, EmitFinished, Evict, HandleFinished
  <2>2. \A u \in Threads : op'[u].life = op[u].life
    <3>1. CASE Complete(t)
      BY <3>1 DEF Complete, Shape, OpType
    <3>2. CASE EmitFinished(t) \/ Evict(t) \/ HandleFinished(t)
      BY <3>2 DEF EmitFinished, Evict, HandleFinished, Shape, OpType
    <3> QED
      BY <1>3, <3>1, <3>2
  <2> QED
    BY <2>1, <2>2 DEF FreshInv, agentVars, implVars, threadVars, Fresh, Here
<1>4. CASE HandleSignal
  BY <1>4 DEF HandleSignal, ForgetSettled, FreshInv
<1>5. CASE MarkDirty
  BY <1>5 DEF MarkDirty, FreshInv, agentVars, opVars, threadVars, Fresh, Here
<1>6. CASE UNCHANGED vars
  BY <1>6 DEF vars, FreshInv, agentVars, opVars, implVars, threadVars, Fresh, Here
<1> QED
  BY <1>2, <1>3, <1>4, <1>5, <1>6, FreshThread DEF Next, Agent, EventLoop

\* At first no card is settled and none is being read.
LEMMA FreshInit == Init => FreshInv
  BY DEF Init, FreshInv

\* The module's settled set never speaks of another card than the one whose read put
\* it there (DBusAgentClient's forgetSettled, readGeneration and settle), for any
\* number of threads, and however often the agent restarts under them.
THEOREM SettledStaysTrue == Spec => []SettledIsThisCard
<1>1. FreshInv => SettledIsThisCard
  BY DEF FreshInv, Fresh, SettledIsThisCard, Announced
<1> QED
  BY <1>1, FreshInit, FreshStep, ShapeInit, ShapeStep, PTL DEF Spec

-----------------------------------------------------------------------------
(* A kept snapshot is current, if one thread takes them.                   *)

\* Something will make the next snapshot() enumerate again.
Stale == dirty \/ signals > 0 \/ handler = "marking"

\* A slot that was taken from the tree while nothing was announced since: empty, and
\* its reader at most seats a card that is not announced yet; a card on the bus, in
\* its seat or nowhere; or a card that was not announced when it was taken, which
\* the enumeration will ask for again.
SlotHolds(slot, r, askAgain) ==
    \/ slot = NoSlot /\ (seat[r] = NoCard \/ seat[r] \notin onBus)
    \/ /\ slot.card \in onBus /\ slot.life = life[slot.card]
       /\ seat[r] = slot.card \/ \A q \in Readers : seat[q] # slot.card
    \/ slot.card \notin onBus /\ askAgain

AskAgain(t, r) == ~complete[t] \/ r \in todo[t] \/ (pc[t] = "call" /\ at[t] = r)

Taking == AtACard \cup {"reader", "store", "mark"}

KeptInv ==
    up /\ ~Stale =>
        /\ (\A t \in Threads : pc[t] = "idle") => \A r \in Readers : SlotHolds(cached[r], r, FALSE)
        /\ \A t \in Threads : /\ pc[t] \in Taking => \A r \in Readers : SlotHolds(snap[t][r], r, AskAgain(t, r))
                              /\ pc[t] = "mark" => cached = snap[t]

\* Seating and pulling a card keeps what was taken.
LEMMA SlotStays ==
    ASSUME Shape, NEW q \in Readers, (\E c \in Cards : Seat(q, c)) \/ Clear(q),
           NEW slot, NEW r \in Readers, NEW askAgain \in BOOLEAN, SlotHolds(slot, r, askAgain)
    PROVE  SlotHolds(slot, r, askAgain)'
<1> USE ClientAssumption DEF Shape, AgentType, SeatInv, SlotHolds
<1>1. ASSUME NEW c \in Cards, Seat(q, c) PROVE SlotHolds(slot, r, askAgain)'
  <2>1. /\ seat[q] = NoCard /\ c \notin onBus /\ seat' = [seat EXCEPT ![q] = c]
        /\ life' = [life EXCEPT ![c] = @ + 1] /\ UNCHANGED onBus
    BY <1>1 DEF Seat
  <2> QED
    BY <2>1
<1>2. CASE Clear(q)
  BY <1>2 DEF Clear
<1> QED
  BY <1>1, <1>2

\* The agent and the event-loop thread: whatever they announce makes the cache stale.
LEMMA KeptOthers ==
    ASSUME Shape, KeptInv, Agent \/ EventLoop
    PROVE  KeptInv'
<1>1. ASSUME NEW q \in Readers, (\E c \in Cards : Seat(q, c)) \/ Clear(q) PROVE KeptInv'
  <2>1. UNCHANGED <<up, signals, implVars, threadVars>>
    BY <1>1 DEF Seat, Clear
  <2>2. \A r \in Readers : \A slot : \A again \in BOOLEAN :
          SlotHolds(slot, r, again) => SlotHolds(slot, r, again)'
    BY <1>1, SlotStays
  <2>3. \A t \in Threads : \A r \in Readers : AskAgain(t, r) \in BOOLEAN /\ AskAgain(t, r)' = AskAgain(t, r)
    BY <2>1 DEF AskAgain, threadVars
  <2> QED
    BY <2>1, <2>2, <2>3 DEF KeptInv, Stale, implVars, threadVars
<1>2. ASSUME Stale' \/ ~up' PROVE KeptInv'
  BY <1>2 DEF KeptInv
<1>3. CASE \/ \E r \in Readers : Publish(r)
           \/ \E c \in Cards : Withdraw(c)
           \/ Restart
  BY <1>2, <1>3 DEF Publish, Withdraw, Restart, Stale, Shape, AgentType
<1>4. CASE Crash
  BY <1>2, <1>4 DEF Crash
<1>5. CASE HandleSignal \/ MarkDirty
  BY <1>2, <1>5 DEF HandleSignal, MarkDirty, Stale
<1>6. ASSUME NEW t \in Threads, Complete(t) \/ EmitFinished(t) \/ Evict(t) \/ HandleFinished(t)
      PROVE  KeptInv'
  <2>1. UNCHANGED <<agentVars, implVars, threadVars>>
    BY <1>6 DEF Complete, EmitFinished, Evict, HandleFinished
  <2> QED
    BY <2>1 DEF KeptInv, Stale, SlotHolds, AskAgain, agentVars, implVars, threadVars
<1> QED
  BY <1>1, <1>3, <1>4, <1>5, <1>6 DEF Agent, EventLoop

\* snapshot(), step by step, on the only thread.
LEMMA KeptThread ==
    ASSUME Shape, FreshInv, KeptInv, NEW t \in Threads, Threads = {t}, BeginSnapshot(t) \/ SnapshotStep(t)
    PROVE  KeptInv'
<1>1. /\ pc \in [Threads -> Steps] /\ at \in [Threads -> Readers \cup {NoReader}]
      /\ snap \in [Threads -> [Readers -> [card : Cards \cup {NoCard}, life : Lives]]]
      /\ todo \in [Threads -> SUBSET Readers] /\ complete \in [Threads -> BOOLEAN]
      /\ dirty \in BOOLEAN
  BY DEF Shape, ImplType, ThreadType
<1>2. UNCHANGED agentVars
  BY DEF BeginSnapshot, SnapshotStep, CaptureGeneration, GetManagedObjects, NextReader, ReadStep,
     CallReadCertificates, Arm, GetCompleted, GetStatus, WakeUp, TakeStatus, TimeOut, GetResult, CallThrows,
     Settle, StoreSnapshot, KeepOrMark
<1>3. \A slot, r, again : SlotHolds(slot, r, again)' <=> SlotHolds(slot, r, again)
  BY <1>2 DEF SlotHolds, agentVars
<1> DEFINE Own ==
             /\ pc'[t] = "idle" => \A r \in Readers : SlotHolds(cached'[r], r, FALSE)
             /\ pc'[t] \in Taking => \A r \in Readers : SlotHolds(snap'[t][r], r, AskAgain(t, r)')
             /\ pc'[t] = "mark" => cached' = snap'[t]
<1>4. SUFFICES ASSUME up, ~Stale' PROVE Own
  BY <1>2, <1>3 DEF KeptInv, agentVars
<1>5. CASE BeginSnapshot(t) \/ CaptureGeneration(t)
  BY <1>1, <1>5 DEF BeginSnapshot, CaptureGeneration, Goto, Taking, AtACard
<1>6. CASE GetManagedObjects(t)
  <2>1. /\ snap' = [snap EXCEPT ![t] = [r \in Readers |-> Slot(seat[r])]]
        /\ todo' = [todo EXCEPT ![t] = {r \in Readers : seat[r] # NoCard}]
        /\ pc' = [pc EXCEPT ![t] = "reader"]
    BY <1>4, <1>6 DEF GetManagedObjects, Goto
  <2>2. pc'[t] = "reader" /\ \A r \in Readers : snap'[t][r] = Slot(seat[r])
    BY <1>1, <2>1
  <2>3. ASSUME NEW r \in Readers PROVE SlotHolds(Slot(seat[r]), r, AskAgain(t, r)')
    <3>1. CASE seat[r] = NoCard
      BY <3>1 DEF Slot, NoSlot, SlotHolds
    <3>2. CASE seat[r] # NoCard
      <4>1. AskAgain(t, r)'
        BY <1>1, <2>1, <3>2 DEF AskAgain
      <4>2. Slot(seat[r]).card = seat[r] /\ Slot(seat[r]).life = life[seat[r]]
        BY <3>2 DEF Slot
      <4> QED
        BY <4>1, <4>2 DEF SlotHolds
    <3> QED
      BY <3>1, <3>2
  <2> QED
    BY <2>2, <2>3
\* From here on the snapshot was taken, and nothing announced since.
<1>7. ASSUME ~Stale, pc[t] \in Taking, pc'[t] \in Taking, UNCHANGED <<cached, snap>>,
             \A r \in Readers : snap[t][r].card \notin onBus /\ AskAgain(t, r) => AskAgain(t, r)',
             pc'[t] = "mark" => pc[t] = "mark"
      PROVE  Own
  <2>1. /\ \A r \in Readers : SlotHolds(snap[t][r], r, AskAgain(t, r))
        /\ pc[t] = "mark" => cached = snap[t]
    BY <1>4, <1>7 DEF KeptInv
  <2>2. \A r \in Readers : SlotHolds(snap[t][r], r, AskAgain(t, r)')
    BY <1>7, <2>1 DEF SlotHolds
  <2> QED
    BY <1>7, <2>1, <2>2 DEF Taking, AtACard
<1>8. CASE NextReader(t)
  <2>1. ~Stale /\ pc[t] = "reader" /\ UNCHANGED <<cached, snap, complete, settled, signals>>
    BY <1>4, <1>8 DEF NextReader, Stale, agentVars, implVars
  <2>2. CASE todo[t] = {} /\ Goto(t, "store") /\ UNCHANGED <<todo, at, read>>
    <3>1. \A r \in Readers : AskAgain(t, r) => AskAgain(t, r)'
      BY <1>1, <2>1, <2>2 DEF AskAgain, Goto
    <3>2. pc'[t] = "store"
      BY <1>1, <2>2 DEF Goto
    <3> QED
      BY <1>7, <2>1, <3>1, <3>2 DEF Taking, AtACard
  <2>3. ASSUME NEW r \in todo[t], todo' = [todo EXCEPT ![t] = @ \ {r}], at' = [at EXCEPT ![t] = r],
               \/ Goto(t, "call")
               \/ Goto(t, "settle") /\ {s \in settled : s.card = snap[t][r].card} # {}
        PROVE  Own
    <3>1. pc'[t] \in {"call", "settle"}
      BY <1>1, <2>3 DEF Goto
    <3>2. CASE pc'[t] = "call"
      <4>1. \A q \in Readers : AskAgain(t, q) => AskAgain(t, q)'
        BY <1>1, <2>1, <2>3, <3>2 DEF AskAgain
      <4> QED
        BY <1>7, <2>1, <3>1, <4>1 DEF Taking, AtACard
    <3>3. CASE pc'[t] = "settle"
      <4>1. PICK s \in settled : s.card = snap[t][r].card
        BY <1>1, <2>3, <3>3 DEF Goto
      <4>2. snap[t][r].card \in onBus
        BY <1>4, <2>1, <4>1 DEF FreshInv, Fresh, Stale
      <4>3. \A q \in Readers \ {r} : AskAgain(t, q) => AskAgain(t, q)'
        BY <1>1, <2>1, <2>3 DEF AskAgain
      <4> QED
        BY <1>7, <2>1, <3>1, <4>2, <4>3 DEF Taking, AtACard
    <3> QED
      BY <3>1, <3>2, <3>3
  <2> QED
    BY <1>8, <2>2, <2>3 DEF NextReader
<1>9. ASSUME NEW outcome, EndRead(t, outcome), pc[t] \in AtACard,
             UNCHANGED <<implVars, todo, at, snap>>,
             pc[t] = "call" /\ outcome # "AskAgain" => Here(t) \in onBus
      PROVE  Own
  <2>1. /\ complete'[t] = (complete[t] /\ outcome # "AskAgain")
        /\ pc'[t] \in {"settle", "reader"}
    BY <1>1, <1>9 DEF EndRead, Goto
  <2>2. ~Stale
    BY <1>2, <1>4, <1>9 DEF Stale, implVars, agentVars
  <2>3. \A r \in Readers : snap[t][r].card \notin onBus /\ AskAgain(t, r) => AskAgain(t, r)'
    BY <1>9, <2>1 DEF AskAgain, Here
  <2> QED
    BY <1>7, <1>9, <2>1, <2>2, <2>3 DEF Taking, AtACard, implVars
<1>10. ASSUME pc[t] \in AtACard, pc[t] # "call", pc'[t] \in AtACard \cup {"reader"},
              UNCHANGED <<dirty, cached, handler, todo, at, snap, complete>>
       PROVE  Own
  <2>1. ~Stale
    BY <1>2, <1>4, <1>10 DEF Stale, agentVars
  <2>2. \A r \in Readers : AskAgain(t, r) => AskAgain(t, r)'
    BY <1>10 DEF AskAgain
  <2> QED
    BY <1>7, <1>10, <2>1, <2>2 DEF Taking, AtACard
<1>11. CASE CallReadCertificates(t)
  <2>1. UNCHANGED <<implVars, todo, at, snap>> /\ pc[t] = "call"
    BY <1>11 DEF CallReadCertificates
  <2>2. CASE Here(t) \in onBus /\ Goto(t, "arm") /\ UNCHANGED complete
    <3>1. ~Stale
      BY <1>2, <1>4, <2>1 DEF Stale, agentVars, implVars
    <3>2. \A r \in Readers : snap[t][r].card \notin onBus /\ AskAgain(t, r) => AskAgain(t, r)'
      BY <2>1, <2>2 DEF AskAgain, Here
    <3>3. pc'[t] = "arm"
      BY <1>1, <2>2 DEF Goto
    <3> QED
      BY <1>7, <2>1, <3>1, <3>2, <3>3 DEF Taking, AtACard, implVars
  <2>3. CASE Here(t) \in onBus /\ EndRead(t, "Settled")
    BY <1>9, <2>1, <2>3 DEF AtACard
  <2>4. CASE EndRead(t, "AskAgain")
    BY <1>9, <2>1, <2>4 DEF AtACard
  <2> QED
    BY <1>11, <2>2, <2>3, <2>4 DEF CallReadCertificates, Here
<1>12. CASE Arm(t) \/ GetCompleted(t) \/ Settle(t)
  <2>1. /\ pc[t] \in {"arm", "completed", "settle"} /\ pc'[t] \in {"completed", "wait", "status", "reader"}
        /\ UNCHANGED <<dirty, cached, handler, todo, at, snap, complete>>
    BY <1>1, <1>12 DEF Arm, GetCompleted, Settle, Goto, implVars
  <2> QED
    BY <1>10, <2>1 DEF AtACard
<1>13. ASSUME TakeStatus(t), pc[t] \in {"status", "wait"} PROVE Own
  <2>1. UNCHANGED <<implVars, todo, at, snap>>
    BY <1>13 DEF TakeStatus
  <2>2. CASE op[t].end = "Ok"
    <3>1. pc'[t] = "result" /\ UNCHANGED complete
      BY <1>1, <1>13, <2>2 DEF TakeStatus, Goto
    <3> QED
      BY <1>10, <1>13, <2>1, <3>1 DEF AtACard, implVars
  <2>3. CASE op[t].end # "Ok"
    <3>1. PICK outcome \in {"Settled", "AskAgain"} : EndRead(t, outcome)
      BY <1>13, <2>3 DEF TakeStatus
    <3> QED
      BY <1>9, <1>13, <2>1, <3>1 DEF AtACard
  <2> QED
    BY <2>2, <2>3
<1>14. CASE TimeOut(t) \/ GetResult(t) \/ CallThrows(t)
  BY <1>9, <1>14 DEF TimeOut, GetResult, CallThrows, AtACard
<1>15. CASE StoreSnapshot(t)
  <2>1. /\ pc[t] = "store" /\ pc'[t] = "mark" /\ cached' = snap[t]
        /\ UNCHANGED <<dirty, handler, todo, at, snap, complete>>
    BY <1>1, <1>15 DEF StoreSnapshot, Goto
  <2>2. ~Stale
    BY <1>2, <1>4, <2>1 DEF Stale, agentVars
  <2>3. \A r \in Readers : SlotHolds(snap[t][r], r, AskAgain(t, r))
    BY <1>4, <2>1, <2>2 DEF KeptInv, Taking
  <2>4. \A r \in Readers : AskAgain(t, r)' <=> AskAgain(t, r)
    BY <2>1 DEF AskAgain
  <2> QED
    BY <2>1, <2>3, <2>4 DEF SlotHolds
<1>16. CASE KeepOrMark(t)
  <2>1. /\ pc[t] = "mark" /\ pc'[t] = "idle" /\ dirty' = (dirty \/ ~complete[t])
        /\ UNCHANGED <<cached, handler>>
    BY <1>1, <1>16 DEF KeepOrMark, Goto
  <2>2. ~Stale /\ complete[t]
    BY <1>1, <1>2, <1>4, <2>1 DEF Stale, agentVars
  <2>3. cached = snap[t] /\ \A r \in Readers : SlotHolds(snap[t][r], r, AskAgain(t, r))
    BY <1>4, <2>1, <2>2 DEF KeptInv, Taking
  <2>4. \A r \in Readers : ~AskAgain(t, r)
    BY <2>1, <2>2 DEF AskAgain, Shape, AtInv
  <2> QED
    BY <2>1, <2>3, <2>4 DEF SlotHolds, Taking, AtACard
<1> QED
  BY <1>5, <1>6, <1>8, <1>11, <1>12, <1>13, <1>14, <1>15, <1>16 DEF SnapshotStep, ReadStep, GetStatus, WakeUp

\* A module with a single application thread keeps only snapshots that name the card
\* each reader holds (DBusAgentClient::snapshot and its ObjectManager handlers), for
\* any readers and cards, insertions, crashes and restarts.
THEOREM SnapshotOfOneThread ==
    ASSUME \A t, u \in Threads : t = u
    PROVE  Spec => []KeptSnapshotIsCurrent
<1>1. Init => KeptInv
  BY DEF Init, KeptInv, Stale
<1>2. Shape /\ FreshInv /\ KeptInv /\ [Next]_vars => KeptInv'
  <2> SUFFICES ASSUME Shape, FreshInv, KeptInv, [Next]_vars PROVE KeptInv'
    OBVIOUS
  <2>1. ASSUME NEW t \in Threads, BeginSnapshot(t) \/ SnapshotStep(t) PROVE KeptInv'
    <3>1. Threads = {t}
      OBVIOUS
    <3> QED
      BY <2>1, <3>1, KeptThread
  <2>2. CASE UNCHANGED vars
    BY <2>2 DEF vars, agentVars, implVars, threadVars, KeptInv, Stale, SlotHolds, AskAgain
  <2> QED
    BY <2>1, <2>2, KeptOthers DEF Next
<1>3. Shape /\ KeptInv => KeptSnapshotIsCurrent
  <2> SUFFICES ASSUME Shape, KeptInv, Announced, ~dirty, \A t \in Threads : pc[t] = "idle"
               PROVE  CachedIsCurrent
    BY DEF KeptSnapshotIsCurrent
  <2>1. up /\ ~Stale
    BY DEF Announced, Stale
  <2>2. \A r \in Readers : SlotHolds(cached[r], r, FALSE)
    BY <2>1 DEF KeptInv
  <2>3. ASSUME NEW r \in Readers PROVE cached[r] = Slot(seat[r])
    <3>1. cached[r] \in [card : Cards \cup {NoCard}, life : Lives] /\ NoCard \notin Cards
      BY ClientAssumption DEF Shape, ImplType
    <3>2. /\ seat[r] # NoCard => seat[r] \in onBus
          /\ \A c \in onBus : c # NoCard /\ \E q \in Readers : seat[q] = c
      BY DEF Announced
    <3>3. CASE cached[r] = NoSlot /\ (seat[r] = NoCard \/ seat[r] \notin onBus)
      BY <3>2, <3>3 DEF Slot, NoSlot
    <3>4. CASE /\ cached[r].card \in onBus /\ cached[r].life = life[cached[r].card]
               /\ seat[r] = cached[r].card \/ \A q \in Readers : seat[q] # cached[r].card
      <4>1. seat[r] = cached[r].card /\ seat[r] # NoCard
        BY <3>2, <3>4
      <4>2. Slot(seat[r]) = [card |-> cached[r].card, life |-> cached[r].life]
        BY <3>4, <4>1 DEF Slot
      <4> QED
        BY <3>1, <4>2
    <3> QED
      BY <2>2, <3>3, <3>4 DEF SlotHolds
  <2>4. cached \in [Readers -> [card : Cards \cup {NoCard}, life : Lives]]
    BY DEF Shape, ImplType
  <2> QED
    BY <2>3, <2>4 DEF CachedIsCurrent
<1> QED
  BY <1>1, <1>2, <1>3, FreshInit, FreshStep, ShapeInit, ShapeStep, PTL DEF Spec

=============================================================================
