-------------------------- MODULE GrantedCallProofs --------------------------
(***************************************************************************)
(* Proofs about GrantedCall, for any number of calls and clients.  A reply *)
(* is sent by five different places; CallInv says for each stage of a call *)
(* what has been decided, launched and said, so that no place can answer a *)
(* call twice or contradict another.                                       *)
(***************************************************************************)
EXTENDS GrantedCall, TLAPS

\* What holds of one call at each stage.
CallInv ==
    \A k \in Calls :
        /\ stage[k] = "done" <=> reply[k] # "none"
        /\ replies[k] = IF stage[k] = "done" THEN 1 ELSE 0
        /\ stage[k] \in {"idle", "asked"} => outcome[k] = "none"
        /\ stage[k] = "running" => outcome[k] = "Granted" /\ running = k
        /\ k \in launched => outcome[k] = "Granted" /\ stage[k] \in {"running", "done"}
        /\ k \in launched /\ stage[k] = "done" => reply[k] = "Operation"
        /\ reply[k] = "Operation" => k \in launched
        /\ reply[k] = "NotAuthorized" => outcome[k] = "Denied"
        /\ outcome[k] = "Undecided" => reply[k] \in {"none", "NoAnswer", "Stopped"}

\* The gate's mutex and the object's destructor.
GateInv ==
    /\ running # NoCall => stage[running] = "running" /\ gate = "open" /\ agent = "up"
    /\ object = "destroyed" => gate = "closed"

IInv == TypeOK /\ CallInv /\ GateInv

USE DEF callVars, opVars, objVars, Stages, Outcomes, Replies

-----------------------------------------------------------------------------
\* The first state: no call was made yet.
LEMMA InitIInv == Init => IInv
  BY CallAssumption DEF Init, IInv, TypeOK, CallInv, GateInv

\* The one place that answers a call in the loop thread.
LEMMA AnswerType ==
    ASSUME TypeOK, CallInv, NEW k \in Calls, NEW r \in Replies, stage[k] # "done", Answer(k, r)
    PROVE  /\ stage' \in [Calls -> Stages] /\ reply' \in [Calls -> Replies]
           /\ replies' \in [Calls -> 0..1]
  BY DEF TypeOK, CallInv, Answer

\* Dispatching a call, and polkit's answer to it.
LEMMA DispatchIInv ==
    ASSUME IInv, NEW k \in Calls
    PROVE  /\ \A c \in Clients :
                DispatchRefused(k, c) \/ AskFails(k, c) \/ DispatchAsks(k, c) => IInv'
           /\ \A d \in {"Granted", "Denied", "Undecided"} : PolkitAnswers(k, d) => IInv'
<1>1. ASSUME NEW c \in Clients, DispatchRefused(k, c) PROVE IInv'
  <2>1. TypeOK'
    BY <1>1, AnswerType DEF IInv, TypeOK, CallInv, DispatchRefused, Answer
  <2>2. CallInv'
    BY <1>1 DEF IInv, TypeOK, CallInv, DispatchRefused, Answer, LoopFree
  <2>3. GateInv'
    BY <1>1 DEF IInv, GateInv, DispatchRefused, LoopFree
  <2>. QED BY <2>1, <2>2, <2>3 DEF IInv
<1>2. ASSUME NEW c \in Clients, AskFails(k, c) PROVE IInv'
  <2>1. TypeOK'
    BY <1>2, AnswerType DEF IInv, TypeOK, CallInv, AskFails, Answer
  <2>2. CallInv'
    BY <1>2 DEF IInv, TypeOK, CallInv, AskFails, Answer, LoopFree
  <2>3. GateInv'
    BY <1>2 DEF IInv, GateInv, AskFails, LoopFree
  <2>. QED BY <2>1, <2>2, <2>3 DEF IInv
<1>3. ASSUME NEW c \in Clients, DispatchAsks(k, c) PROVE IInv'
  <2>1. TypeOK'
    BY <1>3 DEF IInv, TypeOK, DispatchAsks
  <2>2. CallInv'
    BY <1>3 DEF IInv, TypeOK, CallInv, DispatchAsks
  <2>3. GateInv'
    BY <1>3 DEF IInv, GateInv, DispatchAsks, LoopFree
  <2>. QED BY <2>1, <2>2, <2>3 DEF IInv
<1>4. ASSUME NEW d \in {"Granted", "Denied", "Undecided"}, PolkitAnswers(k, d) PROVE IInv'
  <2>1. TypeOK'
    BY <1>4 DEF IInv, TypeOK, PolkitAnswers
  <2>2. CallInv'
    BY <1>4 DEF IInv, TypeOK, CallInv, PolkitAnswers
  <2>3. GateInv'
    BY <1>4 DEF IInv, TypeOK, GateInv, PolkitAnswers
  <2>. QED BY <2>1, <2>2, <2>3 DEF IInv
<1>. QED BY <1>1, <1>2, <1>3, <1>4

\* The completion on the loop thread.
LEMMA CompleteIInv ==
    ASSUME IInv, NEW k \in Calls, CompleteRefused(k) \/ CompleteGranted(k)
    PROVE  IInv'
<1>1. CASE CompleteRefused(k)
  <2>1. TypeOK'
    <3>1. PICK r \in Replies : Answer(k, r)
      BY <1>1 DEF CompleteRefused
    <3>. QED BY <1>1, <3>1, AnswerType DEF IInv, TypeOK, CompleteRefused
  <2>2. CallInv'
    BY <1>1 DEF IInv, TypeOK, CallInv, CompleteRefused, Answer
  <2>3. GateInv'
    BY <1>1 DEF IInv, GateInv, CompleteRefused, LoopFree
  <2>. QED BY <2>1, <2>2, <2>3 DEF IInv
<1>2. CASE CompleteGranted(k)
  <2>1. TypeOK'
    <3>1. CASE gate = "open"
      BY <1>2, <3>1 DEF IInv, TypeOK, CompleteGranted
    <3>2. CASE gate # "open"
      BY <1>2, <3>2, AnswerType DEF IInv, TypeOK, CompleteGranted
    <3>. QED BY <3>1, <3>2
  <2>2. CallInv'
    BY <1>2, CallAssumption DEF IInv, TypeOK, CallInv, CompleteGranted, Answer, LoopFree
  <2>3. GateInv'
    BY <1>2, CallAssumption DEF IInv, TypeOK, GateInv, CompleteGranted, LoopFree
  <2>. QED BY <2>1, <2>2, <2>3 DEF IInv
<1>. QED BY <1>1, <1>2

\* The granted body, under the gate's mutex, and the end of its operation.
LEMMA BodyIInv ==
    ASSUME IInv, NEW k \in Calls,
           BodyRefuses(k) \/ BodyLaunches(k) \/ BodyReturns(k) \/ OperationEnds(k)
    PROVE  IInv'
<1>0. running = k => stage[k] = "running"
  BY CallAssumption DEF IInv, GateInv
<1>1. CASE BodyRefuses(k)
  <2>1. TypeOK'
    BY <1>0, <1>1, AnswerType DEF IInv, TypeOK, BodyRefuses
  <2>2. CallInv'
    BY <1>0, <1>1 DEF IInv, TypeOK, CallInv, BodyRefuses, Answer
  <2>3. GateInv'
    BY <1>1 DEF IInv, GateInv, BodyRefuses
  <2>. QED BY <2>1, <2>2, <2>3 DEF IInv
<1>2. CASE BodyLaunches(k)
  <2>1. CallInv'
    BY <1>0, <1>2 DEF IInv, TypeOK, CallInv, BodyLaunches
  <2>. QED BY <1>2, <2>1 DEF IInv, TypeOK, GateInv, BodyLaunches
<1>3. CASE BodyReturns(k)
  <2>1. TypeOK'
    BY <1>0, <1>3, AnswerType DEF IInv, TypeOK, BodyReturns
  <2>2. CallInv'
    BY <1>0, <1>3 DEF IInv, TypeOK, CallInv, BodyReturns, Answer
  <2>3. GateInv'
    BY <1>3 DEF IInv, GateInv, BodyReturns
  <2>. QED BY <2>1, <2>2, <2>3 DEF IInv
<1>4. CASE OperationEnds(k)
  BY <1>4 DEF IInv, TypeOK, CallInv, GateInv, OperationEnds
<1>. QED BY <1>1, <1>2, <1>3, <1>4

\* A client leaves, the card object dies, the loop stops.
LEMMA DepartureIInv ==
    ASSUME IInv, Destroy \/ StopLoop \/ (\E c \in Clients : ClientDrops(c))
    PROVE  IInv'
<1>. USE DEF IInv, TypeOK, CallInv, GateInv
<1>1. CASE BeginDestroy
  BY <1>1 DEF BeginDestroy
<1>2. CASE CloseGate
  BY <1>2 DEF CloseGate
<1>3. CASE FinishDestroy
  BY <1>3 DEF FinishDestroy
<1>4. CASE StopLoop
  BY <1>4 DEF StopLoop, LoopFree
<1>5. ASSUME NEW c \in Clients, ClientDrops(c) PROVE IInv'
  BY <1>5 DEF ClientDrops
<1>. QED BY <1>1, <1>2, <1>3, <1>4, <1>5 DEF Destroy

\* ~PendingReply answers exactly the calls nothing else has answered.
LEMMA DestroyAuthorizerIInv == IInv /\ DestroyAuthorizer => IInv'
<1>. SUFFICES ASSUME IInv, DestroyAuthorizer PROVE IInv'
  OBVIOUS
<1>1. TypeOK'
  BY DEF IInv, TypeOK, CallInv, DestroyAuthorizer, Unanswered
<1>2. CallInv'
  BY DEF IInv, TypeOK, CallInv, DestroyAuthorizer, Unanswered
<1>3. GateInv'
  BY DEF IInv, GateInv, DestroyAuthorizer
<1>. QED BY <1>1, <1>2, <1>3 DEF IInv

\* Every step, and every stuttering step, keeps the invariant.
LEMMA NextIInv == IInv /\ [Next]_vars => IInv'
<1>. SUFFICES ASSUME IInv, [Next]_vars PROVE IInv'
  OBVIOUS
<1>1. ASSUME NEW k \in Calls, CallStep(k) PROVE IInv'
  BY <1>1, DispatchIInv, CompleteIInv, BodyIInv DEF CallStep
<1>2. CASE Destroy \/ StopLoop \/ (\E c \in Clients : ClientDrops(c))
  BY <1>2, DepartureIInv
<1>3. CASE DestroyAuthorizer
  BY <1>3, DestroyAuthorizerIInv
<1>4. CASE UNCHANGED vars
  BY <1>4 DEF IInv, TypeOK, CallInv, GateInv, vars
<1>. QED BY <1>1, <1>2, <1>3, <1>4 DEF Next

\* The invariant holds in every reachable state.
THEOREM Invariance == Spec => []IInv
<1>. QED BY InitIInv, NextIInv, PTL DEF Spec

\* Every variable of the calls, the gate and the object keeps its type.
THEOREM TypeCorrect == Spec => []TypeOK
<1>1. IInv => TypeOK
  BY DEF IInv
<1>. QED BY <1>1, Invariance, PTL

\* A granted body only runs on a live card object with an open gate.
THEOREM GrantsRunOnLiveObjects == Spec => []GrantedBodyOnLiveObject
<1>1. IInv => GrantedBodyOnLiveObject
  BY DEF IInv, GateInv, GrantedBodyOnLiveObject
<1>. QED BY <1>1, Invariance, PTL

\* No call is answered twice, and what a client is told agrees with what was decided
\* and launched (PendingReply, the completions of CardObject).
THEOREM RepliesAreTruthful == Spec => []ReplyIsTruthful
<1>1. IInv => \A k \in Calls : replies[k] <= 1
  BY DEF IInv, TypeOK
<1>2. IInv => ReplyIsTruthful
  BY <1>1 DEF IInv, TypeOK, CallInv, ReplyIsTruthful, NothingChanged
<1>. QED BY <1>2, Invariance, PTL

=============================================================================
