-------------------------- MODULE TypedResultProofs --------------------------
(***************************************************************************)
(* Proofs about TypedResult, for any number of entries and of GetResult    *)
(* calls.  What a fetch may have answered depends on where the worker was, *)
(* and what the worker may still report depends on what it has published:  *)
(* StoreInv ties the two threads together.                                 *)
(***************************************************************************)
EXTENDS TypedResult, TLAPS

\* Some client holds the payload.
Served == \E f \in Fetches : got[f] = "Payload"

\* A photo result without a single byte: nothing is published or signalled.
NothingToDeliver == kind = "photo" /\ wanted = {}

\* How the store, the signal, the return value and the fetches are related at
\* each point of emitResult.
StoreInv ==
    /\ pc \in {"seal", "publish"} => ok /\ ~ready /\ ~signal
    /\ pc = "emit" => ok /\ ~signal
    /\ pc \in {"seal", "publish", "emit", "return"} => finished = "none"
    /\ pc \in {"finished", "gone"} => finished = IF ok THEN "Ok" ELSE "Error"
    /\ ~ok => ~ready /\ ~signal
    /\ NothingToDeliver => pc \notin {"publish", "emit"} /\ ~signal
    /\ kind # "inline" /\ ok /\ pc \in {"emit", "return", "finished"} =>
          ready \/ NothingToDeliver

\* What the fetches may have answered.
FetchInv ==
    /\ Served => ok
    /\ Served /\ pc # "gone" => ready

\* Which fds are open: while emitResult still seals, publishes or emits, exactly
\* those its locals own, so that nothing was lost before the step that loses it.
FdInv ==
    /\ pc \in {"seal", "publish", "emit"} => lost = {}
    /\ FdsClosed

IInv == TypeOK /\ StoreInv /\ FetchInv /\ FdInv

USE DEF workVars

-----------------------------------------------------------------------------
\* The first state, for every kind of channel.
LEMMA InitIInv == Init => IInv
<1>. SUFFICES ASSUME Init PROVE IInv
  OBVIOUS
<1>1. wanted \in SUBSET Entries
  BY KindsAssumption DEF Init, Sealable
<1>. QED BY <1>1 DEF Init, IInv, TypeOK, StoreInv, FetchInv, FdInv, FdsClosed, Served, NothingToDeliver

\* The worker's steps inside emitResult.
LEMMA EmitResultIInv == IInv /\ EmitResult => IInv'
<1>. SUFFICES ASSUME IInv, EmitResult PROVE IInv'
  OBVIOUS
<1>. USE DEF IInv, TypeOK, StoreInv, FetchInv, FdInv, FdsClosed, Served, NothingToDeliver
<1>1. ASSUME NEW e \in Entries, SealEntry(e) PROVE IInv'
  BY <1>1 DEF SealEntry
<1>2. CASE SealFails
  BY <1>2 DEF SealFails, FailClosed
<1>3. CASE PushFails
  BY <1>3 DEF PushFails
<1>4. CASE SealsDone
  BY <1>4 DEF SealsDone
<1>5. CASE Publish
  BY <1>5 DEF Publish
<1>6. CASE PublishFails
  BY <1>6 DEF PublishFails, FailClosed
<1>7. CASE Emit
  BY <1>7 DEF Emit
<1>8. CASE EmitReserveThrows
  BY <1>8 DEF EmitReserveThrows
<1>. QED BY <1>1, <1>2, <1>3, <1>4, <1>5, <1>6, <1>7, <1>8 DEF EmitResult

\* A GetResult served between any two of the worker's steps.
LEMMA GetResultIInv ==
    ASSUME IInv, NEW f \in Fetches,
           GetResultUnready(f) \/ GetResultServed(f) \/ GetResultFails(f) \/ GetResultRowThrows(f)
    PROVE  IInv'
<1>. USE DEF IInv, TypeOK, StoreInv, FetchInv, FdInv, FdsClosed, Served, NothingToDeliver, Answer
<1>1. CASE GetResultUnready(f)
  BY <1>1 DEF GetResultUnready
<1>2. CASE GetResultServed(f)
  BY <1>2 DEF GetResultServed
<1>3. CASE GetResultFails(f)
  BY <1>3 DEF GetResultFails
<1>4. CASE GetResultRowThrows(f)
  BY <1>4 DEF GetResultRowThrows
<1>. QED BY <1>1, <1>2, <1>3, <1>4

\* Every step, and every stuttering step, keeps the invariant.
LEMMA NextIInv == IInv /\ [Next]_vars => IInv'
<1>. SUFFICES ASSUME IInv, [Next]_vars PROVE IInv'
  OBVIOUS
<1>1. CASE EmitResult
  BY <1>1, EmitResultIInv
<1>2. CASE Finish
  BY <1>2 DEF IInv, TypeOK, StoreInv, FetchInv, FdInv, FdsClosed, Served, NothingToDeliver, Finish
<1>3. CASE Evict
  BY <1>3 DEF IInv, TypeOK, StoreInv, FetchInv, FdInv, FdsClosed, Served, NothingToDeliver, Evict
<1>4. ASSUME NEW f \in Fetches,
             GetResultUnready(f) \/ GetResultServed(f) \/ GetResultFails(f) \/ GetResultRowThrows(f)
      PROVE  IInv'
  BY <1>4, GetResultIInv
<1>5. CASE UNCHANGED vars
  BY <1>5 DEF IInv, TypeOK, StoreInv, FetchInv, FdInv, FdsClosed, Served, NothingToDeliver, vars
<1>. QED BY <1>1, <1>2, <1>3, <1>4, <1>5 DEF Next

\* The invariant holds in every reachable state.
THEOREM Invariance == Spec => []IInv
<1>. QED BY InitIInv, NextIInv, PTL DEF Spec

\* The status an operation reports agrees with its recovery store, in every
\* interleaving of emitResult's failures with the fetches.
THEOREM StatusIsStore == Spec => []StatusMatchesStore
<1>1. IInv => StatusMatchesStore
  BY DEF IInv, TypeOK, StoreInv, NothingToDeliver, StatusMatchesStore
<1>. QED BY <1>1, Invariance, PTL

\* A client that fetched the payload is never told that the operation failed.
THEOREM FetchedMeansOk == Spec => []NoArtifactOfFailedOperation
<1>1. IInv => NoArtifactOfFailedOperation
  BY DEF IInv, TypeOK, StoreInv, FetchInv, Served, NoArtifactOfFailedOperation
<1>. QED BY <1>1, Invariance, PTL

\* Whatever allocation, seal or copy fails, in whatever order the fetches come, the
\* open fds are the owned ones and those of the three batch steps FdsClosed names.
THEOREM NoFdIsLeaked == Spec => []FdsClosed
<1>1. IInv => FdsClosed
  BY DEF IInv, FdInv
<1>. QED BY <1>1, Invariance, PTL

\* What was fetched once can be fetched again until the operation is destroyed.
THEOREM FetchDoesNotEvict == Spec => ServedStaysAvailable
<1>1. IInv' => ((\E f \in Fetches : got'[f] = "Payload") /\ pc' # "gone" => ready')
  BY DEF IInv, FetchInv, Served
<1>. QED BY <1>1, Invariance, PTL DEF ServedStaysAvailable

=============================================================================
