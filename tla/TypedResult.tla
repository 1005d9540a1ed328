----------------------------- MODULE TypedResult -----------------------------
(***************************************************************************)
(* How one operation delivers its typed result: the channels' emitResult   *)
(* and the adaptors' GetResult (agent/src/dbus/OperationAdaptorFactory.cpp)*)
(* over the recovery store (TypedResultStore.{h,cpp}).                     *)
(*                                                                         *)
(* The WORKER thread seals the payload into memfds, publishes the store,   *)
(* emits the one-shot Result signal and finishes the operation.  The BUS   *)
(* thread serves GetResult from the store at any moment in between.  Both  *)
(* take the store's mutex; sealing for the signal happens outside it.      *)
(*                                                                         *)
(* Payloads are abstracted to their entries: a photo, a signed document or *)
(* a batch row, each with or without bytes.  Any allocation may fail.      *)
(***************************************************************************)
EXTENDS Naturals, FiniteSets

CONSTANTS
    Kinds,     \* flavours checked: "inline", "photo", "sign", "batch"
    Entries,   \* entries of the payload
    Fetches    \* GetResult calls

ASSUME KindsAssumption == Kinds \subseteq {"inline", "photo", "sign", "batch"}

VARIABLES
    kind,      \* which channel this operation has
    wanted,    \* entries that are sealed; an empty photo is skipped
    pc,        \* the worker: seal, publish, emit, return, finished, gone
    ok,        \* what emitResult returns
    ready,     \* TypedResultState::ready
    signal,    \* the Result signal went out
    finished,  \* the status of Operation1.Finished: none, Ok, Error
    held,      \* fds the worker's locals own, by entry
    open,      \* fds the worker opened and nobody closed, by entry
    got,       \* what each GetResult answered: none, Payload, NoResult
    lost,      \* history: fds the worker let go of without closing them, by entry
    leaked     \* history: a GetResult has left an fd behind

vars == <<kind, wanted, pc, ok, ready, signal, finished, held, open, got, lost, leaked>>
workVars == <<pc, ok, signal, finished, held, open, lost>>

\* Sign has one artifact; identity, certificates and credentials have no fd; a
\* failed batch row is sealed like any other, as a zero-length memfd.
Sealable(k) ==
    CASE k = "inline" -> {{}}
      [] k = "sign"   -> {{e} : e \in Entries}
      [] k = "batch"  -> {Entries}
      [] k = "photo"  -> SUBSET Entries

Init ==
    /\ kind \in Kinds
    /\ wanted \in Sealable(kind)
    /\ pc = "seal"
    /\ ok = TRUE
    /\ ready = FALSE
    /\ signal = FALSE
    /\ finished = "none"
    /\ held = {}
    /\ open = {}
    /\ got = [f \in Fetches |-> "none"]
    /\ lost = {}
    /\ leaked = FALSE

-----------------------------------------------------------------------------
(***************************************************************************)
(* WORKER: emitResult.                                                     *)
(***************************************************************************)

\* MUTANT of FailClosed: one of the fds sealed before the failure is skipped.
FailOpen ==
    /\ pc' = "return"
    /\ ok' = FALSE
    /\ held' = {}
    /\ open' \in {open \ held} \union {{e} : e \in held}
    /\ UNCHANGED <<signal, finished, lost>>

\* emitResult gives up: what its locals own is closed, nothing is published.
FailClosed ==
    /\ pc' = "return"
    /\ ok' = FALSE
    /\ held' = {}
    /\ open' = open \ held
    /\ UNCHANGED <<signal, finished, lost>>

\* One entry is sealed and handed to its owner (vector or UnixFd map).
SealEntry(e) ==
    /\ pc = "seal"
    /\ e \in wanted \ held
    /\ held' = held \union {e}
    /\ open' = open \union {e}
    /\ UNCHANGED <<kind, wanted, pc, ok, ready, signal, finished, got, lost, leaked>>

\* The memfd of an entry cannot be made.
SealFails ==
    /\ pc = "seal"
    /\ wanted \ held # {}
    /\ FailClosed
    /\ UNCHANGED <<kind, wanted, ready, got, leaked>>

\* The entry was sealed but storing its fd throws.  The photo map's UnixFd
\* closes it on unwind; the batch vector's row is still being copied together
\* when the name or the metadata throws, and closeAll() does not know its fd.
PushFails ==
    /\ pc = "seal"
    /\ wanted \ held # {}
    /\ kind \in {"photo", "batch"}
    /\ pc' = "return"
    /\ ok' = FALSE
    /\ held' = {}
    /\ \E e \in wanted \ held :
          LET dropped == IF kind = "batch" THEN {e} ELSE {}
          IN  open' = (open \ held) \union dropped /\ lost' = dropped
    /\ UNCHANGED <<kind, wanted, ready, signal, finished, got, leaked>>

\* MUTANT of SealsDone: the store is published before the seals are known good.
PublishBeforeSeal ==
    /\ pc = "seal"
    /\ wanted # held
    /\ ready' = TRUE
    /\ UNCHANGED <<kind, wanted, pc, ok, signal, finished, held, open, got, lost, leaked>>

\* Every required seal succeeded; photos without any bytes publish nothing.
SealsDone ==
    /\ pc = "seal"
    /\ wanted = held
    /\ pc' = IF kind = "photo" /\ wanted = {} THEN "return" ELSE "publish"
    /\ UNCHANGED <<kind, wanted, ok, ready, signal, finished, held, open, got, lost, leaked>>

\* The store's critical section: copy the payload, then set ready.
Publish ==
    /\ pc = "publish"
    /\ ready' = TRUE
    /\ pc' = "emit"
    /\ UNCHANGED <<kind, wanted, ok, signal, finished, held, open, got, lost, leaked>>

\* The copy throws: inline channels go on without a store, the others give up.
PublishFails ==
    /\ pc = "publish"
    /\ IF kind = "inline"
       THEN pc' = "emit" /\ UNCHANGED <<ok, signal, finished, held, open, lost>>
       ELSE FailClosed
    /\ UNCHANGED <<kind, wanted, ready, got, leaked>>

\* MUTANT of Emit: a throw from the signal's marshalling fails the operation.
EmitFailsClosed ==
    /\ pc = "emit"
    /\ \/ signal' = TRUE /\ UNCHANGED ok
       \/ ok' = FALSE /\ UNCHANGED signal
    /\ pc' = "return"
    /\ held' = {}
    /\ open' = open \ held
    /\ UNCHANGED <<kind, wanted, ready, finished, got, lost, leaked>>

\* The Result signal is marshalled; a throw is logged and swallowed.  Either way
\* the adopted fds are closed.
Emit ==
    /\ pc = "emit"
    /\ signal' \in BOOLEAN
    /\ pc' = "return"
    /\ held' = {}
    /\ open' = open \ held
    /\ UNCHANGED <<kind, wanted, ok, ready, finished, got, lost, leaked>>

\* The batch's wire.reserve() throws before the first fd is adopted.
EmitReserveThrows ==
    /\ pc = "emit"
    /\ kind = "batch"
    /\ pc' = "return"
    /\ held' = {}
    /\ lost' = held
    /\ UNCHANGED <<kind, wanted, ok, ready, signal, finished, open, got, leaked>>

\* The operation (external) finishes with what emitResult returned.
Finish ==
    /\ pc = "return"
    /\ finished' = IF ok THEN "Ok" ELSE "Error"
    /\ pc' = "finished"
    /\ UNCHANGED <<kind, wanted, ok, ready, signal, held, open, got, lost, leaked>>

\* Cleanup grace over, card removed or owner gone: the operation is destroyed
\* and ~Operation1Adaptor unregisters its object.
Evict ==
    /\ pc = "finished"
    /\ pc' = "gone"
    /\ ready' = FALSE
    /\ UNCHANGED <<kind, wanted, ok, signal, finished, held, open, got, lost, leaked>>

-----------------------------------------------------------------------------
(***************************************************************************)
(* BUS thread: GetResult.  The store's mutex is held over all re-sealing.  *)
(***************************************************************************)

Answer(f, a) ==
    /\ pc # "gone"
    /\ got[f] = "none"
    /\ got' = [got EXCEPT ![f] = a]

\* The store is not ready: Error.NoResult.
GetResultUnready(f) ==
    /\ ~ready
    /\ Answer(f, "NoResult")
    /\ UNCHANGED <<kind, wanted, ready, workVars, leaked>>

\* MUTANT of GetResultServed: the payload is moved out of the store.
GetResultEvicts(f) ==
    /\ ready
    /\ Answer(f, "Payload")
    /\ ready' = FALSE
    /\ UNCHANGED <<kind, wanted, workVars, leaked>>

\* The retained payload is copied out or sealed afresh; the reply owns the fds.
GetResultServed(f) ==
    /\ ready
    /\ Answer(f, "Payload")
    /\ UNCHANGED <<kind, wanted, ready, workVars, leaked>>

\* A copy or a re-seal fails half-way: what was sealed so far is closed.
GetResultFails(f) ==
    /\ ready
    /\ Answer(f, "NoResult")
    /\ UNCHANGED <<kind, wanted, ready, workVars, leaked>>

\* A batch row's fd is sealed when copying its name or metadata throws, or all
\* of them are when the reply's rows.reserve() does.
GetResultRowThrows(f) ==
    /\ ready
    /\ kind = "batch"
    /\ Answer(f, "NoResult")
    /\ leaked' = TRUE
    /\ UNCHANGED <<kind, wanted, ready, workVars>>

EmitResult ==
    \/ \E e \in Entries : SealEntry(e)
    \/ SealFails
    \/ PushFails
    \/ SealsDone
    \/ Publish
    \/ PublishFails
    \/ Emit
    \/ EmitReserveThrows

Next ==
    \/ EmitResult
    \/ Finish
    \/ Evict
    \/ \E f \in Fetches :
          GetResultUnready(f) \/ GetResultServed(f) \/ GetResultFails(f) \/ GetResultRowThrows(f)

Spec == Init /\ [][Next]_vars

-----------------------------------------------------------------------------
(***************************************************************************)
(* PROPERTIES.                                                             *)
(***************************************************************************)

\* Every variable stays in its range; the worker's locals own only open fds of
\* entries that were to be sealed.
TypeOK ==
    /\ kind \in Kinds
    /\ wanted \in SUBSET Entries
    /\ pc \in {"seal", "publish", "emit", "return", "finished", "gone"}
    /\ ok \in BOOLEAN
    /\ ready \in BOOLEAN
    /\ signal \in BOOLEAN
    /\ finished \in {"none", "Ok", "Error"}
    /\ held \subseteq wanted \intersect open
    /\ open \subseteq wanted
    /\ got \in [Fetches -> {"none", "Payload", "NoResult"}]
    /\ lost \subseteq wanted
    /\ leaked \in BOOLEAN

\* "store ready <=> client gets Ok" (OperationAdaptorFactory.cpp), for every
\* channel that seals: a client told Ok finds the store ready as long as the
\* operation lives, one told Error never does, and the Result signal never goes
\* out ahead of the store it is recovered from.
StatusMatchesStore ==
    /\ finished = "Error" => ~ready
    /\ kind # "inline" /\ pc = "finished" /\ finished = "Ok" =>
          ready \/ (kind = "photo" /\ wanted = {})
    /\ kind # "inline" /\ signal /\ pc # "gone" => ready

\* A client never holds the artifact of an operation that then reports Error:
\* not even a GetResult that raced the sealing of the payload.
NoArtifactOfFailedOperation ==
    (\E f \in Fetches : got[f] = "Payload") => finished # "Error"

\* Fetching does not evict: what one GetResult served, the store keeps until
\* the operation is destroyed, whatever fails in between.
ServedStaysAvailable ==
    [][(\E f \in Fetches : got'[f] = "Payload") /\ pc' # "gone" => ready']_vars

\* Every memfd of a delivery is closed exactly once.  At every step, for every kind
\* of channel, the fds that are open are those an owner still holds and will close,
\* and those three steps let go of: the batch row that is being put together when
\* its push throws (one fd), the wire rows when their reserve throws (after the
\* store was published), and a GetResult of a batch that then answers NoResult.  So
\* a failed seal or publish closes all that was sealed before it, in a batch as well
\* ("SealFailureFailsClosedAndLeaksNoFd", TypedResultStoreTest.cpp), and emitResult
\* leaves nothing behind once its signal went out.
FdsClosed ==
    /\ open = held \union lost
    /\ held \intersect lost = {}
    /\ pc \in {"return", "finished", "gone"} => held = {}
    /\ lost # {} => /\ kind = "batch" /\ ~signal
                    /\ ready \/ pc = "gone" \/ \E e \in wanted : lost = {e}
    /\ leaked => kind = "batch" /\ \E f \in Fetches : got[f] = "NoResult"

=============================================================================
