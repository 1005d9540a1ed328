------------------------ MODULE CardPublicationProofs ------------------------
(***************************************************************************)
(* Proofs about CardPublication, for every set of readers and cards, every *)
(* retry budget and every hook order.                                      *)
(*                                                                         *)
(* None of the safety properties is inductive alone: whether a pending     *)
(* card keeps its resolve depends on which cards a reader removal may      *)
(* drain, that on where the card is seated, and that on what the monitor   *)
(* has delivered of its event so far.  IInv conjoins those facts.          *)
(***************************************************************************)
EXTENDS CardPublication, TLAPS

\* Nothing has happened to the card yet.
Untouched(c) ==
    /\ c \notin pending \union cards \union withdrawn
    /\ queued[c] = 0 /\ posted[c] = 0 /\ timers[c] = 0
    /\ object[c] = "none"
    /\ loopPc # "idle" => loopCard # c

\* A card that is not minted, or whose publication is still to be delivered.
FreshInv ==
    \A c \in Cards :
        readerOf[c] = NoReader \/ ("publish" \in monTodo /\ monCard = c) => Untouched(c)

\* What the calls the monitor still has to deliver say about its card.
MonitorInv ==
    /\ monTodo # {} => monReader \in Readers
    /\ monTodo \intersect {"publish", "schedule", "seat", "clear", "withdraw", "drop"} # {} =>
          monCard \in Cards /\ readerOf[monCard] = monReader
    /\ "seat" \in monTodo =>
          /\ monTodo \subseteq {"publish", "schedule", "seat"}
          /\ presence[monReader] = NoCard
          /\ "publish" \in monTodo \/ monCard \in pending \union cards
    /\ "publish" \in monTodo /\ "seat" \notin monTodo => presence[monReader] = monCard
    /\ "schedule" \in monTodo => "publish" \notin monTodo
    /\ "clear" \in monTodo => presence[monReader] = monCard
    /\ "withdraw" \in monTodo => monCard \in pending \union cards
    /\ "clear" \in monTodo /\ "withdraw" \notin monTodo => monCard \in withdrawn
    /\ "drop" \in monTodo => monCard \in withdrawn
    /\ monTodo \intersect {"withdraw", "withdrawReader"} # {} /\ presence[monReader] \in Cards =>
          "clear" \in monTodo

\* The cards the maps hold are the cards the readers hold, up to the event the
\* monitor is delivering.
SeatInv ==
    /\ readerObj = presence
    /\ \A r \in Readers : presence[r] # NoEntry => r \in known
    /\ \A c \in pending \union cards :
          \/ presence[readerOf[c]] = c
          \/ /\ monCard = c
             /\ monReader = readerOf[c]
             /\ monTodo \intersect {"seat", "withdraw"} # {}
    /\ \A r \in Readers : presence[r] \in Cards =>
          /\ readerOf[presence[r]] = r
          /\ \/ presence[r] \in pending \union cards
             \/ /\ monReader = r
                /\ monCard = presence[r]
                /\ monTodo \intersect {"publish", "clear"} # {}

\* The three stages of a card exclude each other.
MapInv ==
    /\ pending \intersect cards = {}
    /\ withdrawn \intersect (pending \union cards) = {}

\* What the loop thread may rely on between its two critical sections.
LoopInv ==
    /\ loopPc # "idle" => loopCard \in Cards /\ readerOf[loopCard] \in Readers
    /\ loopPc \in {"construct", "commit"} => loopCard \in pending \union withdrawn
    /\ loopPc \in {"drop", "touch"} => loopCard \in cards \union withdrawn

\* The owner count is exact, the object is exported while it has owners, and
\* it does not exist before its resolve reaches the construction.
OwnerInv ==
    \A c \in Cards :
        /\ refs[c] = Owners(c)
        /\ object[c] = "exported" <=> refs[c] > 0
        /\ \/ queued[c] + posted[c] + timers[c] > 0
           \/ loopPc \in {"construct", "requeue"} /\ loopCard = c
           \/ "schedule" \in monTodo /\ monCard = c
           => object[c] = "none"

\* The inductive invariant.
IInv ==
    /\ TypeOK
    /\ FreshInv
    /\ MonitorInv
    /\ SeatInv
    /\ MapInv
    /\ LoopInv
    /\ OwnerInv
    /\ OneResolveInFlight

-----------------------------------------------------------------------------
(***************************************************************************)
(* Every action preserves IInv.  Each lemma first treats the conjuncts its *)
(* action can disturb and then, in one step, those it leaves alone.        *)
(***************************************************************************)
USE DEF busVars, mapVars, objVars, workVars, typeVars, monVars, loopVars

\* A reader appears: materializeReader starts it without a card.
LEMMA ReaderAddedStep ==
    ASSUME IInv, NEW r \in Readers, ReaderAdded(r)
    PROVE  IInv'
<1>. USE ConstantsAssumption DEF IInv, TypeOK, ReaderAdded
<1>1. TypeOK'
  BY DEF MonitorCalls, LoopSteps
<1>2. MonitorInv'
  BY DEF MonitorInv
<1>3. SeatInv'
  BY DEF SeatInv
<1>4. FreshInv' /\ MapInv' /\ LoopInv' /\ OwnerInv' /\ OneResolveInFlight'
  BY DEF FreshInv, Untouched, MapInv, LoopInv, OwnerInv, Owners, One, OneResolveInFlight,
     ResolvesInFlight
<1>. QED BY <1>1, <1>2, <1>3, <1>4

\* A card is inserted: its id is minted, its observers are still to run.
LEMMA CardInsertedStep ==
    ASSUME IInv, NEW r \in Readers, NEW c \in Cards, CardInserted(r, c)
    PROVE  IInv'
<1>. USE ConstantsAssumption DEF IInv, TypeOK, CardInserted
<1>1. TypeOK'
  BY DEF MonitorCalls, LoopSteps
<1>2. FreshInv'
  BY DEF FreshInv, Untouched
<1>3. MonitorInv'
  BY DEF MonitorInv
<1>4. SeatInv'
  BY DEF SeatInv, FreshInv, Untouched
<1>5. LoopInv'
  BY DEF LoopInv
<1>6. OwnerInv'
  BY DEF OwnerInv, Owners, One
<1>7. OneResolveInFlight'
  BY DEF OneResolveInFlight, ResolvesInFlight, One
<1>8. MapInv'
  BY DEF MapInv
<1>. QED BY <1>1, <1>2, <1>3, <1>4, <1>5, <1>6, <1>7, <1>8

\* A card is pulled: clearing, withdrawing and the hook are to come.
LEMMA CardRemovedStep ==
    ASSUME IInv, NEW r \in Readers, NEW order \in HookOrders, CardRemoved(r, order)
    PROVE  IInv'
<1>. USE ConstantsAssumption DEF IInv, TypeOK, CardRemoved
<1>1. TypeOK'
  BY DEF MonitorCalls, LoopSteps
<1>2. FreshInv'
  BY DEF FreshInv, Untouched
<1>3. MonitorInv'
  BY DEF MonitorInv, SeatInv
<1>4. SeatInv'
  BY DEF SeatInv
<1>5. OwnerInv'
  BY DEF OwnerInv, Owners, One
<1>6. OneResolveInFlight'
  BY DEF OneResolveInFlight, ResolvesInFlight, One
<1>7. MapInv' /\ LoopInv'
  BY DEF MapInv, LoopInv
<1>. QED BY <1>1, <1>2, <1>3, <1>4, <1>5, <1>6, <1>7

\* A reader is unplugged, with or without a card in it.
LEMMA ReaderRemovedStep ==
    ASSUME IInv, NEW r \in Readers, NEW order \in HookOrders, ReaderRemoved(r, order)
    PROVE  IInv'
<1>. USE ConstantsAssumption DEF IInv, TypeOK, ReaderRemoved
<1>1. TypeOK'
  BY DEF MonitorCalls, LoopSteps
<1>2. FreshInv'
  BY DEF FreshInv, Untouched
<1>3. MonitorInv'
  BY DEF MonitorInv, SeatInv
<1>4. SeatInv'
  BY DEF SeatInv
<1>5. OwnerInv'
  BY DEF OwnerInv, Owners, One
<1>6. OneResolveInFlight'
  BY DEF OneResolveInFlight, ResolvesInFlight, One
<1>7. MapInv' /\ LoopInv'
  BY DEF MapInv, LoopInv
<1>. QED BY <1>1, <1>2, <1>3, <1>4, <1>5, <1>6, <1>7

\* updateProperties seats the inserted card in its reader.
LEMMA UpdatePropertiesSeatStep ==
    ASSUME IInv, UpdateProperties("seat", monCard)
    PROVE  IInv'
<1>. USE ConstantsAssumption DEF IInv, TypeOK, UpdateProperties, Deliverable, Delivered
<1>1. TypeOK'
  BY DEF MonitorCalls, LoopSteps
<1>2. FreshInv'
  BY DEF FreshInv, Untouched
<1>3. MonitorInv'
  BY DEF MonitorInv
<1>4. SeatInv'
  <2>1. /\ monCard \in Cards /\ monReader \in Readers
        /\ readerOf[monCard] = monReader
        /\ presence[monReader] = NoCard
    BY DEF IInv, MonitorInv, UpdateProperties, Deliverable
  <2>2. /\ presence' = [presence EXCEPT ![monReader] = monCard]
        /\ readerObj' = presence'
    <3>1. presence[monReader] # NoEntry /\ readerObj = presence
      BY <2>1, ConstantsAssumption DEF IInv, SeatInv
    <3>. QED BY <3>1 DEF UpdateProperties
  <2>3. \A c \in pending' \union cards' :
          \/ presence'[readerOf'[c]] = c
          \/ /\ monCard' = c
             /\ monReader' = readerOf'[c]
             /\ monTodo' \intersect {"seat", "withdraw"} # {}
    BY <2>1, <2>2, ConstantsAssumption DEF IInv, TypeOK, SeatInv, MonitorInv, MapInv, FreshInv,
       UpdateProperties, Deliverable, Delivered, mapVars
  <2>4. \A r \in Readers : presence'[r] \in Cards =>
          /\ readerOf'[presence'[r]] = r
          /\ \/ presence'[r] \in pending' \union cards'
             \/ /\ monReader' = r
                /\ monCard' = presence'[r]
                /\ monTodo' \intersect {"publish", "clear"} # {}
    BY <2>1, <2>2, ConstantsAssumption DEF IInv, TypeOK, SeatInv, MonitorInv,
       UpdateProperties, Deliverable, Delivered, mapVars
  <2>5. \A r \in Readers : presence'[r] # NoEntry => r \in known'
    BY <2>1, <2>2, ConstantsAssumption DEF IInv, TypeOK, SeatInv, UpdateProperties
  <2>. QED BY <2>2, <2>3, <2>4, <2>5 DEF SeatInv
<1>5. OwnerInv'
  BY DEF OwnerInv, Owners, One
<1>6. OneResolveInFlight'
  BY DEF OneResolveInFlight, ResolvesInFlight, One
<1>7. MapInv' /\ LoopInv'
  BY DEF MapInv, LoopInv
<1>. QED BY <1>1, <1>2, <1>3, <1>4, <1>5, <1>6, <1>7

\* updateProperties clears the reader of the pulled card.
LEMMA UpdatePropertiesClearStep ==
    ASSUME IInv, UpdateProperties("clear", NoCard)
    PROVE  IInv'
<1>. USE ConstantsAssumption DEF IInv, TypeOK, UpdateProperties, Deliverable, Delivered
<1>1. TypeOK'
  BY DEF MonitorCalls, LoopSteps
<1>2. FreshInv'
  BY DEF FreshInv, Untouched
<1>3. MonitorInv'
  BY DEF MonitorInv, FreshInv, Untouched
<1>4. SeatInv'
  <2>1. /\ monCard \in Cards /\ monReader \in Readers
        /\ readerOf[monCard] = monReader
        /\ presence[monReader] = monCard
    BY DEF IInv, MonitorInv, UpdateProperties, Deliverable
  <2>2. /\ presence' = [presence EXCEPT ![monReader] = NoCard]
        /\ readerObj' = presence'
    <3>1. presence[monReader] # NoEntry /\ readerObj = presence
      BY <2>1, ConstantsAssumption DEF IInv, SeatInv
    <3>. QED BY <3>1 DEF UpdateProperties
  <2>3. \A c \in pending' \union cards' :
          \/ presence'[readerOf'[c]] = c
          \/ /\ monCard' = c
             /\ monReader' = readerOf'[c]
             /\ monTodo' \intersect {"seat", "withdraw"} # {}
    BY <2>1, <2>2, ConstantsAssumption DEF IInv, TypeOK, SeatInv, MonitorInv, MapInv, FreshInv,
       UpdateProperties, Deliverable, Delivered, mapVars
  <2>4. \A r \in Readers : presence'[r] \in Cards =>
          /\ readerOf'[presence'[r]] = r
          /\ \/ presence'[r] \in pending' \union cards'
             \/ /\ monReader' = r
                /\ monCard' = presence'[r]
                /\ monTodo' \intersect {"publish", "clear"} # {}
    BY <2>1, <2>2, ConstantsAssumption DEF IInv, TypeOK, SeatInv, MonitorInv,
       UpdateProperties, Deliverable, Delivered, mapVars
  <2>5. \A r \in Readers : presence'[r] # NoEntry => r \in known'
    BY <2>1, <2>2, ConstantsAssumption DEF IInv, TypeOK, SeatInv, UpdateProperties
  <2>. QED BY <2>2, <2>3, <2>4, <2>5 DEF SeatInv
<1>5. OwnerInv'
  BY DEF OwnerInv, Owners, One
<1>6. OneResolveInFlight'
  BY DEF OneResolveInFlight, ResolvesInFlight, One
<1>7. MapInv' /\ LoopInv'
  BY DEF MapInv, LoopInv
<1>. QED BY <1>1, <1>2, <1>3, <1>4, <1>5, <1>6, <1>7

\* materializeCard records the card as pending.
LEMMA MaterializeCardStep ==
    ASSUME IInv, MaterializeCard
    PROVE  IInv'
<1>. USE ConstantsAssumption DEF IInv, TypeOK, MaterializeCard, Deliverable
<1>1. TypeOK'
  BY DEF MonitorCalls, LoopSteps, MonitorInv
<1>2. FreshInv'
  BY DEF FreshInv, Untouched, MonitorInv
<1>3. MonitorInv'
  BY DEF MonitorInv, FreshInv, Untouched
<1>4. SeatInv'
  <2>1. monCard \in Cards /\ readerOf[monCard] = monReader
    BY DEF IInv, MonitorInv, MaterializeCard, Deliverable
  <2>2. \A c \in pending' \union cards' :
          \/ presence'[readerOf'[c]] = c
          \/ /\ monCard' = c
             /\ monReader' = readerOf'[c]
             /\ monTodo' \intersect {"seat", "withdraw"} # {}
    <3>1. SUFFICES ASSUME NEW c \in pending \union cards \union {monCard}
                   PROVE  \/ presence[readerOf[c]] = c
                          \/ /\ monCard = c
                             /\ monReader = readerOf[c]
                             /\ monTodo' \intersect {"seat", "withdraw"} # {}
      BY DEF MaterializeCard, busVars
    <3>2. CASE c = monCard
      BY <2>1, <3>2 DEF IInv, SeatInv, MonitorInv, MaterializeCard, Deliverable
    <3>3. CASE c # monCard
      BY <3>1, <3>3 DEF IInv, SeatInv
    <3>. QED BY <3>2, <3>3
  <2>3. \A r \in Readers : presence'[r] \in Cards =>
          /\ readerOf'[presence'[r]] = r
          /\ \/ presence'[r] \in pending' \union cards'
             \/ /\ monReader' = r
                /\ monCard' = presence'[r]
                /\ monTodo' \intersect {"publish", "clear"} # {}
    BY DEF IInv, SeatInv, MaterializeCard, busVars
  <2>. QED BY <2>2, <2>3 DEF IInv, SeatInv, MaterializeCard, busVars
<1>5. MapInv'
  BY DEF MapInv, FreshInv, Untouched, MonitorInv
<1>6. LoopInv'
  BY DEF LoopInv
<1>7. OwnerInv'
  BY DEF OwnerInv, Owners, One, FreshInv, Untouched, MonitorInv
<1>8. OneResolveInFlight'
  <2>1. monCard \in Cards /\ Untouched(monCard)
    BY DEF IInv, MonitorInv, FreshInv, MaterializeCard, Deliverable
  <2>2. ResolvesInFlight(monCard)' = 1
    BY <2>1 DEF IInv, TypeOK, Untouched, ResolvesInFlight, One, MaterializeCard, Deliverable,
       workVars, loopVars
  <2>3. \A c \in Cards \ {monCard} : ResolvesInFlight(c)' = ResolvesInFlight(c)
    BY DEF ResolvesInFlight, MaterializeCard, workVars, loopVars
  <2>. QED BY <2>1, <2>2, <2>3 DEF IInv, OneResolveInFlight, Untouched, MaterializeCard
<1>. QED BY <1>1, <1>2, <1>3, <1>4, <1>5, <1>6, <1>7, <1>8

\* materializeCard schedules the card's one resolve.
LEMMA MaterializeScheduleStep ==
    ASSUME IInv, MaterializeSchedule
    PROVE  IInv'
<1>. USE ConstantsAssumption DEF IInv, TypeOK, MaterializeSchedule, Deliverable, Delivered,
     ScheduleCardResolve, Bump
<1>1. TypeOK'
  BY DEF MonitorCalls, LoopSteps
<1>2. FreshInv'
  <2>1. monCard \in Cards /\ readerOf[monCard] \in Readers /\ "publish" \notin monTodo'
    BY DEF IInv, MonitorInv, MaterializeSchedule, Deliverable, Delivered
  <2>2. \A c \in Cards \ {monCard} :
          queued'[c] = queued[c] /\ timers'[c] = timers[c] /\ posted'[c] = posted[c]
    BY DEF IInv, TypeOK, MaterializeSchedule, ScheduleCardResolve, Bump
  <2>. QED BY <2>1, <2>2, ConstantsAssumption
           DEF IInv, FreshInv, Untouched, MaterializeSchedule, Delivered,
               busVars, mapVars, objVars, loopVars
<1>3. MonitorInv'
  BY DEF MonitorInv
<1>4. SeatInv'
  BY DEF SeatInv
<1>5. OwnerInv'
  BY DEF OwnerInv, Owners, One
<1>6. OneResolveInFlight'
  BY DEF OneResolveInFlight, ResolvesInFlight, One
<1>7. MapInv' /\ LoopInv'
  BY DEF MapInv, LoopInv
<1>. QED BY <1>1, <1>2, <1>3, <1>4, <1>5, <1>6, <1>7

\* withdrawObject forgets the card; its share, if any, is dropped next.
LEMMA WithdrawCardStep ==
    ASSUME IInv, WithdrawCard
    PROVE  IInv'
<1>. USE ConstantsAssumption DEF IInv, TypeOK, WithdrawCard, Deliverable
<1>1. TypeOK'
  BY DEF MonitorCalls, LoopSteps, MonitorInv
<1>2. FreshInv'
  BY DEF FreshInv, Untouched, MonitorInv
<1>3. MonitorInv'
  BY DEF MonitorInv
<1>4. SeatInv'
  BY DEF SeatInv, MonitorInv, FreshInv, Untouched
<1>5. MapInv'
  BY DEF MapInv
<1>6. LoopInv'
  BY DEF LoopInv
<1>7. OwnerInv'
  <2>1. \A c \in Cards : Owners(c)' = Owners(c)
    BY DEF Owners, One, WithdrawCard, Deliverable, loopVars
  <2>2. \A c \in Cards : ~("schedule" \in monTodo' /\ monCard' = c)
    BY DEF WithdrawCard, Deliverable
  <2>. QED BY <2>1, <2>2 DEF IInv, OwnerInv, WithdrawCard, objVars, workVars, loopVars
<1>8. OneResolveInFlight'
  BY DEF OneResolveInFlight, ResolvesInFlight, One, MonitorInv, FreshInv, Untouched
<1>. QED BY <1>1, <1>2, <1>3, <1>4, <1>5, <1>6, <1>7, <1>8

\* withdrawObject drops the share it moved out of the map.
LEMMA WithdrawDropStep ==
    ASSUME IInv, WithdrawDrop
    PROVE  IInv'
<1>. USE ConstantsAssumption DEF IInv, TypeOK, WithdrawDrop, Deliverable, Delivered,
     DropShare, Take
<1>1. TypeOK'
  BY DEF MonitorCalls, LoopSteps, MonitorInv, OwnerInv, Owners, One
<1>2. FreshInv'
  BY DEF FreshInv, Untouched, MonitorInv, MapInv
<1>3. MonitorInv'
  BY DEF MonitorInv
<1>4. SeatInv'
  BY DEF SeatInv
<1>5. OwnerInv'
  BY DEF OwnerInv, Owners, One
<1>6. OneResolveInFlight'
  BY DEF OneResolveInFlight, ResolvesInFlight, One
<1>7. MapInv' /\ LoopInv'
  BY DEF MapInv, LoopInv
<1>. QED BY <1>1, <1>2, <1>3, <1>4, <1>5, <1>6, <1>7

\* withdrawObject removes the reader; draining takes no pending card's probe.
LEMMA WithdrawReaderStep ==
    ASSUME IInv, WithdrawReader
    PROVE  IInv'
<1>. USE ConstantsAssumption DEF IInv, TypeOK, WithdrawReader, Deliverable, Delivered
<1>1. TypeOK'
  BY DEF MonitorCalls, LoopSteps, MonitorInv
<1>2. FreshInv'
  BY DEF FreshInv, Untouched
<1>3. MonitorInv'
  BY DEF MonitorInv
<1>4. SeatInv'
  BY DEF SeatInv, MonitorInv, FreshInv, Untouched
<1>5. OwnerInv'
  BY DEF OwnerInv, Owners, One
<1>6. OneResolveInFlight'
  BY DEF OneResolveInFlight, ResolvesInFlight, One, MonitorInv, SeatInv
<1>7. MapInv' /\ LoopInv'
  BY DEF MapInv, LoopInv
<1>. QED BY <1>1, <1>2, <1>3, <1>4, <1>5, <1>6, <1>7

\* The card-removed hook releases the power hold only.
LEMMA KeyRemovedHookStep ==
    ASSUME IInv, KeyRemovedHook
    PROVE  IInv'
<1>. USE ConstantsAssumption DEF IInv, TypeOK, KeyRemovedHook, Deliverable, Delivered
<1>1. TypeOK'
  BY DEF MonitorCalls, LoopSteps
<1>2. FreshInv'
  BY DEF FreshInv, Untouched
<1>3. MonitorInv'
  BY DEF MonitorInv
<1>4. SeatInv'
  BY DEF SeatInv
<1>5. OwnerInv'
  BY DEF OwnerInv, Owners, One
<1>6. OneResolveInFlight'
  BY DEF OneResolveInFlight, ResolvesInFlight, One
<1>7. MapInv' /\ LoopInv'
  BY DEF MapInv, LoopInv
<1>. QED BY <1>1, <1>2, <1>3, <1>4, <1>5, <1>6, <1>7

\* A probe ends and posts its result: the resolve moves, it is not doubled.
LEMMA ProbeOnWorkerStep ==
    ASSUME IInv, NEW c \in Cards, ProbeOnWorker(c)
    PROVE  IInv'
<1>. USE ConstantsAssumption DEF IInv, TypeOK, ProbeOnWorker, Bump, Take
<1>1. TypeOK'
  BY DEF MonitorCalls, LoopSteps
<1>2. FreshInv'
  BY DEF FreshInv, Untouched
<1>3. OwnerInv'
  BY DEF OwnerInv, Owners, One
<1>4. OneResolveInFlight'
  BY DEF OneResolveInFlight, ResolvesInFlight, One
<1>5. MonitorInv' /\ SeatInv' /\ MapInv' /\ LoopInv'
  BY DEF MonitorInv, SeatInv, MapInv, LoopInv
<1>. QED BY <1>1, <1>2, <1>3, <1>4, <1>5

\* A client's read leaves publication alone.
LEMMA LaunchReadStep ==
    ASSUME IInv, NEW c \in Cards, LaunchRead(c)
    PROVE  IInv'
<1>. USE ConstantsAssumption DEF IInv, TypeOK, LaunchRead
<1>1. TypeOK'
  BY DEF MonitorCalls, LoopSteps
<1>2. FreshInv' /\ MonitorInv' /\ SeatInv' /\ MapInv'
  BY DEF FreshInv, Untouched, MonitorInv, SeatInv, MapInv
<1>3. LoopInv' /\ OwnerInv' /\ OneResolveInFlight'
  BY DEF LoopInv, OwnerInv, Owners, One, OneResolveInFlight, ResolvesInFlight
<1>. QED BY <1>1, <1>2, <1>3

\* A resolved card type is posted to the loop.
LEMMA CardTypeResolvedStep ==
    ASSUME IInv, NEW c \in Cards, CardTypeResolved(c)
    PROVE  IInv'
<1>. USE ConstantsAssumption DEF IInv, TypeOK, CardTypeResolved, Bump
<1>1. TypeOK'
  BY DEF MonitorCalls, LoopSteps
<1>2. FreshInv' /\ MonitorInv' /\ SeatInv' /\ MapInv'
  BY DEF FreshInv, Untouched, MonitorInv, SeatInv, MapInv
<1>3. LoopInv' /\ OwnerInv' /\ OneResolveInFlight'
  BY DEF LoopInv, OwnerInv, Owners, One, OneResolveInFlight, ResolvesInFlight
<1>. QED BY <1>1, <1>2, <1>3

\* applyCardResolution drops, retries or claims the card.
LEMMA ApplyCardResolutionStep ==
    ASSUME IInv, NEW c \in Cards, NEW opened \in BOOLEAN, ApplyCardResolution(c, opened)
    PROVE  IInv'
<1>. USE ConstantsAssumption DEF IInv, TypeOK, ApplyCardResolution, Bump, Take, LoopGoto,
     LoopIdle
<1>1. TypeOK'
  BY DEF MonitorCalls, LoopSteps
<1>2. FreshInv'
  BY DEF FreshInv, Untouched
<1>3. LoopInv'
  BY DEF LoopInv, FreshInv, Untouched
<1>4. OwnerInv'
  BY DEF OwnerInv, Owners, One
<1>5. OneResolveInFlight'
  BY DEF OneResolveInFlight, ResolvesInFlight, One
<1>6. MonitorInv' /\ SeatInv' /\ MapInv'
  BY DEF MonitorInv, SeatInv, MapInv
<1>. QED BY <1>1, <1>2, <1>3, <1>4, <1>5, <1>6

\* The claimed card's object is built and announced, off the lock.
LEMMA ConstructCardStep ==
    ASSUME IInv, ConstructCard
    PROVE  IInv'
<1>. USE ConstantsAssumption DEF IInv, TypeOK, ConstructCard, Bump, LoopGoto
<1>1. TypeOK'
  BY DEF MonitorCalls, LoopSteps, LoopInv
<1>2. FreshInv'
  BY DEF FreshInv, Untouched
<1>3. LoopInv'
  BY DEF LoopInv
<1>4. OwnerInv'
  BY DEF OwnerInv, Owners, One, LoopInv, OneResolveInFlight, ResolvesInFlight, MapInv
<1>5. OneResolveInFlight'
  BY DEF OneResolveInFlight, ResolvesInFlight, One
<1>6. MonitorInv' /\ SeatInv' /\ MapInv'
  BY DEF MonitorInv, SeatInv, MapInv
<1>. QED BY <1>1, <1>2, <1>3, <1>4, <1>5, <1>6

\* The second critical section publishes the card or gives it up.
LEMMA CommitCardStep ==
    ASSUME IInv, CommitCard
    PROVE  IInv'
<1>. USE ConstantsAssumption DEF IInv, TypeOK, CommitCard, LoopGoto
<1>1. TypeOK'
  BY DEF MonitorCalls, LoopSteps
<1>2. FreshInv'
  BY DEF FreshInv, Untouched
<1>3. MonitorInv'
  BY DEF MonitorInv
<1>4. SeatInv'
  BY DEF SeatInv
<1>5. MapInv'
  BY DEF MapInv
<1>6. LoopInv'
  BY DEF LoopInv
<1>7. OwnerInv'
  BY DEF OwnerInv, Owners, One, LoopInv, OneResolveInFlight, ResolvesInFlight, MapInv
<1>8. OneResolveInFlight'
  BY DEF OneResolveInFlight, ResolvesInFlight, One
<1>. QED BY <1>1, <1>2, <1>3, <1>4, <1>5, <1>6, <1>7, <1>8

\* The loop thread drops its share of the object.
LEMMA LoopDropStep ==
    ASSUME IInv, LoopDrop
    PROVE  IInv'
<1>. USE ConstantsAssumption DEF IInv, TypeOK, LoopDrop, DropShare, Take, LoopGoto, LoopIdle
<1>1. TypeOK'
  BY DEF MonitorCalls, LoopSteps, LoopInv, OwnerInv, Owners, One
<1>2. FreshInv'
  BY DEF FreshInv, Untouched
<1>3. LoopInv'
  BY DEF LoopInv
<1>4. OwnerInv'
  <2>1. loopCard \in Cards /\ refs[loopCard] > 0 /\ object[loopCard] = "exported"
    BY DEF IInv, LoopInv, OwnerInv, Owners, One, TypeOK, LoopDrop
  <2>2. \A c \in Cards \ {loopCard} : refs'[c] = refs[c] /\ object'[c] = object[c]
    BY <2>1 DEF IInv, TypeOK, LoopDrop, DropShare, Take
  <2>3. /\ refs'[loopCard] = refs[loopCard] - 1
        /\ object'[loopCard] = IF refs[loopCard] = 1 THEN "destroyed" ELSE "exported"
    BY <2>1 DEF IInv, TypeOK, LoopDrop, DropShare, Take
  <2>4. \A c \in Cards : Owners(c)' = Owners(c) - One(c = loopCard)
    BY <2>1 DEF Owners, One, LoopDrop, LoopGoto, LoopIdle, mapVars, monVars
  <2>5. \A c \in Cards : refs'[c] = Owners(c)' /\ (object'[c] = "exported" <=> refs'[c] > 0)
    BY <2>1, <2>2, <2>3, <2>4 DEF IInv, TypeOK, OwnerInv, One
  <2>. QED BY <2>1, <2>2, <2>3, <2>5
           DEF IInv, OwnerInv, LoopDrop, LoopGoto, LoopIdle, workVars, monVars
<1>5. OneResolveInFlight'
  BY DEF OneResolveInFlight, ResolvesInFlight, One
<1>6. MonitorInv' /\ SeatInv' /\ MapInv'
  BY DEF MonitorInv, SeatInv, MapInv
<1>. QED BY <1>1, <1>2, <1>3, <1>4, <1>5, <1>6

\* The roster snapshot decides whether the reader is held.
LEMMA HoldVerdictStep ==
    ASSUME IInv, NEW held \in BOOLEAN, HoldVerdict(held)
    PROVE  IInv'
<1>. USE ConstantsAssumption DEF IInv, TypeOK, HoldVerdict, LoopGoto, LoopIdle
<1>1. TypeOK'
  BY DEF MonitorCalls, LoopSteps
<1>2. FreshInv'
  BY DEF FreshInv, Untouched
<1>3. LoopInv'
  BY DEF LoopInv
<1>4. OwnerInv'
  BY DEF OwnerInv, Owners, One
<1>5. OneResolveInFlight'
  BY DEF OneResolveInFlight, ResolvesInFlight, One
<1>6. MonitorInv' /\ SeatInv' /\ MapInv'
  BY DEF MonitorInv, SeatInv, MapInv
<1>. QED BY <1>1, <1>2, <1>3, <1>4, <1>5, <1>6

\* The loop thread holds the reader powered.
LEMMA SetReaderHoldStep ==
    ASSUME IInv, SetReaderHold
    PROVE  IInv'
<1>. USE ConstantsAssumption DEF IInv, TypeOK, SetReaderHold, LoopGoto, LoopIdle
<1>1. TypeOK'
  BY DEF MonitorCalls, LoopSteps, LoopInv
<1>2. FreshInv'
  BY DEF FreshInv, Untouched
<1>3. LoopInv'
  BY DEF LoopInv
<1>4. OwnerInv'
  BY DEF OwnerInv, Owners, One
<1>5. OneResolveInFlight'
  BY DEF OneResolveInFlight, ResolvesInFlight, One
<1>6. MonitorInv' /\ SeatInv' /\ MapInv'
  BY DEF MonitorInv, SeatInv, MapInv
<1>. QED BY <1>1, <1>2, <1>3, <1>4, <1>5, <1>6

\* A retry comes due: it goes on only while the card is pending.
LEMMA RetryFiredStep ==
    ASSUME IInv, NEW c \in Cards, RetryFired(c)
    PROVE  IInv'
<1>. USE ConstantsAssumption DEF IInv, TypeOK, RetryFired, Take, LoopGoto, LoopIdle
<1>1. TypeOK'
  BY DEF MonitorCalls, LoopSteps
<1>2. FreshInv'
  BY DEF FreshInv, Untouched
<1>3. LoopInv'
  BY DEF LoopInv, FreshInv, Untouched
<1>4. OwnerInv'
  BY DEF OwnerInv, Owners, One
<1>5. OneResolveInFlight'
  BY DEF OneResolveInFlight, ResolvesInFlight, One
<1>6. MonitorInv' /\ SeatInv' /\ MapInv'
  BY DEF MonitorInv, SeatInv, MapInv
<1>. QED BY <1>1, <1>2, <1>3, <1>4, <1>5, <1>6

\* The retry queues the card's one probe again.
LEMMA RetryScheduleStep ==
    ASSUME IInv, RetrySchedule
    PROVE  IInv'
<1>. USE ConstantsAssumption DEF IInv, TypeOK, RetrySchedule, ScheduleCardResolve, Bump,
     LoopGoto, LoopIdle
<1>1. TypeOK'
  BY DEF MonitorCalls, LoopSteps
<1>2. FreshInv'
  BY DEF FreshInv, Untouched
<1>3. LoopInv'
  BY DEF LoopInv
<1>4. OwnerInv'
  BY DEF OwnerInv, Owners, One
<1>5. OneResolveInFlight'
  BY DEF OneResolveInFlight, ResolvesInFlight, One
<1>6. MonitorInv' /\ SeatInv' /\ MapInv'
  BY DEF MonitorInv, SeatInv, MapInv
<1>. QED BY <1>1, <1>2, <1>3, <1>4, <1>5, <1>6

\* applyCardTypeUpdate takes a share of the published object.
LEMMA ApplyCardTypeUpdateStep ==
    ASSUME IInv, NEW c \in Cards, ApplyCardTypeUpdate(c)
    PROVE  IInv'
<1>. USE ConstantsAssumption DEF IInv, TypeOK, ApplyCardTypeUpdate, Bump, Take, LoopGoto,
     LoopIdle
<1>1. TypeOK'
  BY DEF MonitorCalls, LoopSteps
<1>2. FreshInv'
  BY DEF FreshInv, Untouched
<1>3. LoopInv'
  BY DEF LoopInv, FreshInv, Untouched
<1>4. OwnerInv'
  BY DEF OwnerInv, Owners, One
<1>5. OneResolveInFlight'
  BY DEF OneResolveInFlight, ResolvesInFlight, One
<1>6. MonitorInv' /\ SeatInv' /\ MapInv'
  BY DEF MonitorInv, SeatInv, MapInv
<1>. QED BY <1>1, <1>2, <1>3, <1>4, <1>5, <1>6

\* PropertiesChanged is emitted through that share.
LEMMA UpdateCardTypeStep ==
    ASSUME IInv, UpdateCardType
    PROVE  IInv'
<1>. USE ConstantsAssumption DEF IInv, TypeOK, UpdateCardType, LoopGoto
<1>1. TypeOK'
  BY DEF MonitorCalls, LoopSteps
<1>2. FreshInv'
  BY DEF FreshInv, Untouched
<1>3. LoopInv'
  BY DEF LoopInv
<1>4. OwnerInv'
  BY DEF OwnerInv, Owners, One
<1>5. OneResolveInFlight'
  BY DEF OneResolveInFlight, ResolvesInFlight, One
<1>6. MonitorInv' /\ SeatInv' /\ MapInv'
  BY DEF MonitorInv, SeatInv, MapInv
<1>. QED BY <1>1, <1>2, <1>3, <1>4, <1>5, <1>6

\* The first state satisfies the invariant.
LEMMA InitIInv ==
    ASSUME Init
    PROVE  IInv
<1>1. TypeOK
  BY ConstantsAssumption DEF Init, TypeOK, LoopSteps
<1>2. FreshInv /\ MonitorInv /\ SeatInv /\ MapInv /\ LoopInv
  BY ConstantsAssumption
     DEF Init, FreshInv, Untouched, MonitorInv, SeatInv, MapInv, LoopInv
<1>3. OwnerInv /\ OneResolveInFlight
  BY DEF Init, OwnerInv, Owners, OneResolveInFlight, ResolvesInFlight, One
<1>. QED BY <1>1, <1>2, <1>3 DEF IInv

\* A step that changes nothing keeps it.
LEMMA StutterIInv ==
    ASSUME IInv, UNCHANGED vars
    PROVE  IInv'
BY DEF IInv, TypeOK, FreshInv, Untouched, MonitorInv, SeatInv, MapInv, LoopInv, OwnerInv,
       Owners, OneResolveInFlight, ResolvesInFlight, One, vars, busVars, mapVars, objVars,
       workVars, typeVars, monVars, loopVars

\* Every step keeps it: one case per action.
LEMMA NextIInv ==
    ASSUME IInv, [Next]_vars
    PROVE  IInv'
<1>1. CASE Monitor
  BY <1>1, ReaderAddedStep, CardInsertedStep, CardRemovedStep, ReaderRemovedStep DEF Monitor
<1>2. CASE MonitorStep
  BY <1>2, UpdatePropertiesSeatStep, UpdatePropertiesClearStep, MaterializeCardStep,
     MaterializeScheduleStep, WithdrawCardStep, WithdrawDropStep, WithdrawReaderStep,
     KeyRemovedHookStep DEF MonitorStep
<1>3. ASSUME NEW c \in Cards,
             \/ ProbeOnWorker(c)
             \/ LaunchRead(c)
             \/ CardTypeResolved(c)
             \/ \E opened \in BOOLEAN : ApplyCardResolution(c, opened)
             \/ RetryFired(c)
             \/ ApplyCardTypeUpdate(c)
      PROVE  IInv'
  BY <1>3, ProbeOnWorkerStep, LaunchReadStep, CardTypeResolvedStep, ApplyCardResolutionStep,
     RetryFiredStep, ApplyCardTypeUpdateStep
<1>4. CASE LoopStep
  BY <1>4, ConstructCardStep, CommitCardStep, LoopDropStep, HoldVerdictStep, SetReaderHoldStep,
     RetryScheduleStep, UpdateCardTypeStep DEF LoopStep
<1>5. CASE UNCHANGED vars
  BY <1>5, StutterIInv
<1>. QED BY <1>1, <1>2, <1>3, <1>4, <1>5 DEF Next

\* Every reachable state of the threads of AgentFrontend satisfies IInv.
THEOREM Invariance == Spec => []IInv
<1>1. Init => IInv BY InitIInv
<1>2. IInv /\ [Next]_vars => IInv' BY NextIInv
<1>. QED BY <1>1, <1>2, PTL DEF Spec

\* No counter of owners, closures or retries leaves its range, for any number
\* of readers and cards.
THEOREM TypeCorrect == Spec => []TypeOK
<1>1. IInv => TypeOK BY DEF IInv
<1>. QED BY <1>1, Invariance, PTL

\* applyCardResolution's claim has no competitor, and a pending card always has
\* its resolve under way: the comment in the source, for every instance.
THEOREM UniqueResolve == Spec => []OneResolveInFlight
<1>1. IInv => OneResolveInFlight BY DEF IInv
<1>. QED BY <1>1, Invariance, PTL

\* Co-ownership keeps the CardObject alive while the loop thread uses it.
THEOREM SharedOwnershipIsSafe == Spec => []NoUseAfterFree
<1>1. ASSUME IInv PROVE NoUseAfterFree
  <2>1. SUFFICES ASSUME loopPc \in {"commit", "touch", "drop"}
                 PROVE  object[loopCard] = "exported" /\ refs[loopCard] > 0
    BY DEF NoUseAfterFree
  <2>2. loopCard \in Cards BY <1>1, <2>1 DEF IInv, LoopInv
  <2>3. refs[loopCard] = Owners(loopCard) /\ (object[loopCard] = "exported" <=> refs[loopCard] > 0)
    BY <1>1, <2>2 DEF IInv, OwnerInv
  <2>4. Owners(loopCard) > 0 BY <2>1 DEF Owners, One
  <2>. QED BY <2>3, <2>4
<1>. QED BY <1>1, Invariance, PTL

\* Between two presence events the exported tree is what the readers hold.
THEOREM TreeIsFaithful == Spec => []TreeMatchesReaders
<1>1. ASSUME IInv, monTodo = {}
      PROVE  /\ readerObj = presence
             /\ \A c \in pending \union cards : presence[readerOf[c]] = c
             /\ \A r \in Readers : presence[r] \in Cards => presence[r] \in pending \union cards
  BY <1>1 DEF IInv, SeatInv
<1>2. ASSUME IInv, monTodo = {}, loopPc = "idle"
      PROVE  OnBus = cards
  <2>1. \A c \in Cards : Owners(c) = One(c \in cards) BY <1>2 DEF Owners, One
  <2>2. \A c \in Cards : c \in OnBus <=> c \in cards
    BY <1>2, <2>1 DEF IInv, OwnerInv, OnBus, One
  <2>. QED BY <1>2, <2>2 DEF IInv, TypeOK, OnBus
<1>3. IInv => TreeMatchesReaders BY <1>1, <1>2 DEF TreeMatchesReaders
<1>. QED BY <1>3, Invariance, PTL

-----------------------------------------------------------------------------
(***************************************************************************)
(* Refinement.  Only the steps that move a card between the maps, or make  *)
(* or destroy its object, are visible to the abstract specification.       *)
(***************************************************************************)
\* Recording the card as pending is Insert.
LEMMA InsertRefines ==
    ASSUME IInv, MaterializeCard
    PROVE  Directory!Insert(monCard) /\ monCard \in Cards
<1>1. monCard \in Cards /\ Untouched(monCard)
  BY DEF IInv, MonitorInv, FreshInv, MaterializeCard, Deliverable
<1>. QED BY <1>1 DEF IInv, TypeOK, Untouched, MaterializeCard, objVars, Life, Directory!Insert

\* Forgetting the card is Withdraw.
LEMMA WithdrawRefines ==
    ASSUME IInv, WithdrawCard
    PROVE  Directory!Withdraw(monCard) /\ monCard \in Cards
<1>1. monCard \in Cards /\ monCard \in pending \union cards
  BY DEF IInv, MonitorInv, WithdrawCard, Deliverable
<1>. QED BY <1>1 DEF IInv, MapInv, WithdrawCard, objVars, Life, Directory!Withdraw

\* Building the object is Announce, wanted still or just withdrawn.
LEMMA AnnounceRefines ==
    ASSUME IInv, ConstructCard
    PROVE  Directory!Announce(loopCard) /\ loopCard \in Cards
<1>1. loopCard \in Cards /\ loopCard \in pending \union withdrawn
  BY DEF IInv, LoopInv, ConstructCard
<1>2. object[loopCard] = "none" BY <1>1 DEF IInv, OwnerInv, ConstructCard
<1>3. loopCard \notin cards BY <1>1 DEF IInv, MapInv
<1>. QED BY <1>1, <1>2, <1>3 DEF ConstructCard, mapVars, Life, Directory!Announce

\* Moving the card between the maps is Publish; giving it up is a stutter.
LEMMA PublishRefines ==
    ASSUME IInv, CommitCard
    PROVE  (Directory!Publish(loopCard) /\ loopCard \in Cards) \/ UNCHANGED <<Life, object>>
<1>1. loopCard \in Cards /\ object[loopCard] = "exported"
  BY DEF IInv, LoopInv, OwnerInv, Owners, One, CommitCard
<1>2. CASE loopCard \in pending
  BY <1>1, <1>2 DEF IInv, MapInv, CommitCard, objVars, Life, Directory!Publish
<1>3. CASE loopCard \notin pending
  BY <1>3 DEF CommitCard, objVars, Life
<1>. QED BY <1>2, <1>3

\* Dropping the last share is Unlist; dropping another one is a stutter.
LEMMA UnlistRefines ==
    ASSUME IInv, NEW c \in Cards, c \in cards \union withdrawn, DropShare(c), UNCHANGED mapVars,
           refs[c] > One(c \in cards)
    PROVE  Directory!Unlist(c) \/ UNCHANGED <<Life, object>>
<1>1. CASE refs[c] = 1
  <2>1. c \notin cards /\ c \notin pending /\ c \in withdrawn
    BY <1>1 DEF One, IInv, MapInv
  <2>2. object[c] = "exported" BY <1>1 DEF IInv, OwnerInv
  <2>. QED BY <1>1, <2>1, <2>2 DEF DropShare, mapVars, Life, Directory!Unlist
<1>2. CASE refs[c] # 1
  BY <1>2 DEF DropShare, mapVars, Life
<1>. QED BY <1>1, <1>2

\* The threads' deferred publication implements the life of a card clients are
\* promised: announced once, published only while wanted, unlisted for good.
THEOREM Refinement == Spec => ImplementsDirectory
<1>1. Init => Directory!Init
  BY DEF Init, Life, Directory!Init
<1>2. ASSUME IInv, [Next]_vars
      PROVE  [Directory!Next]_<<Life, object>>
  <2>1. CASE MaterializeCard
    BY <1>2, <2>1, InsertRefines DEF Directory!Next
  <2>2. CASE WithdrawCard
    BY <1>2, <2>2, WithdrawRefines DEF Directory!Next
  <2>3. CASE ConstructCard
    BY <1>2, <2>3, AnnounceRefines DEF Directory!Next
  <2>4. CASE CommitCard
    BY <1>2, <2>4, PublishRefines DEF Directory!Next
  <2>5. CASE WithdrawDrop
    <3>1. monCard \in Cards /\ monCard \in withdrawn
      BY <1>2, <2>5 DEF IInv, MonitorInv, WithdrawDrop, Deliverable
    <3>2. refs[monCard] > One(monCard \in cards)
      BY <1>2, <2>5, <3>1 DEF IInv, OwnerInv, Owners, One, WithdrawDrop, Deliverable
    <3>. QED BY <1>2, <2>5, <3>1, <3>2, UnlistRefines DEF WithdrawDrop, Directory!Next
  <2>6. CASE LoopDrop
    <3>1. loopCard \in Cards /\ loopCard \in cards \union withdrawn
      BY <1>2, <2>6 DEF IInv, LoopInv, LoopDrop
    <3>2. refs[loopCard] > One(loopCard \in cards)
      BY <1>2, <2>6, <3>1 DEF IInv, OwnerInv, Owners, One, LoopDrop
    <3>. QED BY <1>2, <2>6, <3>1, <3>2, UnlistRefines DEF LoopDrop, Directory!Next
  <2>7. ASSUME ~MaterializeCard, ~WithdrawCard, ~ConstructCard, ~CommitCard,
               ~WithdrawDrop, ~LoopDrop
        PROVE  UNCHANGED <<pending, cards, withdrawn, object>>
    BY <1>2, <2>7
       DEF Next, Monitor, ReaderAdded, CardInserted, CardRemoved, ReaderRemoved,
           MonitorStep, UpdateProperties, MaterializeSchedule, WithdrawReader, KeyRemovedHook,
           ProbeOnWorker, LaunchRead, CardTypeResolved, ApplyCardResolution, RetryFired,
           ApplyCardTypeUpdate, LoopStep, HoldVerdict, SetReaderHold, RetrySchedule,
           UpdateCardType, vars, mapVars, objVars
  <2>8. CASE UNCHANGED <<pending, cards, withdrawn, object>>
    BY <2>8 DEF Life
  <2>. QED BY <2>1, <2>2, <2>3, <2>4, <2>5, <2>6, <2>7, <2>8
<1>. QED BY <1>1, <1>2, Invariance, PTL DEF Spec, ImplementsDirectory, Directory!Spec

=============================================================================
