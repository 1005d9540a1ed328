------------------------- MODULE ManagerObjectProofs -------------------------
(***************************************************************************)
(* Proofs about the manager object, for any calls over both interfaces,    *)
(* any requests, rights and lists, and any number of crashes, restarts and *)
(* deletions in the cache.                                                 *)
(***************************************************************************)
EXTENDS ManagerObject, FiniteSetTheorems, TLAPS

-----------------------------------------------------------------------------
(* Config1: the invariant of the calls.                                    *)

OnTheLoop == {"body", "read", "installed"}
TurnedAway == {"NotAuthorized", "NoAnswer", "RateLimited", "WentAway", "Stopped"}
Words == TurnedAway \cup {"none", "ok", "UnknownKey", "ReadOnly", "InvalidValue", "StoreRefused", "Unreadable",
                         "ListRefused", "CacheNotWritable"}

Values == {Config!Default} \cup {q.value : q \in Requests}

ConfigType ==
    /\ cStage \in [ConfigCalls -> {"idle", "asked", "granted", "done"} \cup OnTheLoop]
    /\ request \in [ConfigCalls -> Requests \cup {NoRequest}]
    /\ cReply \in [ConfigCalls -> Words]
    /\ inspected \subseteq ConfigCalls
    /\ config \in [Config!Settable -> Values]
    /\ manager \in {"serving", "closed", "gone"}
    /\ crashes \in Nat /\ wipes \in Nat

Allowed(q) == Config!ActionFor(q) \in Rights[q.client]

\* A call carries what it was let in with.
CallInv(k) ==
    /\ cStage[k] # "idle" => request[k] \in Requests
    /\ cStage[k] # "done" => cReply[k] = "none"
    /\ cStage[k] \in {"asked", "granted"} \cup OnTheLoop \/ cReply[k] = "ok" => Config!Mutability(request[k]) = "ok"
    /\ cStage[k] \in {"granted"} \cup OnTheLoop \/ cReply[k] = "ok" => Allowed(request[k])
    /\ cStage[k] \in {"read", "installed"} => request[k].method = "Import"
    /\ k \in inspected => cStage[k] \in {"read", "installed", "done"} /\ cReply[k] \notin TurnedAway
    /\ cStage[k] = "done" /\ crashes = 0 => cReply[k] # "none"
    /\ cStage[k] \in OnTheLoop => manager = "serving"
    /\ manager = "gone" => cStage[k] \in {"idle", "done"}

\* One body runs at a time.
LoopInv == \A j, k \in ConfigCalls : cStage[j] \in OnTheLoop /\ cStage[k] \in OnTheLoop => j = k

ConfigInv == ConfigType /\ (\A k \in ConfigCalls : CallInv(k)) /\ LoopInv

\* What Mutability answers is one of its words.
LEMMA MutabilityWords ==
    ASSUME NEW q
    PROVE  Config!Mutability(q) \in {"ok", "UnknownKey", "ReadOnly"}
  BY DEF Config!Mutability

\* Every step of a body.
LEMMA BodyKeeps ==
    ASSUME ConfigInv, NEW k \in ConfigCalls, Config!Body(k)
    PROVE  ConfigInv'
<1> USE DEF ConfigInv, ConfigType, CallInv, LoopInv, OnTheLoop, TurnedAway, Words, Config!Answer, Config!StoreAnswers
<1>0. cStage[k] \in OnTheLoop
  BY DEF Config!Body, Config!SetValueGranted, Config!ResetGranted, Config!ReadList, Config!ImportRefused,
         Config!Install, Config!Record
<1>1. CASE Config!SetValueGranted(k)
  <2>1. request[k].value \in Values
    BY <1>0 DEF Values
  <2> QED
    BY <1>1, <2>1 DEF Config!SetValueGranted, Config!faultVars
<1>2. CASE Config!ResetGranted(k)
  BY <1>2 DEF Config!ResetGranted, Config!faultVars, Values
<1>3. CASE Config!ReadList(k)
  BY <1>3 DEF Config!ReadList, Config!diskVars, Config!faultVars
<1>4. CASE Config!ImportRefused(k)
  BY <1>4 DEF Config!ImportRefused, Config!diskVars, Config!faultVars
<1>5. CASE Config!Install(k)
  BY <1>5 DEF Config!Install
<1>6. CASE Config!Record(k)
  BY <1>6 DEF Config!Record
<1> QED
  BY <1>1, <1>2, <1>3, <1>4, <1>5, <1>6 DEF Config!Body

\* The steps of a call before its body.
LEMMA CallKeeps ==
    ASSUME ConfigInv, NEW k \in ConfigCalls,
           (\E q \in Requests : Config!Dispatch(k, q)) \/ Config!Decided(k) \/ Config!Undecided(k) \/ Config!Enter(k)
    PROVE  ConfigInv'
<1> USE DEF ConfigInv, ConfigType, CallInv, LoopInv, OnTheLoop, TurnedAway, Words, Config!Answer, Config!diskVars, Config!faultVars
<1>1. ASSUME NEW q \in Requests, Config!Dispatch(k, q) PROVE ConfigInv'
  <2>1. Config!Mutability(q) \in {"ok", "UnknownKey", "ReadOnly"}
    BY MutabilityWords
  <2> QED
    BY <1>1, <2>1 DEF Config!Dispatch
<1>2. CASE Config!Decided(k)
  BY <1>2 DEF Config!Decided, Allowed
<1>3. CASE Config!Undecided(k)
  BY <1>3 DEF Config!Undecided
<1>4. CASE Config!Enter(k)
  BY <1>4 DEF Config!Enter, Config!LoopFree
<1> QED
  BY <1>1, <1>2, <1>3, <1>4

\* Closing, stopping, crashing, starting; what is done to the cache touches no call.
LEMMA ObjectKeeps ==
    ASSUME ConfigInv, Config!Close \/ Config!Stop \/ Config!Crash \/ Config!Start \/ Config!Wipe
    PROVE  ConfigInv'
<1> USE DEF ConfigInv, ConfigType, CallInv, LoopInv, OnTheLoop, TurnedAway, Words, Config!callVars, Config!diskVars, Config!faultVars
<1>1. CASE Config!Close
  BY <1>1 DEF Config!Close, Config!LoopFree
<1>2. CASE Config!Stop
  BY <1>2 DEF Config!Stop
<1>3. CASE Config!Crash
  BY <1>3 DEF Config!Crash
<1>4. CASE Config!Start
  BY <1>4 DEF Config!Start
<1>5. CASE Config!Wipe
  BY <1>5 DEF Config!Wipe
<1> QED
  BY <1>1, <1>2, <1>3, <1>4, <1>5

\* A step of the object is a step of Config1, or leaves it alone.
ConfigAction ==
    \/ \E k \in ConfigCalls :
         \/ \E q \in Requests : Config!Dispatch(k, q)
         \/ Config!Decided(k) \/ Config!Undecided(k) \/ Config!Enter(k) \/ Config!Body(k)
    \/ Config!Close \/ Config!Stop \/ Config!Crash \/ Config!Start \/ Config!Wipe

\* A step of the object is a step of Config1, or leaves Config1 alone.
LEMMA StepOfConfig == [Next]_vars => ConfigAction \/ UNCHANGED <<configVars, manager>>
<1> SUFFICES ASSUME [Next]_vars PROVE ConfigAction \/ UNCHANGED <<configVars, manager>>
  OBVIOUS
<1>1. CASE ConfigStep
  BY <1>1 DEF ConfigStep, ConfigAction
<1>2. CASE CryptoStep
  <2>1. UNCHANGED manager
    BY <1>2 DEF CryptoStep, Crypto!Invoke, Crypto!Receive, Crypto!KeepKey, Crypto!GiveUp, Crypto!Forward,
           Crypto!Fulfil, Crypto!Release, Crypto!ForgetKeys, Crypto!TearDown, Crypto!Pull
  <2> QED
    BY <1>2, <2>1 DEF CryptoStep
<1>3. CASE StopAuthorizer \/ Crash \/ Start
  BY <1>3 DEF StopAuthorizer, Crash, Start, ConfigAction
<1>4. CASE UNCHANGED vars
  BY <1>4 DEF vars
<1> QED
  BY <1>1, <1>2, <1>3, <1>4 DEF Next

\* No step of the object breaks the invariant of Config1.
LEMMA ConfigInvStep == ConfigInv /\ [Next]_vars => ConfigInv'
<1> SUFFICES ASSUME ConfigInv, [Next]_vars PROVE ConfigInv'
  OBVIOUS
<1>1. CASE ConfigAction
  BY <1>1, BodyKeeps, CallKeeps, ObjectKeeps DEF ConfigAction
<1>2. CASE UNCHANGED <<configVars, manager>>
  BY <1>2 DEF configVars, ConfigInv, ConfigType, CallInv, LoopInv
<1> QED
  BY <1>1, <1>2, StepOfConfig

\* The object starts with no call taken.
LEMMA ConfigInvInit == Init => ConfigInv
  BY DEF Init, Config!Init, ConfigInv, ConfigType, CallInv, LoopInv, OnTheLoop, Words, Values

\* The invariant of Config1 holds in every behaviour of the object.
LEMMA ConfigInvariance == Spec => []ConfigInv
<1> QED
  BY ConfigInvInit, ConfigInvStep, PTL DEF Spec

\* Who is let into a body has the right for what the body may change.
LEMMA BodyHasRight ==
    ASSUME ConfigInv, NEW k \in ConfigCalls, cStage[k] \in OnTheLoop
    PROVE  /\ request[k].method = "Import" => Config!HasRight(k, "configure.trust")
           /\ request[k].method # "Import" => /\ request[k].key \in Config!Settable
                                              /\ Config!HasRight(k, Config!RightFor(request[k].key))
<1>1. request[k] \in Requests /\ Allowed(request[k]) /\ Config!Mutability(request[k]) = "ok"
  BY DEF ConfigInv, CallInv, OnTheLoop
<1>2. request[k].method # "Import" =>
        request[k].key \in {"preference", "trust", "fileOnly", "readOnly", "unknown"}
  BY <1>1, RequestAssumption DEF Config!Keys
<1> QED
  BY <1>1, <1>2 DEF Allowed, Config!ActionFor, Config!Mutability, Config!HasRight, Config!RightFor, Config!Settable

\* What ChangeNeedsRight says of a step.
Lawful == Config!LawfulChange /\ Config!TruthfulReply

\* The step of a body.
LEMMA BodyIsLawful ==
    ASSUME ConfigInv, NEW k \in ConfigCalls, Config!Body(k)
    PROVE  Lawful
<1>i. ConfigInv'
  BY BodyKeeps
<1>j. \A j \in inspected' : cReply'[j] \notin TurnedAway
  BY <1>i DEF ConfigInv, CallInv, ConfigType
<1> USE DEF Lawful, Config!LawfulChange, Config!TruthfulReply, TurnedAway, Config!Answer, Config!StoreAnswers
<1>0. /\ cStage[k] \in OnTheLoop
      /\ cStage[k] \in {"read", "installed"} => request[k].method = "Import"
      /\ cStage \in [ConfigCalls -> {"idle", "asked", "granted", "done"} \cup OnTheLoop]
      /\ cReply \in [ConfigCalls -> Words] /\ config \in [Config!Settable -> Values]
      /\ cReply[k] = "none"
  BY DEF Config!Body, Config!SetValueGranted, Config!ResetGranted, Config!ReadList, Config!ImportRefused,
         Config!Install, Config!Record, OnTheLoop, ConfigInv, CallInv, ConfigType
<1>1. CASE Config!SetValueGranted(k)
  BY <1>0, <1>j, <1>1, BodyHasRight DEF Config!SetValueGranted
<1>2. CASE Config!ResetGranted(k)
  BY <1>0, <1>j, <1>2, BodyHasRight DEF Config!ResetGranted
<1>3. CASE Config!ReadList(k)
  BY <1>0, <1>j, <1>3 DEF Config!ReadList, Config!diskVars
<1>4. CASE Config!ImportRefused(k)
  BY <1>0, <1>j, <1>4 DEF Config!ImportRefused, Config!diskVars
<1>5. CASE Config!Install(k)
  BY <1>0, <1>j, <1>5, BodyHasRight DEF Config!Install
<1>6. CASE Config!Record(k)
  BY <1>0, <1>j, <1>6, BodyHasRight DEF Config!Record
<1> QED
  BY <1>1, <1>2, <1>3, <1>4, <1>5, <1>6 DEF Config!Body

\* Settings, anchors, their report and descriptors are touched only by a call whose
\* client the authority gave the right for them (SetValue, Reset,
\* ImportCscaMasterList), whatever calls are in flight and however the object stops,
\* crashes and starts again.
THEOREM RightIsNeeded == Spec => ChangeNeedsRight
<1>1. ConfigInv /\ ConfigInv' /\ [Next]_vars => Lawful
  <2> SUFFICES ASSUME ConfigInv, ConfigInv', [Next]_vars PROVE Lawful
    OBVIOUS
  <2>0. \A k \in inspected' : cReply'[k] \notin TurnedAway
    BY DEF ConfigInv, CallInv, ConfigType
  <2> USE <2>0 DEF TurnedAway, Config!LawfulChange, Config!TruthfulReply
  <2>1. CASE UNCHANGED <<configVars, manager>>
    BY <2>1 DEF configVars, Lawful
  <2>2. ASSUME NEW k \in ConfigCalls, Config!Body(k) PROVE Lawful
    BY <2>2, BodyIsLawful
  <2>3. ASSUME NEW k \in ConfigCalls,
               (\E q \in Requests : Config!Dispatch(k, q)) \/ Config!Decided(k) \/ Config!Undecided(k)
               \/ Config!Enter(k)
        PROVE  Lawful
    BY <2>3 DEF Lawful, ConfigInv, ConfigType, Config!Dispatch, Config!Decided, Config!Undecided,
           Config!Enter, Config!Answer, Config!diskVars
  <2>4. CASE Config!Close \/ Config!Stop
    BY <2>4 DEF Lawful, Config!Close, Config!Stop, Config!callVars, Config!diskVars
  <2>5. CASE Config!Crash
    BY <2>5 DEF Lawful, Config!Crash, Config!diskVars, ConfigInv, ConfigType
  <2>6. CASE Config!Start
    BY <2>6 DEF Lawful, Config!Start, Config!callVars
  <2>7. CASE Config!Wipe
    BY <2>7 DEF Lawful, Config!Wipe, Config!callVars, ConfigInv, ConfigType
  <2> QED
    BY <2>1, <2>2, <2>3, <2>4, <2>5, <2>6, <2>7, StepOfConfig DEF ConfigAction
<1> QED
  BY <1>1, ConfigInvariance, PTL DEF Spec, ChangeNeedsRight, Config!ChangeNeedsRight, Lawful

-----------------------------------------------------------------------------
(* Config1: the report and the cache.                                      *)

Installing == \E k \in ConfigCalls : cStage[k] = "installed"
Signers(lists) == {l.signer : l \in lists}

\* The cache is what the last import installed, or a deletion left of it; the
\* report stands for the last import unless a crash came between.
DiskInv ==
    /\ cache \in [anchors : SUBSET Signers(Config!Lists), pins : SUBSET Config!Lists]
    /\ imported \in [lists : SUBSET Config!Lists, established : BOOLEAN]
    /\ torn \in BOOLEAN /\ wiped \in BOOLEAN
    /\ IsFiniteSet(imported.lists)
    /\ cache.pins \in {{}, imported.lists}
    /\ ~wiped /\ (report # Config!NoReport \/ Installing) => cache.anchors # {} /\ cache.pins # {}
    /\ ~torn /\ report # Config!NoReport /\ ~Installing => report = Config!ToRecordedState(imported)

\* Trust::importMasterList takes in lists that were offered.
LEMMA TakenIsOffered ==
    ASSUME ConfigInv, NEW k \in ConfigCalls, cStage[k] = "read"
    PROVE  /\ Config!Taken(request[k].offer) \subseteq Config!Lists
           /\ IsFiniteSet(Config!Taken(request[k].offer))
<1>1. request[k] \in Requests
  BY DEF ConfigInv, CallInv
<1>2. Config!Taken(request[k].offer) \subseteq request[k].offer
  BY DEF Config!Taken
<1>3. request[k].offer \subseteq Config!Lists /\ IsFiniteSet(request[k].offer)
  BY <1>1, RequestAssumption DEF Config!Lists
<1> QED
  BY <1>2, <1>3, FS_Subset

\* Imports, crashes, restarts and deletions keep report and cache in accord.
LEMMA DiskStep == ConfigInv /\ DiskInv /\ [Next]_vars => DiskInv'
<1> SUFFICES ASSUME ConfigInv, DiskInv, [Next]_vars PROVE DiskInv'
  OBVIOUS
<1>1. ASSUME NEW k \in ConfigCalls, Config!Install(k) PROVE DiskInv'
  <2> DEFINE took == Config!Taken(request[k].offer)
  <2>1. took \subseteq Config!Lists /\ IsFiniteSet(took) /\ took # {}
    BY <1>1, TakenIsOffered DEF Config!Install
  <2>2. /\ imported' = [lists |-> took, established |-> cache.pins # {}]
        /\ cache' = [anchors |-> Signers(took), pins |-> took]
        /\ wiped' = FALSE /\ UNCHANGED torn
        /\ cStage' = [cStage EXCEPT ![k] = "installed"]
    BY <1>1 DEF Config!Install, Signers
  <2>3. Installing'
    BY <2>2 DEF Installing, ConfigInv, ConfigType
  <2> HIDE DEF took
  <2>4. Signers(took) \subseteq Signers(Config!Lists) /\ Signers(took) # {}
    BY <2>1 DEF Signers
  <2>5. /\ cache'.anchors = Signers(took) /\ cache'.pins = took /\ imported'.lists = took
        /\ imported' \in [lists : SUBSET Config!Lists, established : BOOLEAN]
        /\ cache' \in [anchors : SUBSET Signers(Config!Lists), pins : SUBSET Config!Lists]
    BY <2>1, <2>2, <2>4
  <2> QED
    BY <2>1, <2>2, <2>3, <2>4, <2>5 DEF DiskInv, Config!Lists
<1>2. ASSUME NEW k \in ConfigCalls, Config!Record(k) PROVE DiskInv'
  <2>1. /\ report' = Config!ToRecordedState(imported) /\ torn' = FALSE
        /\ UNCHANGED <<cache, imported, wiped>>
        /\ cStage[k] = "installed"
    BY <1>2 DEF Config!Record
  <2>2. Installing
    BY <2>1 DEF Installing
  <2>3. Config!ToRecordedState(imported)' = Config!ToRecordedState(imported)
    BY <2>1
  <2> QED
    BY <2>1, <2>2, <2>3 DEF DiskInv
<1>3. ASSUME UNCHANGED <<report, cache, imported, torn, wiped>>, Installing' <=> Installing
      PROVE  DiskInv'
  BY <1>3 DEF DiskInv
<1>4. ASSUME NEW k \in ConfigCalls, Config!Body(k) PROVE DiskInv'
  <2>1. CASE Config!SetValueGranted(k) \/ Config!ResetGranted(k) \/ Config!ReadList(k) \/ Config!ImportRefused(k)
    <3>1. /\ UNCHANGED <<report, cache, imported, torn, wiped>>
          /\ cStage[k] # "installed" /\ \E s \in {"done", "read"} : cStage' = [cStage EXCEPT ![k] = s]
      BY <2>1 DEF Config!SetValueGranted, Config!ResetGranted, Config!ReadList, Config!ImportRefused,
             Config!StoreAnswers, Config!Answer, Config!diskVars, Config!faultVars
    <3>2. Installing' <=> Installing
      BY <3>1 DEF Installing, ConfigInv, ConfigType
    <3> QED
      BY <1>3, <3>1, <3>2
  <2> QED
    BY <1>1, <1>2, <1>4, <2>1 DEF Config!Body
<1>5. ASSUME NEW k \in ConfigCalls,
             (\E q \in Requests : Config!Dispatch(k, q)) \/ Config!Decided(k) \/ Config!Undecided(k)
             \/ Config!Enter(k)
      PROVE  DiskInv'
  <2>1. /\ UNCHANGED <<report, cache, imported, torn, wiped>>
        /\ cStage[k] # "installed"
        /\ \E s \in {"done", "asked", "granted", "body"} : cStage' = [cStage EXCEPT ![k] = s]
    BY <1>5 DEF Config!Dispatch, Config!Decided, Config!Undecided, Config!Enter, Config!Answer, Config!diskVars,
           Config!faultVars
  <2>2. Installing' <=> Installing
    BY <2>1 DEF Installing, ConfigInv, ConfigType
  <2> QED
    BY <1>3, <2>1, <2>2
<1>6. CASE Config!Close
  BY <1>3, <1>6 DEF Config!Close, Config!callVars, Config!diskVars, Config!faultVars, Installing
<1>7. CASE Config!Stop
  <2>1. UNCHANGED <<report, cache, imported, torn, wiped>>
    BY <1>7 DEF Config!Stop, Config!diskVars, Config!faultVars
  <2>2. Installing' <=> Installing
    BY <1>7 DEF Config!Stop, Installing
  <2> QED
    BY <1>3, <2>1, <2>2
<1>8. CASE Config!Crash
  <2>1. UNCHANGED <<report, cache, imported, wiped>> /\ torn' = (torn \/ Installing)
    BY <1>8 DEF Config!Crash, Config!diskVars, Installing
  <2>2. ~Installing'
    BY <1>8 DEF Config!Crash, Installing
  <2>3. torn' \in BOOLEAN /\ (~torn' => ~torn /\ ~Installing)
    BY <2>1 DEF DiskInv, Installing
  <2> QED
    BY <2>1, <2>2, <2>3 DEF DiskInv
<1>9. CASE Config!Start
  <2>1. /\ UNCHANGED <<cache, imported, torn, cStage>> /\ wiped' = FALSE
        /\ report' = IF cache.anchors = {} \/ cache.pins = {} THEN Config!NoReport ELSE report
        /\ manager = "gone"
    BY <1>9 DEF Config!Start, Config!callVars
  <2>2. ~Installing /\ ~Installing'
    BY <2>1 DEF Installing, ConfigInv, CallInv
  <2> QED
    BY <2>1, <2>2 DEF DiskInv
<1>10. CASE Config!Wipe
  <2>1. UNCHANGED <<report, imported, torn, cStage>> /\ wiped' = TRUE
    BY <1>10 DEF Config!Wipe, Config!callVars
  <2>2. /\ cache' \in [anchors : SUBSET Signers(Config!Lists), pins : SUBSET Config!Lists]
        /\ cache'.pins \in {{}, cache.pins}
    BY <1>10 DEF Config!Wipe, DiskInv
  <2>3. Installing' <=> Installing
    BY <2>1 DEF Installing
  <2> QED
    BY <2>1, <2>2, <2>3 DEF DiskInv
<1>11. CASE UNCHANGED <<configVars, manager>>
  BY <1>3, <1>11 DEF configVars, Installing
<1>12. CASE ConfigAction
  BY <1>4, <1>5, <1>6, <1>7, <1>8, <1>9, <1>10, <1>12 DEF ConfigAction
<1> QED
  BY <1>11, <1>12, StepOfConfig

\* At first there is neither a report nor a cache.
LEMMA DiskInvInit == Init => DiskInv
<1> SUFFICES ASSUME Init PROVE DiskInv
  OBVIOUS
<1>1. /\ cache = [anchors |-> {}, pins |-> {}] /\ imported = [lists |-> {}, established |-> FALSE]
      /\ torn = FALSE /\ wiped = FALSE /\ report = Config!NoReport
      /\ ~Installing
  BY DEF Init, Config!Init, Installing
<1> QED
  BY <1>1, FS_EmptySet DEF DiskInv

\* The instance counts as everybody does.
LEMMA SameCount == \A S : Config!Cardinality(S) = Cardinality(S)
  BY DEF Config!Cardinality, Cardinality

\* toRecordedState names a publisher only if it is that of every list.
LEMMA NamedIsTheOnlyOne ==
    ASSUME NEW state, IsFiniteSet(state.lists), Config!ToRecordedState(state).signer # "none",
           NEW l \in state.lists
    PROVE  l.signer = Config!ToRecordedState(state).signer
<1>1. /\ Cardinality(state.lists) = 1
      /\ Config!ToRecordedState(state).signer = (CHOOSE m \in state.lists : TRUE).signer
  BY SameCount DEF Config!ToRecordedState
<1>2. PICK x : state.lists = {x}
  BY <1>1, FS_Singleton
<1>3. (CHOOSE m \in state.lists : TRUE) = x
  BY <1>2
<1> QED
  BY <1>1, <1>2, <1>3

\* CscaAnchorState says no more than the cache bears out (recordCscaAnchorState and
\* discardStaleAnchorReport), for any lists and publishers, any order of imports and
\* any number of crashes, restarts and deletions.
THEOREM ReportIsTrue == Spec => []ReportIsBorneOut
<1>1. ConfigInv /\ DiskInv => ReportIsBorneOut
  <2> SUFFICES ASSUME ConfigInv, DiskInv,
                      manager = "serving", ~wiped, report # Config!NoReport, Config!LoopFree
               PROVE  /\ cache.anchors # {} /\ cache.pins # {}
                      /\ ~torn =>
                         /\ report.anchors = Cardinality(cache.pins)
                         /\ report.signer # "none" =>
                              cache.pins = {p \in cache.pins : p.signer = report.signer}
                         /\ report.signerPinned => imported.established
                         /\ report.replayRefusalActive => \A p \in cache.pins : p.date # 0
    BY SameCount DEF ReportIsBorneOut, Config!ReportIsBorneOut
  <2>1. ~Installing
    BY DEF Config!LoopFree, Installing
  <2>2. cache.anchors # {} /\ cache.pins # {} /\ cache.pins = imported.lists /\ IsFiniteSet(imported.lists)
    BY DEF DiskInv
  <2>3. SUFFICES ASSUME ~torn
                 PROVE  /\ report.anchors = Cardinality(cache.pins)
                        /\ report.signer # "none" =>
                             cache.pins = {p \in cache.pins : p.signer = report.signer}
                        /\ report.signerPinned => imported.established
                        /\ report.replayRefusalActive => \A p \in cache.pins : p.date # 0
    BY <2>2
  <2>4. report = Config!ToRecordedState(imported)
    BY <2>1, <2>3 DEF DiskInv
  <2>5. report.signer # "none" => \A p \in cache.pins : p.signer = report.signer
    BY <2>2, <2>4, NamedIsTheOnlyOne
  <2>6. /\ report.anchors = Cardinality(imported.lists)
        /\ report.signerPinned = imported.established
        /\ report.replayRefusalActive = \A l \in imported.lists : l.date # 0
    BY <2>4, SameCount DEF Config!ToRecordedState
  <2> QED
    BY <2>2, <2>5, <2>6
<1> QED
  BY <1>1, ConfigInvariance, DiskInvInit, DiskStep, PTL DEF Spec

-----------------------------------------------------------------------------
(* Pkcs11_1: the invariant of the calls.                                   *)

\* Where the agent, or the client, still works on a call.
InFlight == {"sent", "queued", "fulfilled", "answered", "keep"}

CryptoType ==
    /\ pStage \in [CryptoCalls -> {"idle", "done"} \cup InFlight]
    /\ ask \in [CryptoCalls -> Asks \cup {NoAsk}]
    /\ DOMAIN answer = CryptoCalls /\ answer = [k \in CryptoCalls |-> answer[k]]
    /\ replies \in [CryptoCalls -> Nat]
    /\ DOMAIN performed = CryptoCalls /\ performed = [k \in CryptoCalls |-> performed[k]]
    /\ DOMAIN status = CryptoCalls /\ status = [k \in CryptoCalls |-> status[k]]
    /\ taken \subseteq CryptoCalls
    /\ keyCache \in {"none", cardKey}

\* What the bus carries and what the wrapper returned is borne out by the card.
FitInv(k) ==
    /\ pStage[k] = "idle" => answer[k] = "none" /\ performed[k] = "none" /\ status[k] = "none"
    /\ pStage[k] # "idle" => ask[k] \in Asks
    /\ pStage[k] \in InFlight /\ ask[k].method = "SignRaw" =>
         Crypto!SignMechanism(Crypto!Token(ask[k].mech)) = ask[k].mech
    /\ pStage[k] \in {"sent", "queued"} => performed[k] = "none" /\ answer[k] # "ok"
    /\ performed[k] # "none" => performed[k] = ask[k].mech
    /\ answer[k] # "Ok"
    /\ answer[k] = "ok" /\ ask[k].method = "PublicKey" => ask[k].key = cardKey
    /\ answer[k] = "ok" /\ ask[k].method \in {"SignRaw", "Decrypt", "Derive"} => performed[k] = ask[k].mech
    /\ pStage[k] = "keep" => answer[k] = "ok" /\ ask[k].method = "PublicKey"
    /\ status[k] = "Ok" /\ ask[k].method = "PublicKey" => ask[k].key = cardKey
    /\ status[k] = "Ok" /\ ask[k].method \in {"SignRaw", "Decrypt", "Derive"} => performed[k] = ask[k].mech

\* A reply is counted when it is sent.
CountInv(k) ==
    /\ pStage[k] \in {"idle", "sent"} => k \notin taken
    /\ pStage[k] \in {"idle", "sent", "queued"} => replies[k] = 0
    /\ k \in taken => replies[k] = IF pStage[k] = "queued" THEN 0 ELSE 1

CryptoInv == CryptoType /\ \A k \in CryptoCalls : FitInv(k) /\ CountInv(k)

\* A failure is never read as a success.
LEMMA FailedIsNotOk ==
    ASSUME NEW a, NEW name, name # "Ok"
    PROVE  Crypto!Failed(a, name) # "Ok"
  BY DEF Crypto!Failed, Crypto!StatusFromException, Crypto!MapErrorName

\* The wrapper returns, or the call goes out.
LEMMA InvokeKeeps ==
    ASSUME CryptoInv, NEW k \in CryptoCalls, NEW a \in Asks, Crypto!Invoke(k, a)
    PROVE  CryptoInv'
<1> USE DEF CryptoInv, CryptoType, FitInv, CountInv, InFlight, Crypto!cardVars
<1>1. /\ pStage[k] = "idle"
      /\ ask' = [ask EXCEPT ![k] = a]
      /\ UNCHANGED <<answer, replies, performed, taken, keyCache, cardKey>>
  BY DEF Crypto!Invoke
<1> DEFINE Sent ==
             /\ pStage' = [pStage EXCEPT ![k] = "sent"] /\ UNCHANGED status
             /\ a.method = "SignRaw" => Crypto!SignMechanism(Crypto!Token(a.mech)) = a.mech
           Returned ==
             /\ pStage' = [pStage EXCEPT ![k] = "done"]
             /\ \E st : /\ status' = [status EXCEPT ![k] = st]
                        /\ st = "Ok" => a.method = "PublicKey" /\ a.key = cardKey
<1>2. Sent \/ Returned
  <2>1. Crypto!Failed(a, "NoReply") # "Ok"
    BY FailedIsNotOk
  <2>2. ASSUME Crypto!Send(k, a), a.method = "SignRaw" => Crypto!SignMechanism(Crypto!Token(a.mech)) = a.mech
        PROVE  Sent \/ Returned
    BY <2>1, <2>2 DEF Crypto!Send, Crypto!Return
  <2>3. CASE Crypto!SignRaw(k, a)
    BY <2>2, <2>3 DEF Crypto!SignRaw, Crypto!Return
  <2>4. CASE Crypto!PublicKey(k, a)
    BY <2>2, <2>4 DEF Crypto!PublicKey, Crypto!Return
  <2> QED
    BY <2>2, <2>3, <2>4 DEF Crypto!Invoke, Crypto!CertDer, Crypto!Decrypt, Crypto!Derive, Crypto!Login,
       Crypto!LoginActive, Crypto!Logout
<1>3. CryptoType'
  BY <1>1, <1>2
<1>4. ASSUME NEW j \in CryptoCalls PROVE FitInv(j)' /\ CountInv(j)'
  BY <1>1, <1>2
<1> QED
  BY <1>3, <1>4

\* The client's side of a call in flight.
LEMMA ClientKeeps ==
    ASSUME CryptoInv, NEW k \in CryptoCalls, Crypto!Receive(k) \/ Crypto!KeepKey(k) \/ Crypto!GiveUp(k)
    PROVE  CryptoInv'
<1> USE DEF CryptoInv, CryptoType, FitInv, CountInv, InFlight, Crypto!cardVars, Crypto!Return
<1>1. CASE Crypto!Receive(k)
  <2>1. pStage[k] = "answered" /\ UNCHANGED <<ask, answer, replies, performed, taken, keyCache, cardKey>>
    BY <1>1 DEF Crypto!Receive
  <2>2. CASE answer[k] # "ok"
    <3>1. Crypto!Failed(ask[k], answer[k]) # "Ok"
      BY FailedIsNotOk
    <3>2. /\ pStage' = [pStage EXCEPT ![k] = "done"]
          /\ status' = [status EXCEPT ![k] = Crypto!Failed(ask[k], answer[k])]
      BY <1>1, <2>2 DEF Crypto!Receive
    <3> QED
      BY <2>1, <3>1, <3>2
  <2>3. CASE answer[k] = "ok" /\ ask[k].method = "PublicKey"
    <3>1. pStage' = [pStage EXCEPT ![k] = "keep"] /\ UNCHANGED status
      BY <1>1, <2>3 DEF Crypto!Receive
    <3> QED
      BY <2>1, <2>3, <3>1
  <2>4. CASE answer[k] = "ok" /\ ask[k].method # "PublicKey"
    <3>1. pStage' = [pStage EXCEPT ![k] = "done"] /\ status' = [status EXCEPT ![k] = "Ok"]
      BY <1>1, <2>4 DEF Crypto!Receive
    <3> QED
      BY <2>1, <2>4, <3>1
  <2> QED
    BY <2>2, <2>3, <2>4
<1>2. CASE Crypto!KeepKey(k)
  BY <1>2 DEF Crypto!KeepKey
<1>3. CASE Crypto!GiveUp(k)
  <2>1. Crypto!Failed(ask[k], "NoReply") # "Ok"
    BY FailedIsNotOk
  <2>2. /\ pStage[k] \in {"sent", "queued", "fulfilled"}
        /\ status' = [status EXCEPT ![k] = Crypto!Failed(ask[k], "NoReply")]
        /\ pStage' = [pStage EXCEPT ![k] = IF @ = "sent" /\ manager # "serving" THEN "done" ELSE @]
        /\ UNCHANGED <<ask, answer, replies, performed, taken, keyCache, cardKey>>
    BY <1>3 DEF Crypto!GiveUp
  <2>3. CryptoType'
    BY <2>2
  <2>4. ASSUME NEW j \in CryptoCalls PROVE FitInv(j)' /\ CountInv(j)'
    BY <2>1, <2>2
  <2> QED
    BY <2>3, <2>4
<1> QED
  BY <1>1, <1>2, <1>3

\* The forwarders: a call is handed to the broker, or answered at once.
LEMMA ForwardKeeps ==
    ASSUME CryptoInv, NEW k \in CryptoCalls, Crypto!Forward(k)
    PROVE  CryptoInv'
<1> USE DEF CryptoInv, CryptoType, FitInv, CountInv, InFlight, Crypto!cardVars
<1>1. /\ pStage[k] = "sent" /\ taken' = taken \cup {k}
      /\ UNCHANGED <<ask, performed, status, keyCache, cardKey>>
  BY DEF Crypto!Forward
<1>2. \/ pStage' = [pStage EXCEPT ![k] = "queued"] /\ UNCHANGED <<answer, replies>>
      \/ \E name \in {"ok", "InvalidRequest"} :
           /\ answer' = [answer EXCEPT ![k] = name]
           /\ replies' = [replies EXCEPT ![k] = @ + 1]
           /\ pStage' = [pStage EXCEPT ![k] = IF status[k] = "none" THEN "answered" ELSE "done"]
           /\ name = "ok" => ask[k].method \in {"Logout", "LoginState"}
  BY DEF Crypto!Forward, Crypto!ForwardSignRaw, Crypto!ForwardDecrypt, Crypto!ForwardDerive, Crypto!ForwardCertDer,
     Crypto!ForwardPublicKey, Crypto!ForwardLogin, Crypto!ForwardSync, Crypto!ReplyNow, Crypto!Reply, Crypto!HandOff
<1>3. CryptoType'
  BY <1>1, <1>2
<1>4. ASSUME NEW j \in CryptoCalls PROVE FitInv(j)' /\ CountInv(j)'
  BY <1>1, <1>2
<1> QED
  BY <1>3, <1>4

\* The mechanism the card runs is the caller's: signRaw() sent only what its token is
\* read back as.
LEMMA MechanismFits ==
    ASSUME CryptoInv, NEW k \in CryptoCalls, pStage[k] = "queued"
    PROVE  Crypto!Mechanism(k) = ask[k].mech
<1>1. ask[k] \in Asks
  BY DEF CryptoInv, FitInv
<1>2. CASE ask[k].method = "SignRaw"
  BY <1>2 DEF Crypto!Mechanism, CryptoInv, FitInv, InFlight
<1>3. CASE ask[k].method = "Decrypt"
  <2>1. ask[k].mech = "RsaPkcs1Decrypt"
    BY <1>1, <1>3, AskAssumption
  <2> QED
    BY <1>3, <2>1 DEF Crypto!Mechanism, Crypto!DecryptMechanism, Crypto!Token
<1>4. CASE ask[k].method \notin {"SignRaw", "Decrypt"}
  BY <1>4 DEF Crypto!Mechanism
<1> QED
  BY <1>2, <1>3, <1>4

\* The broker's worker, and the end of the operation.
LEMMA WorkerKeeps ==
    ASSUME CryptoInv, NEW k \in CryptoCalls, Crypto!Fulfil(k) \/ Crypto!Release(k)
    PROVE  CryptoInv'
<1> USE DEF CryptoInv, CryptoType, FitInv, CountInv, InFlight, Crypto!cardVars
<1>1. CASE Crypto!Fulfil(k)
  <2>1. /\ pStage[k] = "queued" /\ pStage' = [pStage EXCEPT ![k] = "fulfilled"]
        /\ replies' = [replies EXCEPT ![k] = @ + 1]
        /\ UNCHANGED <<ask, status, taken, keyCache, cardKey>>
    BY <1>1 DEF Crypto!Fulfil, Crypto!Reply
  <2>2. Crypto!Mechanism(k) = ask[k].mech
    BY <2>1, MechanismFits
  <2>3. \/ /\ performed' = [performed EXCEPT ![k] = ask[k].mech]
           /\ \E name \in {"ok", "NotSupported"} :
                /\ answer' = [answer EXCEPT ![k] = name]
                /\ name = "ok" /\ ask[k].method = "PublicKey" => ask[k].key = cardKey
        \/ /\ UNCHANGED performed
           /\ \E name \in Failures : answer' = [answer EXCEPT ![k] = name]
    BY <1>1, <2>2 DEF Crypto!Fulfil, Crypto!Reply, Crypto!Converted
  <2>4. "ok" \notin Failures /\ "Ok" \notin Failures
    BY AskAssumption
  <2>5. CryptoType'
    BY <2>1, <2>3
  <2>6. ASSUME NEW j \in CryptoCalls PROVE FitInv(j)' /\ CountInv(j)'
    BY <2>1, <2>3, <2>4
  <2> QED
    BY <2>5, <2>6
<1>2. CASE Crypto!Release(k)
  BY <1>2 DEF Crypto!Release
<1> QED
  BY <1>1, <1>2

\* The teardown's fallback, a lost process, a pulled card and a forgotten key.
LEMMA AgentKeeps ==
    ASSUME CryptoInv, Crypto!TearDown \/ Crypto!ProcessDies \/ Crypto!Pull \/ Crypto!ForgetKeys
    PROVE  CryptoInv'
<1> USE DEF CryptoInv, CryptoType, FitInv, CountInv, InFlight, Crypto!cardVars
<1>1. CASE Crypto!TearDown
  <2>1. PICK running \in SUBSET {k \in CryptoCalls : pStage[k] = "queued"} :
          LET dropped == {k \in CryptoCalls : pStage[k] = "queued"} \ running
          IN /\ answer' = [k \in CryptoCalls |-> IF k \in dropped THEN "Communication" ELSE answer[k]]
             /\ replies' = [k \in CryptoCalls |-> IF k \in dropped THEN replies[k] + 1 ELSE replies[k]]
             /\ pStage' = [k \in CryptoCalls |-> IF k \notin dropped THEN pStage[k]
                                                 ELSE IF status[k] = "none" THEN "answered" ELSE "done"]
    BY <1>1 DEF Crypto!TearDown
  <2>2. UNCHANGED <<ask, performed, status, taken, keyCache, cardKey>>
    BY <1>1 DEF Crypto!TearDown
  <2>3. \A k \in CryptoCalls :
          \/ answer'[k] = answer[k] /\ replies'[k] = replies[k] /\ pStage'[k] = pStage[k]
          \/ /\ pStage[k] = "queued" /\ pStage'[k] \in {"answered", "done"}
             /\ answer'[k] = "Communication" /\ replies'[k] = replies[k] + 1
    <3> DEFINE dropped == {k \in CryptoCalls : pStage[k] = "queued"} \ running
    <3>1. ASSUME NEW k \in CryptoCalls, k \in dropped
          PROVE  /\ pStage[k] = "queued" /\ pStage'[k] \in {"answered", "done"}
                 /\ answer'[k] = "Communication" /\ replies'[k] = replies[k] + 1
      BY <2>1, <3>1
    <3>2. ASSUME NEW k \in CryptoCalls, k \notin dropped
          PROVE  answer'[k] = answer[k] /\ replies'[k] = replies[k] /\ pStage'[k] = pStage[k]
      BY <2>1, <3>2
    <3> QED
      BY <3>1, <3>2
  <2>4. CryptoType'
    BY <2>1, <2>2, <2>3
  <2>5. ASSUME NEW j \in CryptoCalls PROVE FitInv(j)' /\ CountInv(j)'
    BY <2>2, <2>3
  <2> QED
    BY <2>4, <2>5
<1>2. CASE Crypto!ProcessDies
  <2> DEFINE lost == {k \in CryptoCalls : pStage[k] \in {"queued", "fulfilled"}}
  <2>1. /\ pStage' = [k \in CryptoCalls |-> IF k \in lost THEN "done" ELSE pStage[k]]
        /\ status' = [k \in CryptoCalls |-> IF k \in lost /\ status[k] = "none"
                                            THEN Crypto!Failed(ask[k], "NoReply") ELSE status[k]]
        /\ taken' = taken \ lost
        /\ UNCHANGED <<ask, answer, replies, performed, keyCache, cardKey>>
    BY <1>2 DEF Crypto!ProcessDies
  <2>2. \A k \in CryptoCalls : Crypto!Failed(ask[k], "NoReply") # "Ok"
    BY FailedIsNotOk
  <2>3. CryptoType'
    BY <2>1
  <2>4. ASSUME NEW j \in CryptoCalls PROVE FitInv(j)' /\ CountInv(j)'
    BY <2>1, <2>2
  <2> QED
    BY <2>3, <2>4
<1>3. CASE Crypto!Pull
  BY <1>3 DEF Crypto!Pull, Crypto!callVars
<1>4. CASE Crypto!ForgetKeys
  BY <1>4 DEF Crypto!ForgetKeys, Crypto!callVars
<1> QED
  BY <1>1, <1>2, <1>3, <1>4

\* No step of the object breaks the invariant of Pkcs11_1.
LEMMA CryptoInvStep == CryptoInv /\ [Next]_vars => CryptoInv'
<1> SUFFICES ASSUME CryptoInv, [Next]_vars PROVE CryptoInv'
  OBVIOUS
<1>1. CASE CryptoStep
  BY <1>1, InvokeKeeps, ClientKeeps, ForwardKeeps, WorkerKeeps, AgentKeeps DEF CryptoStep
<1>2. CASE Crash \/ Start
  BY <1>2, AgentKeeps DEF Crash, Start
<1>3. CASE UNCHANGED cryptoVars
  BY <1>3 DEF cryptoVars, CryptoInv, CryptoType, FitInv, CountInv
<1> QED
  BY <1>1, <1>2, <1>3 DEF Next, ConfigStep, StopAuthorizer, vars

\* The object starts with no Pkcs11_1 call taken.
LEMMA CryptoInvInit == Init => CryptoInv
  BY DEF Init, Crypto!Init, CryptoInv, CryptoType, FitInv, CountInv, InFlight

\* The invariant of Pkcs11_1 holds in every behaviour of the object.
LEMMA CryptoInvariance == Spec => []CryptoInv
<1> QED
  BY CryptoInvInit, CryptoInvStep, PTL DEF Spec

\* The card runs the caller's mechanism or none, and a key goes to who asked for its
\* family (DBusAgentClient's wrappers and cache, ManagerObject's forwarders), for
\* any calls in flight together, pulled cards, stops and crashes.
THEOREM AnswersFit == Spec => []AnswerFitsTheAsk
<1>1. CryptoInv => AnswerFitsTheAsk
  BY DEF CryptoInv, FitInv, AnswerFitsTheAsk, Crypto!AnswerFitsTheAsk
<1> QED
  BY <1>1, CryptoInvariance, PTL

\* Every Pkcs11_1 call the agent took is answered once, by its worker or by the
\* teardown, and an orderly stop leaves no Config1 call untold.
THEOREM CallsAreAnsweredOnce == Spec => []EveryCallIsAnsweredOnce
<1>1. CryptoInv /\ ConfigInv => EveryCallIsAnsweredOnce
  <2> SUFFICES ASSUME CryptoInv, ConfigInv PROVE EveryCallIsAnsweredOnce
    OBVIOUS
  <2>1. Crypto!DeferredReplyIsSentOnce
    BY DEF CryptoInv, CryptoType, CountInv, Crypto!DeferredReplyIsSentOnce
  <2>2. manager = "gone" /\ crashes = 0 =>
          \A k \in ConfigCalls : cStage[k] # "idle" => cStage[k] = "done" /\ cReply[k] # "none"
    BY DEF ConfigInv, CallInv
  <2> QED
    BY <2>1, <2>2 DEF EveryCallIsAnsweredOnce
<1> QED
  BY <1>1, CryptoInvariance, ConfigInvariance, PTL

=============================================================================
