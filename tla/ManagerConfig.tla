---------------------------- MODULE ManagerConfig ----------------------------
(***************************************************************************)
(* Config1 of the manager object, agent/src/dbus/ManagerObject.cpp:        *)
(* SetValue, Reset and ImportCscaMasterList, each behind an authorization  *)
(* that is answered later, and the remembered report of the country        *)
(* signing anchors.                                                        *)
(*                                                                         *)
(* A granted body runs on the loop thread, one at a time, in the order the *)
(* authority answers.  Two things on disk outlive the process: the         *)
(* configuration (with the report) and the anchor cache.  The process may  *)
(* die between the two writes of an import, and a person may delete the    *)
(* cache, or one of its halves, at any time.                               *)
(***************************************************************************)
EXTENDS Naturals, FiniteSets

CONSTANTS
    Calls,      \* method calls, each made once
    Requests,   \* what a call may ask for
    NoRequest,
    Rights,     \* client -> the polkit actions the authority grants it
    MaxCrashes, \* bound on crashes of the agent
    MaxWipes    \* bound on deletions in the anchor cache

VARIABLES
    stage,      \* of each call: idle, asked, granted, body, read, installed, done
    request,    \* what the call asks, captured by value at dispatch
    reply,      \* what its client was told
    inspected,  \* calls whose descriptor was touched
    config,     \* settable keys the store holds a value for, and that value
    report,     \* the recorded CscaAnchorState
    cache,      \* the anchor cache: publishers with anchors, and the pins
    imported,   \* the AnchorState of the last import: its lists, and whether every
                \* publisher of them had been followed before
    manager,    \* the object: serving, closed (its gate), gone
    torn,       \* a crash separated an install from its record
    wiped,      \* the cache was touched since the last start
    crashes, wipes

callVars  == <<stage, request, reply, inspected>>
diskVars  == <<config, report, cache, imported>>
faultVars == <<torn, wiped, crashes, wipes>>
vars == <<callVars, diskVars, manager, faultVars>>

\* A key of each mutability, and one the store does not know.
Keys == {"preference", "trust", "fileOnly", "readOnly", "unknown"}
Settable == {"preference", "trust"}
Default == "default"

\* A publisher's list carries a signing time, or 0 for none.
Lists == UNION {q.offer : q \in Requests}
\* Nothing was imported: no state is recorded, and no import records zero anchors.
NoReport == [anchors |-> 0, signer |-> "none", signerPinned |-> FALSE, replayRefusalActive |-> FALSE]

Init ==
    /\ stage = [k \in Calls |-> "idle"]
    /\ request = [k \in Calls |-> NoRequest]
    /\ reply = [k \in Calls |-> "none"]
    /\ inspected = {}
    /\ config = [key \in Settable |-> Default]
    /\ report = NoReport
    /\ cache = [anchors |-> {}, pins |-> {}]
    /\ imported = [lists |-> {}, established |-> FALSE]
    /\ manager = "serving"
    /\ torn = FALSE /\ wiped = FALSE
    /\ crashes = 0 /\ wipes = 0

-----------------------------------------------------------------------------
\* No granted body is half-way on the loop thread.
LoopFree == \A k \in Calls : stage[k] \notin {"body", "read", "installed"}

Answer(k, word) ==
    /\ stage' = [stage EXCEPT ![k] = "done"]
    /\ reply' = [reply EXCEPT ![k] = word]

\* MUTANT of ActionFor: every key needs the plain action.
ActionForAny(q) == "configure"

\* The polkit action a request needs: actionFor, and an import is a trust change.
ActionFor(q) ==
    IF q.method = "Import" \/ q.key = "trust" THEN "configure.trust" ELSE "configure"

\* SetValue's and Reset's checks of the key, before anything is asked.
Mutability(q) ==
    LET named == q.method # "Import"
    IN CASE named /\ q.key = "unknown"                   -> "UnknownKey"
         [] named /\ q.key \in {"fileOnly", "readOnly"}   -> "ReadOnly"
         [] OTHER                                        -> "ok"

\* SetValue, Reset, ImportCscaMasterList: refused at once, or the authority is asked.
Dispatch(k, q) ==
    /\ manager = "serving" /\ LoopFree
    /\ stage[k] = "idle"
    /\ request' = [request EXCEPT ![k] = q]
    /\ IF Mutability(q) = "ok"
       THEN stage' = [stage EXCEPT ![k] = "asked"] /\ UNCHANGED reply
       ELSE Answer(k, Mutability(q))
    /\ UNCHANGED <<inspected, diskVars, manager, faultVars>>

\* The authority decided: a refusal is told, a grant is posted to the loop.
Decided(k) ==
    /\ LoopFree
    /\ stage[k] = "asked"
    /\ IF ActionFor(request[k]) \in Rights[request[k].client]
       THEN stage' = [stage EXCEPT ![k] = "granted"] /\ UNCHANGED reply
       ELSE Answer(k, "NotAuthorized")
    /\ UNCHANGED <<request, inspected, diskVars, manager, faultVars>>

\* It did not decide in time, or could not be asked.
Undecided(k) ==
    /\ LoopFree
    /\ stage[k] = "asked"
    /\ Answer(k, "NoAnswer")
    /\ UNCHANGED <<request, inspected, diskVars, manager, faultVars>>

\* runIfOpen: the body of a granted call, unless the gate is closed.
Enter(k) ==
    /\ LoopFree
    /\ stage[k] = "granted"
    /\ IF manager = "serving"
       THEN stage' = [stage EXCEPT ![k] = "body"] /\ UNCHANGED reply
       ELSE Answer(k, "WentAway")
    /\ UNCHANGED <<request, inspected, diskVars, manager, faultVars>>

\* The store (external) takes the value, or answers !ok and keeps what it has.
StoreAnswers(k, value) ==
    \/ /\ Answer(k, "ok")
       /\ config' = [config EXCEPT ![request[k].key] = value]
    \/ Answer(k, "StoreRefused") /\ UNCHANGED config

\* setValueGranted: a value of another type does not reach the store.
SetValueGranted(k) ==
    /\ stage[k] = "body" /\ request[k].method = "Set"
    /\ IF request[k].value = "invalid"
       THEN Answer(k, "InvalidValue") /\ UNCHANGED config
       ELSE StoreAnswers(k, request[k].value)
    /\ UNCHANGED <<request, inspected, report, cache, imported, manager, faultVars>>

\* resetGranted.
ResetGranted(k) ==
    /\ stage[k] = "body" /\ request[k].method = "Reset"
    /\ StoreAnswers(k, Default)
    /\ UNCHANGED <<request, inspected, report, cache, imported, manager, faultVars>>

\* importCscaMasterListGranted: the flood bound, and only then the descriptor,
\* which may be no regular file, too large or unreadable.
ReadList(k) ==
    /\ stage[k] = "body" /\ request[k].method = "Import"
    /\ \/ Answer(k, "RateLimited") /\ UNCHANGED inspected
       \/ /\ inspected' = inspected \cup {k}
          /\ \/ Answer(k, "Unreadable")
             \/ stage' = [stage EXCEPT ![k] = "read"] /\ UNCHANGED reply
    /\ UNCHANGED <<request, diskVars, manager, faultVars>>

\* Trust::importMasterList (external), as the tests pin it: a first import takes
\* every list in; a later one the lists of publishers it follows, none of them
\* older, or stripped of its date.
Taken(offer) ==
    IF cache.pins = {} THEN offer
    ELSE {l \in offer : \E p \in cache.pins :
             p.signer = l.signer /\ (p.date = 0 \/ l.date > p.date)}

\* throwRefusal: no list of the file is taken in, or a good one cannot be stored.
ImportRefused(k) ==
    /\ stage[k] = "read"
    /\ Answer(k, IF Taken(request[k].offer) = {} THEN "ListRefused" ELSE "CacheNotWritable")
    /\ UNCHANGED <<request, inspected, diskVars, manager, faultVars>>

\* The anchors and the pins are on disk; the report is not yet.
Install(k) ==
    /\ stage[k] = "read" /\ Taken(request[k].offer) # {}
    /\ stage' = [stage EXCEPT ![k] = "installed"]
    /\ imported' = [lists |-> Taken(request[k].offer), established |-> cache.pins # {}]
    /\ cache' = [anchors |-> {l.signer : l \in Taken(request[k].offer)},
                 pins |-> Taken(request[k].offer)]
    /\ wiped' = FALSE
    /\ UNCHANGED <<request, reply, inspected, config, report, manager, torn, crashes, wipes>>

\* toRecordedState: a publisher is named only if it is the only one.
ToRecordedState(state) ==
    [anchors |-> Cardinality(state.lists),
     signer |-> IF Cardinality(state.lists) = 1 THEN (CHOOSE l \in state.lists : TRUE).signer
                ELSE "none",
     signerPinned |-> state.established,
     replayRefusalActive |-> \A l \in state.lists : l.date # 0]

\* recordCscaAnchorState, and the reply made of the same value.
Record(k) ==
    /\ stage[k] = "installed"
    /\ report' = ToRecordedState(imported)
    /\ torn' = FALSE
    /\ Answer(k, "ok")
    /\ UNCHANGED <<request, inspected, config, cache, imported, manager, wiped, crashes, wipes>>

\* ~ManagerObject: the gate closes once no body runs ...
Close ==
    /\ manager = "serving" /\ LoopFree
    /\ manager' = "closed"
    /\ UNCHANGED <<callVars, diskVars, faultVars>>

\* ... and what the authority never answered is answered by ~PendingReply.
Stop ==
    /\ manager = "closed"
    /\ manager' = "gone"
    /\ stage' = [k \in Calls |-> IF stage[k] \in {"asked", "granted"} THEN "done" ELSE stage[k]]
    /\ reply' = [k \in Calls |-> IF stage[k] \in {"asked", "granted"} THEN "Stopped" ELSE reply[k]]
    /\ UNCHANGED <<request, inspected, diskVars, faultVars>>

\* The process dies; calls in flight are never answered.
Crash ==
    /\ manager # "gone" /\ crashes < MaxCrashes
    /\ crashes' = crashes + 1
    /\ manager' = "gone"
    /\ torn' = (torn \/ \E k \in Calls : stage[k] = "installed")
    /\ stage' = [k \in Calls |-> IF stage[k] = "idle" THEN "idle" ELSE "done"]
    /\ UNCHANGED <<request, reply, inspected, diskVars, wiped, wipes>>

\* MUTANT of Start: the report is served as it was recorded.
StartUnreconciled ==
    /\ manager = "gone"
    /\ manager' = "serving"
    /\ wiped' = FALSE
    /\ UNCHANGED <<callVars, diskVars, torn, crashes, wipes>>

\* The constructor: discardStaleAnchorReport before the object is on the bus.
Start ==
    /\ manager = "gone"
    /\ manager' = "serving"
    /\ report' = IF cache.anchors = {} \/ cache.pins = {} THEN NoReport ELSE report
    /\ wiped' = FALSE
    /\ UNCHANGED <<callVars, config, cache, imported, torn, crashes, wipes>>

\* A person deletes the anchors, the cache's state file, or both.
Wipe ==
    /\ wipes < MaxWipes
    /\ wipes' = wipes + 1
    /\ wiped' = TRUE
    /\ cache' \in {[cache EXCEPT !.anchors = {}], [cache EXCEPT !.pins = {}],
                   [anchors |-> {}, pins |-> {}]}
    /\ UNCHANGED <<callVars, config, report, imported, manager, torn, crashes>>

-----------------------------------------------------------------------------
Body(k) ==
    \/ SetValueGranted(k) \/ ResetGranted(k)
    \/ ReadList(k) \/ ImportRefused(k) \/ Install(k) \/ Record(k)

CallStep(k) ==
    \/ \E q \in Requests : Dispatch(k, q)
    \/ Decided(k) \/ Undecided(k) \/ Enter(k) \/ Body(k)

Next ==
    \/ \E k \in Calls : CallStep(k)
    \/ Close \/ Stop \/ Crash \/ Start \/ Wipe

Spec == Init /\ [][Next]_vars

-----------------------------------------------------------------------------
(***************************************************************************)
(* PROPERTIES.                                                             *)
(***************************************************************************)

\* The right that each settable key takes (the polkit actions' own descriptions).
RightFor(key) == IF key = "trust" THEN "configure.trust" ELSE "configure"
HasRight(k, right) == right \in Rights[request[k].client]

\* A setting is changed by a SetValue or Reset of that key, answered ok in the same
\* step; the anchors by an import, or by a deletion on disk; their report by the same
\* import, or by the reconciliation at the start.
LawfulChange ==
    /\ \A key \in Settable : config'[key] # config[key] =>
         \E k \in Calls : /\ stage[k] = "body" /\ request[k].method # "Import"
                          /\ request[k].key = key /\ HasRight(k, RightFor(key))
                          /\ reply'[k] = "ok"
    /\ cache' # cache /\ wipes' = wipes =>
         \E k \in Calls : /\ stage[k] = "read" /\ stage'[k] = "installed"
                          /\ HasRight(k, "configure.trust")
    /\ report' # report /\ manager' = manager =>
         \E k \in Calls : stage[k] = "installed" /\ HasRight(k, "configure.trust")

\* An import that has installed ends with ok or with a crash; a call told anything
\* but ok changes nothing in that step; and the descriptor of a caller that was
\* turned away, by the authority or by the flood bound, was never touched.
TruthfulReply ==
    /\ \A k \in Calls :
         /\ stage[k] = "installed" /\ stage'[k] # stage[k] => reply'[k] = "ok" \/ crashes' # crashes
         /\ reply'[k] \notin {reply[k], "ok"} => UNCHANGED <<config, cache, report>>
    /\ \A k \in inspected' :
         reply'[k] \notin {"NotAuthorized", "NoAnswer", "RateLimited", "WentAway", "Stopped"}

\* What outlives the process changes only by the body of a call whose own client has
\* the right for it, whatever other calls wait for the authority meanwhile, and every
\* client is told what was done with its call (SetValue, Reset, ImportCscaMasterList).
ChangeNeedsRight == [][LawfulChange /\ TruthfulReply]_vars

\* The CscaAnchorState property never says more than the cache bears out: while
\* the agent serves, and nobody touched the cache since it started, a report
\* means anchors and a publisher; it names a publisher only if that is the only
\* one, calls them established only if every one was followed before, and replay
\* refusal active only if every list is dated.  A process that died inside an
\* import leaves the report of the import before it (torn).
ReportIsBorneOut ==
    manager = "serving" /\ ~wiped /\ report # NoReport /\ LoopFree =>
        /\ cache.anchors # {} /\ cache.pins # {}
        /\ ~torn =>
             /\ report.anchors = Cardinality(cache.pins)
             /\ report.signer # "none" => cache.pins = {p \in cache.pins : p.signer = report.signer}
             /\ report.signerPinned => imported.established
             /\ report.replayRefusalActive => \A p \in cache.pins : p.date # 0

=============================================================================
