---------------------------- MODULE ManagerObject ----------------------------
(***************************************************************************)
(* The agent's manager object as its two kinds of clients meet it:         *)
(* Config1 (ManagerConfig) and Pkcs11_1 (Pkcs11Call) are served by one     *)
(* object, close with it, and go down with its process.                    *)
(***************************************************************************)
EXTENDS Naturals, FiniteSets

CONSTANTS
    ConfigCalls, Requests, NoRequest, Rights, MaxCrashes, MaxWipes,
    CryptoCalls, Asks, NoAsk, Failures,
    MaxCalls,   \* bound on calls made over both interfaces
    MaxFaults   \* bound on crashes, deletions in the cache and pulled cards together

VARIABLES
    \* ManagerConfig
    cStage, request, cReply, inspected, config, report, cache, imported,
    torn, wiped, crashes, wipes,
    \* Pkcs11Call
    pStage, ask, answer, replies, performed, status, taken, connected,
    keyCache, cardKey, card, workers,
    \* both
    manager

configVars == <<cStage, request, cReply, inspected, config, report, cache, imported,
                torn, wiped, crashes, wipes>>
cryptoVars == <<pStage, ask, answer, replies, performed, status, taken, connected,
                keyCache, cardKey, card, workers>>
vars == <<configVars, cryptoVars, manager>>

Config == INSTANCE ManagerConfig WITH Calls <- ConfigCalls, stage <- cStage, reply <- cReply
Crypto == INSTANCE Pkcs11Call WITH Calls <- CryptoCalls, stage <- pStage

\* A call names a key of the table, known or not, and offers finitely many lists.
ASSUME RequestAssumption ==
    \A q \in Requests : (q.method # "Import" => q.key \in Config!Keys) /\ IsFiniteSet(q.offer)

\* decrypt() knows one mechanism, and no error is named like a success.
ASSUME AskAssumption ==
    /\ \A a \in Asks : a.method = "Decrypt" => a.mech = "RsaPkcs1Decrypt"
    /\ {"ok", "Ok"} \cap Failures = {}

Init == Config!Init /\ Crypto!Init

CallsMade ==
    Cardinality({k \in ConfigCalls : cStage[k] # "idle"})
    + Cardinality({k \in CryptoCalls : pStage[k] # "idle"})

Faults == crashes + wipes + IF card = "present" THEN 0 ELSE 1

ConfigStep ==
    /\ \/ \E k \in ConfigCalls :
            \/ CallsMade < MaxCalls /\ \E q \in Requests : Config!Dispatch(k, q)
            \/ Config!Decided(k) \/ Config!Undecided(k) \/ Config!Enter(k) \/ Config!Body(k)
       \/ Config!Close
       \/ Faults < MaxFaults /\ Config!Wipe
    /\ UNCHANGED cryptoVars

CryptoStep ==
    /\ \/ \E k \in CryptoCalls :
            \/ CallsMade < MaxCalls /\ \E a \in Asks : Crypto!Invoke(k, a)
            \/ Crypto!Receive(k) \/ Crypto!KeepKey(k) \/ Crypto!GiveUp(k)
            \/ Crypto!Forward(k) \/ Crypto!Fulfil(k) \/ Crypto!Release(k)
       \/ Crypto!ForgetKeys
       \/ Crypto!TearDown
       \/ Faults < MaxFaults /\ Crypto!Pull
    /\ UNCHANGED configVars

\* The frontend, with the manager object, is destroyed first, then the core with
\* the workers, then the authorizer (the member order of AgentService.h).
StopAuthorizer ==
    /\ workers = "torn"
    /\ Config!Stop
    /\ UNCHANGED cryptoVars

\* A crash, or the exit of a stopped process, and the next start.
Crash == Faults < MaxFaults /\ Config!Crash /\ Crypto!ProcessDies
Start == Config!Start /\ Crypto!ProcessDies

Next == ConfigStep \/ CryptoStep \/ StopAuthorizer \/ Crash \/ Start

Spec == Init /\ [][Next]_vars

-----------------------------------------------------------------------------
(***************************************************************************)
(* PROPERTIES: the components' own, over the composed object, and one of   *)
(* the composition.                                                        *)
(***************************************************************************)

\* ManagerConfig's: settings, anchors and report change only by a call whose client
\* has the right for them, and a descriptor is touched only for one that was let in.
ChangeNeedsRight == Config!ChangeNeedsRight

\* ManagerConfig's: CscaAnchorState never says more than the cache bears out,
\* across imports, deletions, crashes and restarts.
ReportIsBorneOut == Config!ReportIsBorneOut

\* Pkcs11Call's: the mechanism run and the key returned are the ones asked for.
AnswerFitsTheAsk == Crypto!AnswerFitsTheAsk

\* Every call is answered exactly once, over both interfaces: a Pkcs11_1 call the
\* agent took by its worker, its destructor or the teardown (Pkcs11Call), and once
\* an orderly stop has reached the authorizer every Config1 call was told
\* something; a crash alone loses replies.
EveryCallIsAnsweredOnce ==
    /\ Crypto!DeferredReplyIsSentOnce
    /\ manager = "gone" /\ crashes = 0 =>
         \A k \in ConfigCalls : cStage[k] # "idle" => cStage[k] = "done" /\ cReply[k] # "none"

=============================================================================
