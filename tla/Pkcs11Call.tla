----------------------------- MODULE Pkcs11Call -----------------------------
(***************************************************************************)
(* A Pkcs11_1 call from the PKCS#11 module to the card and back: the       *)
(* client's wrapper (pkcs11-module/src/DBusAgentClient.cpp), the forwarder *)
(* of the manager object with its deferred reply                           *)
(* (agent/src/dbus/ManagerObject.cpp), and the broker's worker, which is   *)
(* the agent library's (external).                                         *)
(*                                                                         *)
(* Calls of several application threads are in flight at once.  The worker *)
(* answers after the forwarder has returned; the client may have given up  *)
(* by then; the card may be pulled meanwhile, which the client's own       *)
(* event-loop thread learns later; and the agent may be stopping.          *)
(***************************************************************************)
EXTENDS Naturals, FiniteSets

CONSTANTS
    Calls,      \* calls of the module's entry points, each made once
    Asks,       \* what a call may ask for: [method, key, mech]
    NoAsk,
    Failures    \* error names the broker's outcomes are bound to (toSyncError)

VARIABLES
    stage,      \* of each call: idle, sent, queued, fulfilled, answered, done
    ask,        \* what it asks
    answer,     \* the reply the bus carries for it: none, ok, or an error name
    replies,    \* how many replies were sent
    performed,  \* what the card did for it: none, or the mechanism
    status,     \* what the wrapper returned
    taken,      \* calls a forwarder has dispatched
    connected,  \* whether the client reached the session bus when it was created
    keyCache,   \* pubKeyCache of the one certificate: none, or the key's family
    cardKey,    \* the family of the certificate's key
    card,       \* present, removed (InterfacesRemoved sent), forgotten (handled)
    manager,    \* the manager object: serving, closed, gone
    workers     \* the broker's workers: running, torn (queue dropped)

callVars == <<stage, ask, answer, replies, performed, status, taken, connected>>
cardVars == <<keyCache, cardKey, card>>
vars == <<callVars, cardVars, manager, workers>>

Families == {"rsa", "ec"}

Init ==
    /\ stage = [k \in Calls |-> "idle"]
    /\ ask = [k \in Calls |-> NoAsk]
    /\ answer = [k \in Calls |-> "none"]
    /\ replies = [k \in Calls |-> 0]
    /\ performed = [k \in Calls |-> "none"]
    /\ status = [k \in Calls |-> "none"]
    /\ taken = {} /\ connected \in BOOLEAN
    /\ keyCache = "none" /\ cardKey \in Families /\ card = "present"
    /\ manager = "serving" /\ workers = "running"

-----------------------------------------------------------------------------
(***************************************************************************)
(* MECHANISMS and their wire tokens (the agent library's table): a raw RSA *)
(* signature and a raw RSA decryption are spelled alike.                   *)
(***************************************************************************)
Token(mech) ==
    CASE mech \in {"RsaPkcs1Sign", "RsaPkcs1Decrypt"} -> "rsa-pkcs"
      [] mech = "Ecdsa" -> "ecdsa"
      [] OTHER -> "none"

SignMechanism(token) ==
    CASE token = "rsa-pkcs" -> "RsaPkcs1Sign"
      [] token = "ecdsa" -> "Ecdsa"
      [] OTHER -> "none"

DecryptMechanism(token) == IF token = "rsa-pkcs" THEN "RsaPkcs1Decrypt" ELSE "none"

-----------------------------------------------------------------------------
(***************************************************************************)
(* The WRAPPERS, on an application thread.                                 *)
(***************************************************************************)

\* mapErrorName: an agent error name as a Status.
MapErrorName(name) ==
    CASE name = "InvalidRequest" -> "InvalidInput"
      [] name = "Internal" -> "GeneralError"
      [] OTHER -> name

\* statusFromException: a bus error that says the agent is gone.
StatusFromException(name) ==
    IF name = "NoReply" THEN "DeviceRemoved" ELSE MapErrorName(name)

Return(k, st) ==
    /\ stage' = [stage EXCEPT ![k] = "done"]
    /\ status' = [status EXCEPT ![k] = st]

\* What a failed call returns: loginActive() has no answer, and the module keeps
\* what it knew.
Failed(a, name) == IF a.method = "LoginState" THEN "Unknown" ELSE StatusFromException(name)

\* The call goes out, unless there is no connection to send it on.
Send(k, a) ==
    IF connected
    THEN stage' = [stage EXCEPT ![k] = "sent"] /\ UNCHANGED status
    ELSE Return(k, Failed(a, "NoReply"))

\* MUTANT of SignRaw: any mechanism with a token is sent.
SignRawAnyToken(k, a) ==
    /\ a.method = "SignRaw"
    /\ IF Token(a.mech) = "none" THEN Return(k, "NotSupported") ELSE Send(k, a)

\* signRaw: only what the token will be read back as is sent as a signature.
SignRaw(k, a) ==
    /\ a.method = "SignRaw"
    /\ IF Token(a.mech) = "none" \/ SignMechanism(Token(a.mech)) # a.mech
       THEN Return(k, "NotSupported")
       ELSE Send(k, a)

\* publicKey: the cached key, NotSupported for another family, or a call; no wire
\* method serves a third family.
PublicKey(k, a) ==
    /\ a.method = "PublicKey"
    /\ CASE ~connected -> Send(k, a)
         [] connected /\ keyCache # "none" -> Return(k, IF keyCache = a.key THEN "Ok" ELSE "NotSupported")
         [] connected /\ keyCache = "none" /\ a.key \notin Families -> Return(k, "NotSupported")
         [] OTHER -> Send(k, a)

\* certDer.
CertDer(k, a) == a.method = "CertDer" /\ Send(k, a)

\* decrypt: always the one decryption mechanism.
Decrypt(k, a) == a.method = "Decrypt" /\ Send(k, a)

\* derive.
Derive(k, a) == a.method = "Derive" /\ Send(k, a)

\* login.
Login(k, a) == a.method = "Login" /\ Send(k, a)

\* loginActive.
LoginActive(k, a) == a.method = "LoginState" /\ Send(k, a)

\* logout.
Logout(k, a) == a.method = "Logout" /\ Send(k, a)

\* An entry point is called.
Invoke(k, a) ==
    /\ stage[k] = "idle"
    /\ ask' = [ask EXCEPT ![k] = a]
    /\ \/ SignRaw(k, a) \/ PublicKey(k, a) \/ CertDer(k, a) \/ Decrypt(k, a)
       \/ Derive(k, a) \/ Login(k, a) \/ LoginActive(k, a) \/ Logout(k, a)
    /\ UNCHANGED <<answer, replies, performed, taken, connected, cardVars, manager, workers>>

\* The reply arrives: an error is mapped, a key is on its way into the cache.
Receive(k) ==
    /\ stage[k] = "answered"
    /\ CASE answer[k] # "ok" -> Return(k, Failed(ask[k], answer[k]))
         [] answer[k] = "ok" /\ ask[k].method = "PublicKey" ->
              stage' = [stage EXCEPT ![k] = "keep"] /\ UNCHANGED status
         [] OTHER -> Return(k, "Ok")
    /\ UNCHANGED <<ask, answer, replies, performed, taken, connected, cardVars, manager, workers>>

\* A fetched key enters the cache, under pubKeyMtx; errors never do.
KeepKey(k) ==
    /\ stage[k] = "keep"
    /\ keyCache' = ask[k].key
    /\ Return(k, "Ok")
    /\ UNCHANGED <<ask, answer, replies, performed, taken, connected, cardKey, card, manager, workers>>

\* The budget passes, or the bus says nobody owns the name: NoReply.  What the
\* agent does with the call goes on, its reply is dropped by the bus.
GiveUp(k) ==
    /\ stage[k] \in {"sent", "queued", "fulfilled"}
    /\ status[k] = "none"
    /\ status' = [status EXCEPT ![k] = Failed(ask[k], "NoReply")]
    /\ stage' = [stage EXCEPT ![k] = IF @ = "sent" /\ manager # "serving" THEN "done" ELSE @]
    /\ UNCHANGED <<ask, answer, replies, performed, taken, connected, cardVars, manager, workers>>

\* The InterfacesRemoved handler, on the client's event-loop thread.
ForgetKeys ==
    /\ card = "removed"
    /\ card' = "forgotten"
    /\ keyCache' = "none"
    /\ UNCHANGED <<callVars, cardKey, manager, workers>>

-----------------------------------------------------------------------------
(***************************************************************************)
(* The FORWARDERS, on the agent's loop thread.                             *)
(***************************************************************************)

\* One reply; a client that gave up no longer hears it.
Reply(k, name) ==
    /\ answer' = [answer EXCEPT ![k] = name]
    /\ replies' = [replies EXCEPT ![k] = @ + 1]

\* A reply from inside the dispatch.
ReplyNow(k, name) ==
    /\ Reply(k, name)
    /\ stage' = [stage EXCEPT ![k] = IF status[k] = "none" THEN "answered" ELSE "done"]

\* The broker takes the call; the deferred reply travels with it.
HandOff(k) == stage' = [stage EXCEPT ![k] = "queued"] /\ UNCHANGED <<answer, replies>>

\* SignRaw: an unknown token is refused before the broker sees it.
ForwardSignRaw(k) ==
    /\ ask[k].method = "SignRaw"
    /\ IF SignMechanism(Token(ask[k].mech)) = "none" THEN ReplyNow(k, "InvalidRequest") ELSE HandOff(k)

\* Decrypt: likewise.
ForwardDecrypt(k) ==
    /\ ask[k].method = "Decrypt"
    /\ IF DecryptMechanism(Token(ask[k].mech)) = "none" THEN ReplyNow(k, "InvalidRequest") ELSE HandOff(k)

\* Derive, with the raw secret as its only derivation.
ForwardDerive(k) == ask[k].method = "Derive" /\ HandOff(k)

\* CertDer.
ForwardCertDer(k) == ask[k].method = "CertDer" /\ HandOff(k)

\* PublicKey and EcPublicKey.
ForwardPublicKey(k) == ask[k].method = "PublicKey" /\ HandOff(k)

\* Login.
ForwardLogin(k) == ask[k].method = "Login" /\ HandOff(k)

\* Logout and LoginState answer inside the dispatch.
ForwardSync(k) == ask[k].method \in {"Logout", "LoginState"} /\ ReplyNow(k, "ok")

Forward(k) ==
    /\ manager = "serving" /\ workers = "running"
    /\ stage[k] = "sent"
    /\ taken' = taken \cup {k}
    /\ \/ ForwardSignRaw(k) \/ ForwardDecrypt(k) \/ ForwardDerive(k) \/ ForwardCertDer(k)
       \/ ForwardPublicKey(k) \/ ForwardLogin(k) \/ ForwardSync(k)
    /\ UNCHANGED <<ask, performed, status, connected, cardVars, manager, workers>>

\* deferConvertedReply: a key of another kind than the method serves is an error.
Converted(k) ==
    IF ask[k].method = "PublicKey" /\ ask[k].key # cardKey THEN "NotSupported" ELSE "ok"

\* What the card is made to do for the call.
Mechanism(k) ==
    CASE ask[k].method = "SignRaw" -> SignMechanism(Token(ask[k].mech))
      [] ask[k].method = "Decrypt" -> DecryptMechanism(Token(ask[k].mech))
      [] OTHER -> ask[k].mech

\* The worker fulfils the reply: done on the card, or one of the broker's failures;
\* a card that was pulled has nothing to answer with.
Fulfil(k) ==
    /\ stage[k] = "queued"
    /\ stage' = [stage EXCEPT ![k] = "fulfilled"]
    /\ \/ /\ card = "present"
          /\ performed' = [performed EXCEPT ![k] = Mechanism(k)]
          /\ Reply(k, Converted(k))
       \/ /\ \E name \in Failures : Reply(k, name)
          /\ UNCHANGED performed
    /\ UNCHANGED <<ask, status, taken, connected, cardVars, manager, workers>>

\* The operation and its reply are destroyed; a fulfilled one says nothing more.
Release(k) ==
    /\ stage[k] = "fulfilled"
    /\ stage' = [stage EXCEPT ![k] = IF status[k] = "none" THEN "answered" ELSE "done"]
    /\ UNCHANGED <<ask, answer, replies, performed, status, taken, connected, cardVars, manager, workers>>

\* MUTANT of TearDown: deferred replies are dropped without a fallback.
TearDownSilently ==
    /\ manager = "closed" /\ workers = "running"
    /\ workers' = "torn"
    /\ \E running \in SUBSET {k \in Calls : stage[k] = "queued"} :
         stage' = [k \in Calls |-> IF stage[k] = "queued" /\ k \notin running THEN "done" ELSE stage[k]]
    /\ UNCHANGED <<ask, answer, replies, performed, status, taken, connected, cardVars, manager>>

\* The agent stops: what the workers never ran is answered with the fallback,
\* CardError; what a worker is running ends on its own, as a zombie if need be.
TearDown ==
    /\ manager = "closed" /\ workers = "running"
    /\ workers' = "torn"
    /\ \E running \in SUBSET {k \in Calls : stage[k] = "queued"} :
         LET dropped == {k \in Calls : stage[k] = "queued"} \ running
         IN /\ answer' = [k \in Calls |-> IF k \in dropped THEN "Communication" ELSE answer[k]]
            /\ replies' = [k \in Calls |-> IF k \in dropped THEN replies[k] + 1 ELSE replies[k]]
            /\ stage' = [k \in Calls |-> IF k \notin dropped THEN stage[k]
                                         ELSE IF status[k] = "none" THEN "answered" ELSE "done"]
    /\ UNCHANGED <<ask, performed, status, taken, connected, cardVars, manager>>

\* The agent's process is gone, with the calls it had not answered.
ProcessDies ==
    LET lost == {k \in Calls : stage[k] \in {"queued", "fulfilled"}}
    IN /\ stage' = [k \in Calls |-> IF k \in lost THEN "done" ELSE stage[k]]
       /\ status' = [k \in Calls |-> IF k \in lost /\ status[k] = "none"
                                     THEN Failed(ask[k], "NoReply") ELSE status[k]]
       /\ taken' = taken \ lost
       /\ workers' = "running"
       /\ UNCHANGED <<ask, answer, replies, performed, connected, cardVars>>

\* The card is pulled, and the agent announces it.
Pull ==
    /\ card = "present"
    /\ card' = "removed"
    /\ UNCHANGED <<callVars, keyCache, cardKey, manager, workers>>

-----------------------------------------------------------------------------
CallStep(k) ==
    \/ \E a \in Asks : Invoke(k, a)
    \/ Receive(k) \/ KeepKey(k) \/ GiveUp(k)
    \/ Forward(k) \/ Fulfil(k) \/ Release(k)

Next == (\E k \in Calls : CallStep(k)) \/ ForgetKeys \/ TearDown \/ Pull

-----------------------------------------------------------------------------
(***************************************************************************)
(* PROPERTIES.                                                             *)
(***************************************************************************)

\* The application gets what it asked for or an error: the card never runs
\* another mechanism than the caller's (a decryption signed because both are
\* spelled "rsa-pkcs"), and a key is returned only to a caller that asked for
\* its family, whether the agent or the cache answers.
AnswerFitsTheAsk ==
    \A k \in Calls :
        /\ performed[k] # "none" => performed[k] = ask[k].mech
        /\ status[k] = "Ok" /\ ask[k].method = "PublicKey" => ask[k].key = cardKey
        /\ status[k] = "Ok" /\ ask[k].method \in {"SignRaw", "Decrypt", "Derive"} =>
             performed[k] = ask[k].mech

\* Every call the agent took is answered exactly once, whichever of worker,
\* destructor and teardown gets to it, and whether or not its client still
\* listens: only what a worker is still about to run is unanswered.
DeferredReplyIsSentOnce ==
    \A k \in taken : replies[k] = IF stage[k] = "queued" THEN 0 ELSE 1

=============================================================================
