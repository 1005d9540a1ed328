--------------------------- MODULE MCManagerObject ---------------------------
(***************************************************************************)
(* An instance of ManagerObject for TLC: a client without any right, one   *)
(* with each of the two rights and one with both, a key of every           *)
(* mutability, master lists of one and of two publishers, and each         *)
(* Pkcs11_1 method.                                                        *)
(***************************************************************************)
EXTENDS ManagerObject, TLC

MCRights ==
    [guest |-> {}, user |-> {"configure"}, officer |-> {"configure.trust"},
     admin |-> {"configure", "configure.trust"}]

Set(key, value, c) ==
    [method |-> "Set", key |-> key, value |-> value, offer |-> {}, client |-> c]
Reset(key, c) == [Set(key, "none", c) EXCEPT !.method = "Reset"]
Import(offer, c) ==
    [Set("readOnly", "none", c) EXCEPT !.method = "Import", !.offer = offer]
List(signer, date) == [signer |-> signer, date |-> date]

MCRequests ==
    {Set(key, "new", "user") : key \in {"preference", "trust", "fileOnly", "unknown"}}
    \cup {Set("preference", "new", c) : c \in {"guest", "officer"}}
    \cup {Set("trust", "new", "admin"), Set("preference", "invalid", "user")}
    \cup {Reset("preference", "user"), Reset("trust", "officer")}
    \cup {Import(offer, "admin") : offer \in {{}, {List("A", 1)}, {List("A", 1), List("B", 0)},
                                              {List("A", 2), List("C", 1)}}}
    \cup {Import({List("A", 1)}, "user")}

Ask(method, key, mech) == [method |-> method, key |-> key, mech |-> mech]

MCAsks ==
    {Ask("SignRaw", "rsa", mech) : mech \in {"RsaPkcs1Sign", "RsaPkcs1Decrypt", "Unwired"}}
    \cup {Ask("PublicKey", key, "read") : key \in {"rsa", "ec", "other"}}
    \cup {Ask("Decrypt", "rsa", "RsaPkcs1Decrypt"), Ask("Derive", "ec", "Ecdh")}
    \cup {Ask(method, "rsa", "read") : method \in {"CertDer", "Login", "LoginState", "Logout"}}

\* Calls of one interface are interchangeable.
CallSymmetry == Permutations(ConfigCalls) \cup Permutations(CryptoCalls)

=============================================================================
