---------------------------- MODULE CardDirectory ----------------------------
(***************************************************************************)
(* What the agent promises the clients of its object tree about each card: *)
(* the abstract specification CardPublication implements.  `life' is where *)
(* the agent stands with the card, `listed' what the ObjectManager signals *)
(* have told clients: none, exported (InterfacesAdded was sent) or         *)
(* destroyed (InterfacesRemoved was sent, for good).                       *)
(***************************************************************************)

CONSTANT Cards

VARIABLES life, listed

Init ==
    /\ life = [c \in Cards |-> "unknown"]
    /\ listed = [c \in Cards |-> "none"]

\* The card is seated and its probe is on the way.
Insert(c) ==
    /\ life[c] = "unknown"
    /\ life' = [life EXCEPT ![c] = "resolving"]
    /\ UNCHANGED listed

\* Its one Card1 object appears, while it is resolving or (lost race) just
\* after it was withdrawn.
Announce(c) ==
    /\ life[c] \in {"resolving", "withdrawn"}
    /\ listed[c] = "none"
    /\ listed' = [listed EXCEPT ![c] = "exported"]
    /\ UNCHANGED life

\* A card is published only once clients can reach its object.
Publish(c) ==
    /\ life[c] = "resolving"
    /\ listed[c] = "exported"
    /\ life' = [life EXCEPT ![c] = "published"]
    /\ UNCHANGED listed

Withdraw(c) ==
    /\ life[c] \in {"resolving", "published"}
    /\ life' = [life EXCEPT ![c] = "withdrawn"]
    /\ UNCHANGED listed

\* Only a withdrawn card's object disappears.
Unlist(c) ==
    /\ life[c] = "withdrawn"
    /\ listed[c] = "exported"
    /\ listed' = [listed EXCEPT ![c] = "destroyed"]
    /\ UNCHANGED life

Next ==
    \E c \in Cards : Insert(c) \/ Announce(c) \/ Publish(c) \/ Withdraw(c) \/ Unlist(c)

Spec == Init /\ [][Next]_<<life, listed>>

=============================================================================
