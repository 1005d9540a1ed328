----------------------------- MODULE PromptLife -----------------------------
(***************************************************************************)
(* What the prompter promises whoever asks for a secret, prompt by prompt: *)
(* the abstract specification Prompter implements.  `life' is where the    *)
(* prompt stands with the holder, `outcome' what its caller has been told. *)
(***************************************************************************)

CONSTANT Prompts

VARIABLES life, outcome

\* What only a window that stood and closed can have led to.
FromTheWindow == {"Ok", "Cancelled", "Timeout"}

Init ==
    /\ life = [p \in Prompts |-> "unasked"]
    /\ outcome = [p \in Prompts |-> "none"]

\* The prompt is asked for, or fails because the helper cannot be reached.
Ask(p) ==
    /\ life[p] = "unasked"
    /\ life' = [life EXCEPT ![p] = "asked"]
    /\ outcome' \in {outcome, [outcome EXCEPT ![p] = "Error"]}

\* A helper that is too old is not asked, and the caller learns why.
TurnDown(p) ==
    /\ life[p] = "unasked"
    /\ life' = [life EXCEPT ![p] = "refused"]
    /\ outcome' = [outcome EXCEPT ![p] = "HelperTooOld"]

\* Its one window appears.
Raise(p) ==
    /\ life[p] = "asked"
    /\ life' = [life EXCEPT ![p] = "shown"]
    /\ UNCHANGED outcome

\* It is answered without one.
Refuse(p) ==
    /\ life[p] = "asked"
    /\ life' = [life EXCEPT ![p] = "refused"]
    /\ UNCHANGED outcome

\* Windows close for good: one of them, or all when the helper exits.
Close(closing) ==
    /\ \A p \in closing : life[p] = "shown"
    /\ life' = [p \in Prompts |-> IF p \in closing THEN "closed" ELSE life[p]]
    /\ UNCHANGED outcome

\* The caller is told once how its prompt went: that it failed at any time, that the
\* holder entered a secret, declined or was too slow only after the window is gone.
Tell(p) ==
    /\ life[p] # "unasked" /\ outcome[p] = "none"
    /\ \E status \in {"Error"} \union FromTheWindow :
         /\ status \in FromTheWindow => life[p] = "closed"
         /\ outcome' = [outcome EXCEPT ![p] = status]
    /\ UNCHANGED life

Next ==
    \/ \E p \in Prompts : Ask(p) \/ TurnDown(p) \/ Raise(p) \/ Refuse(p) \/ Tell(p)
    \/ \E closing \in SUBSET Prompts : Close(closing)

Spec == Init /\ [][Next]_<<life, outcome>>

=============================================================================
