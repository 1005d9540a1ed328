----------------------------- MODULE MCPrompter -----------------------------
(***************************************************************************)
(* Instances of Prompter for TLC: prompts and ids are model values, and    *)
(* the requests are a PIN, a CAN with the MRZ switch and a PIN change, with*)
(* and without an entry deadline, the alternative's the longer or the      *)
(* shorter one.                                                            *)
(***************************************************************************)
EXTENDS Prompter, TLC

Secret(budget) == [kind |-> "secret", budget |-> budget, alt |-> 0]
Offer(budget, alt) == [kind |-> "offer", budget |-> budget, alt |-> alt]
Change == [kind |-> "change", budget |-> 0, alt |-> 0]

RestartAsks == {Secret(1)}

EveryAsk == {Secret(0), Secret(1), Offer(0, 2), Offer(1, 2), Offer(2, 1), Change}

PromptSymmetry == Permutations(Prompts) \union Permutations(Ids)

=============================================================================
