------------------------------ MODULE MCRecall ------------------------------
(* TLC instances of Recall: facts that share words, characters and topics.   *)
EXTENDS Recall

CONSTANTS mail, note

A == 1
a == 11
b == 12
ga == 20
na == 21
da == 22

FactA == [title |-> <<ga, na, da>>, body |-> <<A, b>>, topics |-> << <<a, 0, b>>, <<a, b>> >>,
          concern |-> TRUE, at |-> 1, source |-> mail]
FactB == [title |-> <<a, b>>, body |-> <<ga, na, 0, na, da>>, topics |-> << <<a, b>>, <<b>> >>,
          concern |-> FALSE, at |-> 2, source |-> note]
FactC == [title |-> <<da>>, body |-> <<na, da, 0, na, da>>, topics |-> << <<b>> >>,
          concern |-> FALSE, at |-> 1, source |-> note]

MCFacts == {FactA, FactB, FactC}

Ask(text, history, cues) == [text |-> text, history |-> history, cues |-> cues]

MCPrompts ==
    { Ask(<<na, da>>, <<>>, {"concern"}),
      Ask(<<ga>>, <<[owner |-> TRUE, text |-> <<A, b>>], [owner |-> FALSE, text |-> <<da, da>>]>>, {}),
      Ask(<<ga>>, <<>>, {"self", "concern"}),
      Ask(<<ga>>, <<>>, {"self", "interest"}),
      Ask(<<ga>>, <<>>, {"recent", "open"}) }
=============================================================================
