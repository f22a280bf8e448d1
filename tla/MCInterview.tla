----------------------------- MODULE MCInterview -----------------------------
(* TLC instances of Interview. a is a deepen question from processing, b and  *)
(* c are follow-ups; b resembles both a and c, which do not resemble each     *)
(* other. d and e are two candidates to confirm that resemble each other.     *)
EXTENDS Interview

CONSTANTS a, b, c, d, e

Question(kind, text, priority) ==
    [kind |-> kind, text |-> text, source |-> "Notion", priority |-> priority]

AllContent ==
    (a :> Question("deepen", "t1", 3)) @@ (b :> Question("deepen", "t2", 0)) @@
    (c :> Question("deepen", "t3", 0)) @@ (d :> Question("confirm", "t2", 5)) @@
    (e :> Question("confirm", "t3", 5))

MCContent == [i \in Items |-> AllContent[i]]

MCNear == {<<t, t>> : t \in {"t1", "t2", "t3"}} \cup
          {<<"t1", "t2">>, <<"t2", "t1">>, <<"t2", "t3">>, <<"t3", "t2">>}

MCOrder == SelectSeq(<<a, c, b, e, d>>, LAMBDA i : i \in Items)
MCLegacy == {a, b}
Symmetry == Permutations(Callers)
=============================================================================
