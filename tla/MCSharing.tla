------------------------------ MODULE MCSharing ------------------------------
(* TLC instances of Sharing: two pages that link to each other. *)
EXTENDS Sharing, TLC

MCPages == 1..2
MCLinks == [id \in Pages |-> Pages \ {id}]
Public == [shared |-> TRUE, category |-> CHOOSE c \in Categories : TRUE]
Private == [Public EXCEPT !.shared = FALSE]
Token == [label |-> CHOOSE l \in Labels : TRUE, granted |-> Categories, revoked |-> FALSE]

MCGrantings == {Categories}
MCEdits == {Private, [Public EXCEPT !.category = Uncategorized]}

\* Both pages public or one of them private; one token, or two under one label.
MCEarlier ==
    [facts : {[id \in Pages |-> Public], [id \in Pages |-> IF id = 1 THEN Private ELSE Public]},
     tokens : {[s \in Secrets |-> IF s \in S THEN Token ELSE Absent] :
                   S \in {{CHOOSE s \in Secrets : TRUE}, Secrets}}]
=============================================================================
