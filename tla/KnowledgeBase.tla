---------------------------- MODULE KnowledgeBase ----------------------------
(***************************************************************************)
(* What the knowledge component promises its callers: a map from fact ids  *)
(* to facts in which every edit is one step, and a log per fact that grows *)
(* in the very step that changes the body of an existing fact, by that     *)
(* change (KR-1, KR-3, KR-4). Once a store call has failed or the process  *)
(* has been restarted, an edit may take effect without its log entry, or   *)
(* leave a document or a log that nobody can read; it still touches no     *)
(* other fact, and never rewrites what is logged.                          *)
(***************************************************************************)
EXTENDS Sequences

CONSTANTS FactIds, Fact, Shares, Absent, Torn

VARIABLES base, changes, harmed

vars == <<base, changes, harmed>>

Init ==
    /\ base = [id \in FactIds |-> Absent]
    /\ changes = [id \in FactIds |-> <<>>]
    /\ harmed = FALSE

Replaces(id, f) == base[id] # Absent /\ base[id].body # f.body

Upsert(id, f) ==
    /\ f.confirmed /\ base[id] # Torn
    /\ base' = [base EXCEPT ![id] = f]
    /\ \/ /\ Replaces(id, f) /\ changes[id] # Torn
          /\ changes' = [changes EXCEPT ![id] =
                 Append(@, [before |-> base[id].body, after |-> f.body])]
       \/ ~Replaces(id, f) /\ UNCHANGED changes

SetSharing(id, s) ==
    /\ base[id] \notin {Absent, Torn}
    /\ base' = [base EXCEPT ![id].share = s]
    /\ UNCHANGED changes

DeleteFact(id) ==
    /\ base[id] # Torn
    /\ base' = [base EXCEPT ![id] = Absent]
    /\ UNCHANGED changes

\* An edit of one fact that did not reach its end.
HalfEdit(id) ==
    /\ harmed'
    /\ \/ UNCHANGED base
       \/ \E f \in Fact \cup {Torn} : base' = [base EXCEPT ![id] = f]
    /\ changes' \in {changes, [changes EXCEPT ![id] = Torn]}

Edit ==
    \E id \in FactIds :
        \/ \E f \in Fact : Upsert(id, f)
        \/ \E s \in Shares : SetSharing(id, s)
        \/ DeleteFact(id)

Next ==
    \/ Edit /\ UNCHANGED harmed
    \/ \E id \in FactIds : HalfEdit(id)

Spec == Init /\ [][Next]_vars
=============================================================================
