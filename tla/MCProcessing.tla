---------------------------- MODULE MCProcessing ----------------------------
(* TLC instances of Processing: two people, a subject, and texts about them. *)
EXTENDS Processing, TLC

CONSTANTS p1, p2, ann, bob, w, note, memo, scan, ask

MCTextOf == (note :> <<ann>> @@ memo :> <<w>> @@ scan :> <<bob>> @@ ask :> <<bob>>)
MCLabelSets == {{"certain"}, {"noise"}, {"needs-context"}}
=============================================================================
