------------------------------ MODULE MCViews ------------------------------
(* Two pages, one of the company, one question, two projects and one token. *)
EXTENDS Views

CONSTANTS f1, f2, q1, r1, r2, t1

PageSet == {f1, f2}
CompanySet == {f1}
QuestionSet == {q1}
ProjectSet == {r1, r2}
SecretSet == {t1}
PolicySet == {"mask", "none"}
ModelSet == {"small", "large"}
=============================================================================
