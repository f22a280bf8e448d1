---------------------------- MODULE SharingProofs ----------------------------
(***************************************************************************)
(* Proofs about module Sharing: what an MCP answer carries, what a token   *)
(* opens and from when on it opens nothing, and that the list the owner    *)
(* revokes from is honest, for any number of concurrent requests and       *)
(* commands, any pages, links and edits.                                   *)
(*                                                                         *)
(* The requests' half of the invariant ties the identity the server found  *)
(* to the way the request came in, and what is still to be read to what    *)
(* was readable all along. The commands' half follows a revocation from    *)
(* the secrets it must reach to the records it has left unusable.          *)
(***************************************************************************)
EXTENDS Sharing, FiniteSetTheorems, WellFoundedInduction, TLAPS

-----------------------------------------------------------------------------
(* The invariant: requests.                                                *)

Request ==
    [step : Steps, shared : BOOLEAN, auth : Secrets \cup {"none", "malformed"},
     loopback : BOOLEAN, call : Tools \cup {"none", "notification", "other"},
     arg : Pages \cup Categories \cup {Absent, Bad}, owner : BOOLEAN,
     granted : SUBSET Categories, todo : SUBSET Pages, out : SUBSET (Pages \X Fact),
     truncated : BOOLEAN, code : Codes, seen : SUBSET (Pages \X Fact),
     steady : SUBSET Pages, genuine : BOOLEAN, late : BOOLEAN]

\* The identity found is the one the request came in with.
Knows(q, owners) ==
    \/ q.owner /\ q.auth = "none" /\ ~q.shared /\ q.loopback
    \/ ~q.owner /\ q.auth \in Secrets /\ owners[q.auth] \in Grant
       /\ q.granted = owners[q.auth].granted

\* What is readable now has been recorded as readable,
Sees(q, store) ==
    \A id \in Pages :
        store[id] \in Fact /\ CanAccess(q, store[id]) => <<id, store[id]>> \in q.seen

\* and what was readable all along is so now, with what the tool asks of it.
Wanted(q, fact) ==
    /\ q.call = "list_categories" => fact.category # Uncategorized
    /\ q.call = "get_guide" => fact.category = q.arg

Stays(q, store, idx) ==
    \A id \in q.steady :
        /\ store[id] \in Fact /\ CanAccess(q, store[id]) /\ Wanted(q, store[id])
        /\ q.call = "search_knowledge" => id \in idx
        /\ q.call = "get_page" => id = q.arg

\* What was readable all along is still to be read, or in the answer.
Found(q, id) == \E p \in q.out : p[1] = id /\ Wanted(q, p[2])

Held(q) == \A id \in q.steady : id \in q.todo \/ Found(q, id)

Scanning(q) == q.call \in {"list_categories", "get_guide"}

Progress(q) ==
    /\ q.step = "search" => q.call = "search_knowledge" /\ q.out = {}
    /\ q.step = "hits" =>
           q.call = "search_knowledge" /\ Cardinality(q.out) <= Limit /\ Held(q)
    /\ q.step = "list" => Scanning(q) /\ q.out = {}
    /\ q.step = "load" => Scanning(q) /\ Held(q)
    /\ q.step = "page" => q.call = "get_page" /\ q.arg \in Pages /\ q.out = {}
    /\ q.step = "links" => q.call = "get_page" /\ \A id \in q.steady : Found(q, id)
    /\ q.step \in {"hits", "load", "links"} => q.todo # {}

Open(q, store, idx, owners) ==
    /\ Knows(q, owners) /\ ~q.late /\ ~q.truncated
    /\ q.out \subseteq q.seen /\ IsFiniteSet(q.out)
    /\ Sees(q, store) /\ Stays(q, store, idx)

\* A request that has read nothing yet.
Asking(q) ==
    /\ q.call \in Tools \cup {"notification", "other"} /\ q.arg \in Arguments(q.call)
    /\ ~q.truncated /\ q.out = {} /\ q.seen = {}

RequestFits(q, store, idx, owners, known, gone) ==
    /\ q \in Request /\ q.step # "done"
    /\ q.genuine => q.auth \in known
    /\ q.late => q.auth \in gone
    /\ q.step = "resolve" => q.auth \in Secrets /\ Asking(q)
    /\ Running(q) => Open(q, store, idx, owners) /\ Progress(q)

\* The answer is the scope of its caller, and the token decides.
AnswerFits(q, revoked) ==
    /\ q \in Request
    /\ q.out \subseteq q.seen
    /\ q.code = "ok" /\ q.call \in Tools =>
           \/ /\ q.steady \subseteq {p[1] : p \in q.out}
              /\ q.call = "search_knowledge" => Cardinality(q.out) <= Limit
           \/ q.truncated /\ Cardinality(q.out) = Limit
    /\ q.code = "not_found" => q.steady = {}
    /\ q.late => q.code \in {"unauthorized", "unavailable", "locked"} /\ q.seen = {}
    /\ q.genuine /\ q.auth \notin revoked => q.code # "unauthorized"

-----------------------------------------------------------------------------
(* The invariant: tokens and commands.                                     *)

\* No request gets through with this record.
Barred(record) == record = Torn \/ (record \in TokenRecord /\ record.revoked)

\* The record says what its secret was minted with.
Says(record, grant) ==
    grant \in Grant /\ record.label = grant.label /\ record.granted = grant.granted

TokensFit ==
    /\ tokens \in [Secrets -> TokenRecord \cup {Absent, Torn}]
    /\ minted \in [Secrets -> Grant \cup {Absent}]
    /\ dead \subseteq issued /\ dead \subseteq doomed /\ issued \subseteq Secrets
    /\ doomed \subseteq Secrets
    /\ \A s \in Secrets :
        /\ tokens[s] # Absent => minted[s] # Absent
        /\ tokens[s] \in TokenRecord => Says(tokens[s], minted[s])
        /\ tokens[s] \in TokenRecord /\ tokens[s].revoked => s \in doomed
    /\ \A s \in issued : tokens[s] # Absent
    /\ \A s \in dead : Barred(tokens[s])

Commands ==
    [step : {"idle", "put", "scan", "flip"}, op : {"none", "issue", "revoke", "list"},
     label : Labels \cup {Absent}, todo : SUBSET Secrets, key : Secrets \cup {Absent},
     record : TokenRecord \cup {Absent}, shown : SUBSET Secrets,
     targets : SUBSET Secrets, gone : SUBSET Secrets]

\* The record a command is about to write.
Writing(c, owners, known, revoked) ==
    /\ c.key \in Secrets /\ c.record \in TokenRecord /\ Says(c.record, owners[c.key])
    /\ \/ c.op = "issue" /\ c.step = "put" /\ ~c.record.revoked /\ c.key \notin known
       \/ c.op = "revoke" /\ c.record.revoked /\ c.key \in revoked

\* What a revocation has yet to read is doomed if it is under its label; what it must
\* reach is yet to be read, about to be written, or unusable.
Revoking(c, store, owners, known, revoked) ==
    /\ \A s \in c.todo : owners[s] \in Grant /\ (owners[s].label = c.label => s \in revoked)
    /\ \A s \in c.targets :
        /\ s \in known /\ s \in revoked
        /\ owners[s] \in Grant /\ owners[s].label = c.label
        /\ s \in c.todo \/ (c.step \in {"flip", "put"} /\ c.key = s) \/ Barred(store[s])

\* What a list must show is yet to be read, shown, doomed or unreadable; nothing that was
\* dead when it began is shown.
Listing(c, store, known, revoked, buried) ==
    /\ \A s \in c.targets :
        s \in known /\ (s \in c.todo \/ s \in c.shown \/ s \in revoked \/ store[s] = Torn)
    /\ c.gone \subseteq buried /\ c.shown \cap c.gone = {}

CommandFits(c, store, owners, known, revoked, buried) ==
    /\ c \in Commands
    /\ \A s \in c.todo : store[s] # Absent
    /\ c.step \in {"put", "flip"} => Writing(c, owners, known, revoked)
    /\ c.step = "scan" => c.op \in {"revoke", "list"}
    /\ c.op = "revoke" => Revoking(c, store, owners, known, revoked)
    /\ c.op = "list" => Listing(c, store, known, revoked, buried)

\* No two commands issue the same secret.
Apart ==
    \A a, b \in Admins :
        /\ admin[a].step = "put" /\ admin[a].op = "issue"
        /\ admin[b].step = "put" /\ admin[b].op = "issue"
        /\ admin[a].key = admin[b].key
        => a = b

EditFits ==
    /\ edit.step \in {"idle", "put", "index"}
    /\ edit.step # "idle" => edit.page \in Pages
    /\ edit.step = "put" => edit.fact \in Fact
    /\ edit.step = "index" => edit.fact \in Fact \cup {Absent}

StoreFits ==
    /\ facts \in [Pages -> Fact \cup {Absent, Torn}]
    /\ index \subseteq Pages /\ built \in BOOLEAN /\ open \in BOOLEAN

RequestsFit ==
    /\ request \in [Requests -> Request]
    /\ \A r \in Requests : RequestFits(request[r], facts, index, minted, issued, dead)

CommandsFit ==
    /\ admin \in [Admins -> Commands]
    /\ \A a \in Admins : CommandFits(admin[a], tokens, minted, issued, doomed, dead)

AnswerIsFit == answer # None => AnswerFits(answer, doomed)

IInv ==
    /\ StoreFits /\ EditFits /\ TokensFit
    /\ RequestsFit /\ AnswerIsFit
    /\ CommandsFit /\ Apart

-----------------------------------------------------------------------------
(* What a finite set of numbers has.                                       *)

\* A finite set has an element that nothing in it exceeds.
LEMMA Greatest ==
    ASSUME NEW S, IsFiniteSet(S), S # {}, NEW f \in [S -> Int]
    PROVE  \E x \in S : \A y \in S : f[y] <= f[x]
<1> DEFINE Up(x) == {y \in S : f[y] > f[x]}
           T == {Up(x) : x \in S}
<1>1. T \subseteq FiniteSubsetsOf(S)
  <2> SUFFICES ASSUME NEW x \in S PROVE Up(x) \in FiniteSubsetsOf(S)
    OBVIOUS
  <2>1. Up(x) \in SUBSET S
    OBVIOUS
  <2> QED BY <2>1, FS_Subset DEF FiniteSubsetsOf
<1>2. IsWellFoundedOn(StrictSubsetOrdering(S), FiniteSubsetsOf(S))
  BY FS_StrictSubsetOrderingWellFounded
<1>3. T # {}
  <2>1. PICK x \in S : TRUE
    OBVIOUS
  <2>2. Up(x) \in T
    OBVIOUS
  <2> QED BY <2>2
<1> HIDE DEF T
<1>4. PICK u \in T : \A v \in T : <<v, u>> \notin StrictSubsetOrdering(S)
  BY <1>1, <1>2, <1>3, WFMin
<1> USE DEF T
<1>5. PICK x \in S : u = Up(x)
  OBVIOUS
<1>6. ASSUME NEW y \in S, f[y] > f[x] PROVE FALSE
  <2>1. Up(y) \in T /\ Up(y) \subseteq Up(x) /\ y \in Up(x) /\ y \notin Up(y)
    BY <1>6
  <2>2. Up(y) \in SUBSET S /\ Up(x) \in SUBSET S
    OBVIOUS
  <2>3. Up(y) # Up(x)
    BY <2>1
  <2> HIDE DEF Up, T
  <2> QED BY <1>4, <1>5, <2>1, <2>2, <2>3 DEF StrictSubsetOrdering
<1> QED BY <1>6

\* The next document is one of those still to be read.
LEMMA FirstIsThere ==
    ASSUME NEW S \in SUBSET Pages, S # {}
    PROVE  First(S) \in S
<1> DEFINE f == [x \in S |-> -x]
<1>1. IsFiniteSet(S) /\ S \subseteq Nat
  BY FS_Subset, SharingAssumption
<1>2. f \in [S -> Int]
  BY <1>1
<1>3. PICK x \in S : \A y \in S : f[y] <= f[x]
  BY <1>1, <1>2, Greatest
<1>4. \A y \in S : x <= y
  BY <1>1, <1>3
<1> QED BY <1>4 DEF First

\* What is cut is in the answer.
LEMMA LastIsThere ==
    ASSUME NEW S \in SUBSET (Pages \X Fact), IsFiniteSet(S), S # {}
    PROVE  \E last \in S : \A o \in S : o[1] <= last[1]
<1> DEFINE f == [p \in S |-> p[1]]
<1>1. \A p \in S : p[1] \in Nat
  BY SharingAssumption
<1>2. f \in [S -> Int]
  BY <1>1
<1>3. PICK x \in S : \A y \in S : f[y] <= f[x]
  BY <1>2, Greatest
<1> QED BY <1>1, <1>3

-----------------------------------------------------------------------------
(* The identity of a request, and what it may read.                        *)

\* The scope the server found is the scope the request came in with.
LEMMA SameScope ==
    ASSUME NEW q \in Request, Knows(q, minted), NEW f \in Fact
    PROVE  MayRead(q, f) <=> CanAccess(q, f)
<1>1. "none" \notin Secrets
  BY SharingAssumption
<1>2. CASE q.owner /\ q.auth = "none" /\ ~q.shared /\ q.loopback
  BY <1>2 DEF MayRead, CanAccess
<1>3. CASE ~q.owner /\ q.auth \in Secrets /\ minted[q.auth] \in Grant
           /\ q.granted = minted[q.auth].granted
  <2>1. minted[q.auth] # Absent
    BY <1>3, SharingAssumption
  <2> QED BY <1>1, <1>3, <2>1 DEF MayRead, CanAccess
<1> QED BY <1>2, <1>3 DEF Knows

\* What Watched records is what RequestFits asks for, after the store has changed.
LEMMA Watching ==
    ASSUME NEW q \in Request, NEW store, NEW idx,
           RequestFits(q, facts, index, minted, issued, dead),
           store \in [Pages -> Fact \cup {Absent, Torn}]
    PROVE  RequestFits(Watched(q, store, idx), store, idx, minted, issued, dead)
<1>1. CASE ~Running(q)
  BY <1>1 DEF Watched, RequestFits, Running
<1>2. CASE Running(q)
  <2> DEFINE u == [q EXCEPT !.seen = @ \cup Visible(q, store),
                            !.steady = @ \cap Reachable(q, store, idx)]
  <2>1. Watched(q, store, idx) = u
    BY <1>2 DEF Watched
  <2>2. Visible(q, store) \in SUBSET (Pages \X Fact) /\ Reachable(q, store, idx) \in SUBSET Pages
    BY DEF Visible, Reachable
  <2>3. u \in Request
    BY <2>2 DEF Request
  <2>4. /\ u.step = q.step /\ u.shared = q.shared /\ u.auth = q.auth /\ u.loopback = q.loopback
        /\ u.call = q.call /\ u.arg = q.arg /\ u.owner = q.owner /\ u.granted = q.granted
        /\ u.todo = q.todo /\ u.out = q.out /\ u.truncated = q.truncated /\ u.late = q.late
        /\ u.genuine = q.genuine
        /\ u.seen = q.seen \cup Visible(q, store)
        /\ u.steady = q.steady \cap Reachable(q, store, idx)
    BY DEF Request
  <2> HIDE DEF u
  <2>5. Knows(q, minted) /\ ~q.late /\ ~q.truncated /\ q.out \subseteq q.seen
        /\ IsFiniteSet(q.out) /\ Progress(q) /\ q.step # "done"
        /\ (q.genuine => q.auth \in issued) /\ q.step # "resolve"
    BY <1>2 DEF RequestFits, Open, Running
  <2>6. \A f \in Fact : MayRead(q, f) <=> CanAccess(q, f)
    BY <2>5, SameScope
  <2>7. \A f \in Fact : CanAccess(u, f) <=> CanAccess(q, f)
    BY <2>4 DEF CanAccess
  <2>8. Sees(u, store)
    BY <2>4, <2>6, <2>7 DEF Sees, Visible
  <2>9. Stays(u, store, idx)
    BY <2>4, <2>6, <2>7, <1>2 DEF Stays, Reachable, Wanted
  <2>10. Progress(u)
    BY <2>4, <2>5 DEF Progress, Held, Found, Wanted, Scanning
  <2>11. Knows(u, minted)
    BY <2>4, <2>5 DEF Knows
  <2> QED BY <2>1, <2>3, <2>4, <2>5, <2>8, <2>9, <2>10, <2>11 DEF RequestFits, Open
<1> QED BY <1>1, <1>2

\* An edit or the building of the index is seen by every request.
LEMMA WatchedByAll ==
    ASSUME IInv, WatchAll, UNCHANGED <<minted, issued, dead>>,
           facts' \in [Pages -> Fact \cup {Absent, Torn}]
    PROVE  RequestsFit'
<1> DEFINE w(r) == Watched(request[r], facts', index')
<1>1. \A r \in Requests : RequestFits(w(r), facts', index', minted, issued, dead)
  <2> SUFFICES ASSUME NEW r \in Requests
               PROVE  RequestFits(w(r), facts', index', minted, issued, dead)
    OBVIOUS
  <2>1. request[r] \in Request /\ RequestFits(request[r], facts, index, minted, issued, dead)
    BY DEF IInv, RequestsFit
  <2> QED BY <2>1, Watching
<1>2. request' = [r \in Requests |-> w(r)]
  BY DEF WatchAll
<1>3. \A r \in Requests : w(r) \in Request
  BY <1>1 DEF RequestFits
<1> HIDE DEF w
<1> QED BY <1>1, <1>2, <1>3 DEF RequestsFit

\* A request does not notice what happens to tokens that are not its own.
LEMMA Unnoticed ==
    ASSUME NEW q, NEW store, NEW idx, NEW owners, NEW owners2, NEW known, NEW known2,
           NEW gone, NEW gone2,
           RequestFits(q, store, idx, owners, known, gone),
           \A s \in Secrets : owners[s] \in Grant => owners2[s] = owners[s],
           known \subseteq known2, gone \subseteq gone2
    PROVE  RequestFits(q, store, idx, owners2, known2, gone2)
<1>1. Knows(q, owners) => Knows(q, owners2)
  BY DEF Knows
<1> QED BY <1>1 DEF RequestFits, Open

LEMMA RequestsUndisturbed ==
    ASSUME RequestsFit, UNCHANGED <<facts, index, request>>,
           \A s \in Secrets : minted[s] \in Grant => minted'[s] = minted[s],
           issued \subseteq issued', dead \subseteq dead'
    PROVE  RequestsFit'
<1>1. \A r \in Requests : RequestFits(request[r], facts, index, minted', issued', dead')
  <2> SUFFICES ASSUME NEW r \in Requests
               PROVE  RequestFits(request[r], facts, index, minted', issued', dead')
    OBVIOUS
  <2>1. RequestFits(request[r], facts, index, minted, issued, dead)
    BY DEF RequestsFit
  <2> QED BY <2>1, Unnoticed
<1> QED BY <1>1 DEF RequestsFit

\* One request goes on, or is answered; everything else stays.
GoesOn(q) ==
    /\ q.step # "done" => RequestFits(q, facts, index, minted, issued, dead)
    /\ q.step = "done" => AnswerFits(q, doomed)

\* What a request that is answered, or has not begun, leaves behind.
LEMMA IdleFits ==
    ASSUME NEW store, NEW idx, NEW owners, NEW known, NEW gone
    PROVE  IdleRequest \in Request /\ RequestFits(IdleRequest, store, idx, owners, known, gone)
BY DEF IdleRequest, Request, RequestFits, Running, Steps, Codes

LEMMA ProceedStep ==
    ASSUME IInv, NEW r \in Requests, NEW q \in Request, Proceed(r, q), GoesOn(q),
           UNCHANGED <<disk, memory, edit, open, admin, owner>>
    PROVE  IInv'
<1>1. UNCHANGED <<facts, tokens, index, built, edit, open, admin, minted, issued, doomed, dead>>
  BY DEF disk, memory, owner
<1>2. StoreFits' /\ EditFits' /\ TokensFit' /\ CommandsFit' /\ Apart'
  BY <1>1 DEF IInv, StoreFits, EditFits, TokensFit, CommandsFit, Apart
<1>3. CASE q.step # "done" /\ request' = [request EXCEPT ![r] = q] /\ answer' = None
  <2>1. RequestsFit'
    BY <1>1, <1>3 DEF IInv, RequestsFit, GoesOn
  <2> QED BY <1>2, <1>3, <2>1 DEF IInv, AnswerIsFit
<1>4. CASE q.step = "done" /\ request' = [request EXCEPT ![r] = IdleRequest] /\ answer' = q
  <2>1. RequestsFit'
    BY <1>1, <1>4, IdleFits DEF IInv, RequestsFit
  <2>2. AnswerIsFit'
    BY <1>1, <1>4 DEF AnswerIsFit, GoesOn
  <2> QED BY <1>2, <2>1, <2>2 DEF IInv
<1> QED BY <1>3, <1>4 DEF Proceed

-----------------------------------------------------------------------------
(* Answers.                                                                *)

\* An answer that carries nothing.
LEMMA FailedFits ==
    ASSUME NEW q \in Request, NEW code \in Codes,
           q.late => code \in {"unauthorized", "unavailable", "locked"} /\ q.seen = {},
           q.genuine /\ q.auth \notin doomed => code # "unauthorized",
           code = "ok" => q.call \notin Tools,
           code = "not_found" => q.steady = {}
    PROVE  Failed(q, code) \in Request /\ GoesOn(Failed(q, code))
<1> DEFINE u == Failed(q, code)
<1>1. u \in Request
  BY DEF Request, Failed, Answered, Steps
<1>2. /\ u.step = "done" /\ u.code = code /\ u.out = {} /\ u.call = q.call /\ u.seen = q.seen
      /\ u.steady = q.steady /\ u.late = q.late /\ u.genuine = q.genuine /\ u.auth = q.auth
  BY DEF Request, Failed, Answered
<1> HIDE DEF u
<1>3. AnswerFits(u, doomed)
  BY <1>1, <1>2 DEF AnswerFits
<1> QED BY <1>1, <1>2, <1>3 DEF GoesOn, u

\* An answer that carries what was held, not cut.
LEMMA AnsweredFits ==
    ASSUME NEW q \in Request, ~q.late, q.out \subseteq q.seen,
           \A id \in q.steady : Found(q, id),
           q.call = "search_knowledge" => Cardinality(q.out) <= Limit
    PROVE  Answered(q, "ok") \in Request /\ GoesOn(Answered(q, "ok"))
<1> DEFINE u == Answered(q, "ok")
<1>1. u \in Request
  BY ZenonT(40) DEF Request, Answered, Steps, Codes
<1>2. /\ u.step = "done" /\ u.code = "ok" /\ u.out = q.out /\ u.call = q.call /\ u.seen = q.seen
      /\ u.steady = q.steady /\ u.late = q.late /\ u.genuine = q.genuine /\ u.auth = q.auth
  BY DEF Request, Answered
<1> HIDE DEF u
<1>3. u.steady \subseteq {p[1] : p \in u.out}
  BY <1>2 DEF Found
<1>4. AnswerFits(u, doomed)
  BY <1>1, <1>2, <1>3 DEF AnswerFits
<1> QED BY <1>1, <1>2, <1>4 DEF GoesOn, u

-----------------------------------------------------------------------------
(* Arrival and identification.                                             *)

\* The arguments are checked; the first read is of the scope the identity opens.
LEMMA DispatchFits ==
    ASSUME IInv, NEW u \in Request, Asking([u EXCEPT !.seen = {}]),
           u.genuine => u.auth \in issued,
           Open(u, facts, index, minted)
    PROVE  Dispatched(u) \in Request /\ GoesOn(Dispatched(u))
<1>1. /\ u.call \in Tools \cup {"notification", "other"} /\ u.arg \in Arguments(u.call)
      /\ u.out = {} /\ ~u.late
  <2>1. [u EXCEPT !.seen = {}].call = u.call /\ [u EXCEPT !.seen = {}].arg = u.arg
        /\ [u EXCEPT !.seen = {}].out = u.out
    BY DEF Request
  <2> QED BY <2>1 DEF Asking, Open
<1>2. \A code \in Codes \ {"ok", "not_found", "unauthorized"} :
          Failed(u, code) \in Request /\ GoesOn(Failed(u, code))
  <2> SUFFICES ASSUME NEW code \in Codes \ {"ok", "not_found", "unauthorized"}
               PROVE  Failed(u, code) \in Request /\ GoesOn(Failed(u, code))
    OBVIOUS
  <2> QED BY <1>1, FailedFits
<1>3. CASE u.call \notin Tools
  <2> DEFINE code == IF u.call = "notification" THEN "accepted" ELSE "ok"
  <2>1. Dispatched(u) = Failed(u, code)
    BY <1>3 DEF Dispatched
  <2>2. code \in {"accepted", "ok"}
    OBVIOUS
  <2> HIDE DEF code
  <2>3. Failed(u, code) \in Request /\ GoesOn(Failed(u, code))
    BY <1>1, <1>3, <2>2, FailedFits DEF Codes
  <2> QED BY <2>1, <2>3
<1>5. CASE u.call \in Tools /\ u.arg = Bad
  <2>1. Dispatched(u) = Failed(u, "invalid")
    BY <1>5 DEF Dispatched
  <2> QED BY <1>2, <2>1 DEF Codes
<1>6. CASE u.call = "get_guide" /\ u.arg # Bad /\ ~Grants(u, u.arg)
  <2>1. Dispatched(u) = Failed(u, "not_found")
    BY <1>6 DEF Dispatched, Tools
  <2>2. u.steady = {}
    BY <1>6 DEF Open, Stays, Wanted, CanAccess, Grants
  <2>3. Failed(u, "not_found") \in Request /\ GoesOn(Failed(u, "not_found"))
    BY <1>1, <2>2, FailedFits DEF Codes
  <2> QED BY <2>1, <2>3
<1>7. ASSUME NEW s \in {"search", "page", "list"},
             Progress([u EXCEPT !.step = s])
      PROVE  [u EXCEPT !.step = s] \in Request /\ GoesOn([u EXCEPT !.step = s])
  <2> DEFINE v == [u EXCEPT !.step = s]
  <2>1. v \in Request
    BY DEF Request, Steps
  <2>2. /\ v.step = s /\ v.shared = u.shared /\ v.auth = u.auth /\ v.loopback = u.loopback
        /\ v.call = u.call /\ v.arg = u.arg /\ v.owner = u.owner /\ v.granted = u.granted
        /\ v.todo = u.todo /\ v.out = u.out /\ v.truncated = u.truncated /\ v.late = u.late
        /\ v.genuine = u.genuine /\ v.seen = u.seen /\ v.steady = u.steady
    BY DEF Request
  <2>3. Progress(v)
    BY <1>7
  <2> HIDE DEF v
  <2>4. Open(v, facts, index, minted)
    BY <2>2 DEF Open, Knows, Sees, Stays, CanAccess, Wanted
  <2>5. RequestFits(v, facts, index, minted, issued, dead)
    BY <1>1, <2>1, <2>2, <2>3, <2>4 DEF RequestFits
  <2> QED BY <2>1, <2>2, <2>5 DEF GoesOn, v
<1>8. CASE u.call = "search_knowledge" /\ u.arg # Bad
  <2>1. Dispatched(u) = [u EXCEPT !.step = "search"]
    BY <1>8 DEF Dispatched, Tools
  <2>2. Progress([u EXCEPT !.step = "search"])
    BY <1>1, <1>8 DEF Progress, Request
  <2> QED BY <1>7, <2>1, <2>2
<1>9. CASE u.call = "get_page" /\ u.arg # Bad
  <2>1. Dispatched(u) = [u EXCEPT !.step = "page"]
    BY <1>9 DEF Dispatched, Tools
  <2>2. Progress([u EXCEPT !.step = "page"])
    BY <1>1, <1>9 DEF Progress, Request, Arguments
  <2> QED BY <1>7, <2>1, <2>2
<1>10. CASE \/ u.call = "get_guide" /\ u.arg # Bad /\ Grants(u, u.arg)
            \/ u.call = "list_categories" /\ u.arg # Bad
  <2>1. Dispatched(u) = [u EXCEPT !.step = "list"]
    BY <1>10 DEF Dispatched, Tools
  <2>2. Progress([u EXCEPT !.step = "list"])
    BY <1>1, <1>10 DEF Progress, Request, Scanning
  <2> QED BY <1>7, <2>1, <2>2
<1> QED BY <1>3, <1>5, <1>6, <1>8, <1>9, <1>10 DEF Tools

LEMMA IdentifiedFits ==
    ASSUME IInv, NEW q \in Request, Asking(q), ~q.late,
           q.genuine => q.auth \in issued,
           NEW isOwner \in BOOLEAN, NEW granted \in SUBSET Categories,
           \/ isOwner /\ q.auth = "none" /\ ~q.shared /\ q.loopback
           \/ ~isOwner /\ q.auth \in Secrets /\ minted[q.auth] \in Grant
              /\ granted = minted[q.auth].granted
    PROVE  Identified(q, isOwner, granted) \in Request /\ GoesOn(Identified(q, isOwner, granted))
<1> DEFINE u == [q EXCEPT !.owner = isOwner, !.granted = granted,
                          !.seen = Visible(q, facts), !.steady = Reachable(q, facts, index)]
<1>1. Visible(q, facts) \in SUBSET (Pages \X Fact) /\ Reachable(q, facts, index) \in SUBSET Pages
  BY DEF Visible, Reachable
<1>2. u \in Request
  BY <1>1 DEF Request
<1>3. /\ u.step = q.step /\ u.shared = q.shared /\ u.auth = q.auth /\ u.loopback = q.loopback
      /\ u.call = q.call /\ u.arg = q.arg /\ u.owner = isOwner /\ u.granted = granted
      /\ u.todo = q.todo /\ u.out = q.out /\ u.truncated = q.truncated /\ u.late = q.late
      /\ u.genuine = q.genuine
      /\ u.seen = Visible(q, facts) /\ u.steady = Reachable(q, facts, index)
  BY DEF Request
<1>4. Identified(q, isOwner, granted) = Dispatched(u)
  BY DEF Identified
<1> HIDE DEF u
<1>5. Knows(u, minted)
  BY <1>3 DEF Knows
<1>6. \A f \in Fact : MayRead(q, f) <=> CanAccess(u, f)
  <2>1. \A f \in Fact : MayRead(u, f) <=> CanAccess(u, f)
    BY <1>2, <1>5, SameScope
  <2> QED BY <1>3, <2>1 DEF MayRead
<1>7. Sees(u, facts) /\ Stays(u, facts, index)
  BY <1>3, <1>6 DEF Sees, Stays, Visible, Reachable, Wanted
<1>8. Open(u, facts, index, minted)
  BY <1>3, <1>5, <1>7, FS_EmptySet DEF Open, Asking
<1>9. Asking([u EXCEPT !.seen = {}])
  <2> DEFINE v == [u EXCEPT !.seen = {}]
  <2>1. v.call = u.call /\ v.arg = u.arg /\ v.truncated = u.truncated /\ v.out = u.out /\ v.seen = {}
    BY <1>2 DEF Request
  <2> QED BY <1>3, <2>1 DEF Asking
<1> QED BY <1>2, <1>3, <1>4, <1>8, <1>9, DispatchFits

LEMMA FlagsFit ==
    ASSUME NEW w \in Request, NEW g \in BOOLEAN, NEW l \in BOOLEAN
    PROVE  [w EXCEPT !.genuine = g, !.late = l] \in Request
BY ZenonT(40) DEF Request

Arriving(sh, lo, au, ca, ar, g, l) ==
    [IdleRequest EXCEPT !.shared = sh, !.loopback = lo, !.auth = au, !.call = ca,
                        !.arg = ar, !.genuine = g, !.late = l]

LEMMA ArrivalFits ==
    ASSUME NEW sh \in BOOLEAN, NEW lo \in BOOLEAN, NEW au \in Secrets \cup {"none", "malformed"},
           NEW ca \in Tools \cup {"notification", "other"},
           NEW ar \in Pages \cup Categories \cup {Absent, Bad},
           NEW g \in BOOLEAN, NEW l \in BOOLEAN
    PROVE  Arriving(sh, lo, au, ca, ar, g, l) \in Request
<1>1. PICK u \in Request : u = IdleRequest
  BY IdleFits
<1>2. [u EXCEPT !.shared = sh, !.loopback = lo] \in Request
  BY ZenonT(40) DEF Request
<1>3. PICK v \in Request : v = [u EXCEPT !.shared = sh, !.loopback = lo]
  BY <1>2
<1>4. [v EXCEPT !.auth = au, !.call = ca, !.arg = ar] \in Request
  BY ZenonT(40) DEF Request
<1>5. PICK w \in Request : w = [v EXCEPT !.auth = au, !.call = ca, !.arg = ar]
  BY <1>4
<1>6. [w EXCEPT !.genuine = g, !.late = l] \in Request
  BY FlagsFit
<1>7. [u EXCEPT !.shared = sh, !.loopback = lo, !.auth = au, !.call = ca,
                !.arg = ar, !.genuine = g, !.late = l] = [w EXCEPT !.genuine = g, !.late = l]
  BY <1>3, <1>5 DEF Request
<1> QED BY <1>1, <1>6, <1>7 DEF Arriving

LEMMA ArriveStep ==
    ASSUME IInv, NEW r \in Requests, Arrive(r)
    PROVE  IInv'
<1>1. PICK from \in Origins, call \in Tools \cup {"notification", "other"} :
          \E arg \in Arguments(call) :
            LET q == [IdleRequest EXCEPT !.shared = from.shared, !.loopback = from.loopback,
                          !.auth = from.auth, !.call = call, !.arg = arg,
                          !.genuine = from.auth \in issued, !.late = from.auth \in dead]
            IN  Proceed(r,
                    CASE q.auth \in Secrets -> [q EXCEPT !.step = "resolve"]
                      [] q.auth = "none" /\ OwnerGranted(q) -> Identified(q, TRUE, {})
                      [] OTHER -> Failed(q, "unauthorized"))
  BY DEF Arrive
<1>2. PICK arg \in Arguments(call) :
            LET q == [IdleRequest EXCEPT !.shared = from.shared, !.loopback = from.loopback,
                          !.auth = from.auth, !.call = call, !.arg = arg,
                          !.genuine = from.auth \in issued, !.late = from.auth \in dead]
            IN  Proceed(r,
                    CASE q.auth \in Secrets -> [q EXCEPT !.step = "resolve"]
                      [] q.auth = "none" /\ OwnerGranted(q) -> Identified(q, TRUE, {})
                      [] OTHER -> Failed(q, "unauthorized"))
  BY <1>1
<1> DEFINE q == [IdleRequest EXCEPT !.shared = from.shared, !.loopback = from.loopback,
                     !.auth = from.auth, !.call = call, !.arg = arg,
                     !.genuine = from.auth \in issued, !.late = from.auth \in dead]
<1>3. /\ from.shared \in BOOLEAN /\ from.loopback \in BOOLEAN
      /\ from.auth \in Secrets \cup {"none", "malformed"}
  BY DEF Origins
<1>4. arg \in Pages \cup Categories \cup {Absent, Bad}
  BY DEF Arguments
<1>5. q \in Request
  <2>1. \E g, l \in BOOLEAN :
            q = Arriving(from.shared, from.loopback, from.auth, call, arg, g, l)
    <3> WITNESS (from.auth \in issued) \in BOOLEAN, (from.auth \in dead) \in BOOLEAN
    <3> QED BY DEF Arriving
  <2> HIDE DEF q
  <2>2. PICK g \in BOOLEAN, l \in BOOLEAN :
            q = Arriving(from.shared, from.loopback, from.auth, call, arg, g, l)
    BY <2>1
  <2>3. PICK sh \in BOOLEAN, lo \in BOOLEAN :
            sh = from.shared /\ lo = from.loopback
    BY <1>3
  <2>4. PICK au \in Secrets \cup {"none", "malformed"} : au = from.auth
    BY <1>3
  <2>5. Arriving(sh, lo, au, call, arg, g, l) \in Request
    BY <1>4, ArrivalFits
  <2> QED BY <2>2, <2>3, <2>4, <2>5
<1>6. /\ q.auth = from.auth /\ q.call = call /\ q.arg = arg /\ q.out = {} /\ q.seen = {}
      /\ q.steady = {} /\ ~q.truncated /\ (q.genuine <=> q.auth \in issued)
      /\ (q.late <=> q.auth \in dead)
  BY DEF IdleRequest
<1>7. Asking(q)
  BY <1>6 DEF Asking
<1>8. Proceed(r, CASE q.auth \in Secrets -> [q EXCEPT !.step = "resolve"]
                   [] q.auth = "none" /\ OwnerGranted(q) -> Identified(q, TRUE, {})
                   [] OTHER -> Failed(q, "unauthorized"))
  BY <1>2
<1> HIDE DEF q
<1>9. UNCHANGED <<disk, memory, edit, open, admin, owner>>
  BY DEF Arrive
<1>10. issued \subseteq Secrets /\ dead \subseteq Secrets
  BY DEF IInv, TokensFit
<1>11. CASE q.auth \in Secrets
  <2> DEFINE u == [q EXCEPT !.step = "resolve"]
  <2>1. u \in Request
    BY <1>5 DEF Request, Steps
  <2>2. /\ u.step = "resolve" /\ u.auth = q.auth /\ u.genuine = q.genuine /\ u.late = q.late
        /\ u.call = q.call /\ u.arg = q.arg /\ u.truncated = q.truncated /\ u.out = q.out
        /\ u.seen = q.seen
    BY <1>5 DEF Request
  <2>3. Proceed(r, u)
    BY <1>8, <1>11, SharingAssumption
  <2> HIDE DEF u
  <2>4. GoesOn(u)
    BY <1>6, <1>7, <1>11, <2>1, <2>2 DEF GoesOn, RequestFits, Running, Asking
  <2> QED BY <1>9, <2>1, <2>3, <2>4, ProceedStep
<1>12. CASE q.auth = "none" /\ OwnerGranted(q) /\ q.auth \notin Secrets
  <2>1. Proceed(r, Identified(q, TRUE, {}))
    BY <1>8, <1>12
  <2>2. ~q.late /\ ~q.genuine
    BY <1>6, <1>10, <1>12
  <2>3. Identified(q, TRUE, {}) \in Request /\ GoesOn(Identified(q, TRUE, {}))
    BY <1>5, <1>7, <1>12, <2>2, IdentifiedFits DEF OwnerGranted
  <2> QED BY <1>9, <2>1, <2>3, ProceedStep
<1>13. CASE ~(q.auth = "none" /\ OwnerGranted(q)) /\ q.auth \notin Secrets
  <2>1. Proceed(r, Failed(q, "unauthorized"))
    BY <1>8, <1>13
  <2>2. ~q.late /\ ~q.genuine
    BY <1>6, <1>10, <1>13
  <2>3. Failed(q, "unauthorized") \in Request /\ GoesOn(Failed(q, "unauthorized"))
    BY <1>5, <2>2, FailedFits DEF Codes
  <2> QED BY <1>9, <2>1, <2>3, ProceedStep
<1> QED BY <1>11, <1>12, <1>13

LEMMA ResolveStep ==
    ASSUME IInv, NEW r \in Requests, Resolve(r)
    PROVE  IInv'
<1> DEFINE q == request[r]
<1>1. /\ q \in Request /\ q.step = "resolve" /\ q.auth \in Secrets /\ Asking(q)
      /\ (q.genuine => q.auth \in issued) /\ (q.late => q.auth \in dead)
      /\ Proceed(r, Resolved(q)) /\ UNCHANGED <<disk, memory, edit, open, admin, owner>>
  BY DEF Resolve, IInv, RequestsFit, RequestFits
<1> HIDE DEF q
<1> SUFFICES Resolved(q) \in Request /\ GoesOn(Resolved(q))
  BY <1>1, ProceedStep
<1>2. q.seen = {}
  BY <1>1 DEF Asking
<1> Torn \notin TokenRecord
  BY SharingAssumption
<1>3. CASE ~open \/ tokens[q.auth] = Torn
  <2>1. \A code \in {"locked", "unavailable"} :
            Failed(q, code) \in Request /\ GoesOn(Failed(q, code))
    BY <1>1, <1>2, FailedFits DEF Codes
  <2>2. Resolved(q) \in {Failed(q, "locked"), Failed(q, "unavailable")}
    BY <1>3 DEF Resolved
  <2> QED BY <2>1, <2>2
<1>4. CASE open /\ tokens[q.auth] # Torn /\ tokens[q.auth] \in TokenRecord /\ ~tokens[q.auth].revoked
  <2> DEFINE g == tokens[q.auth].granted
  <2>1. Resolved(q) = Identified(q, FALSE, g)
    BY <1>4 DEF Resolved
  <2>2. g \in SUBSET Categories
    BY <1>4 DEF TokenRecord
  <2>3. minted[q.auth] \in Grant /\ g = minted[q.auth].granted
    BY <1>1, <1>4 DEF IInv, TokensFit, Says
  <2>4. ~q.late
    BY <1>1, <1>4 DEF IInv, TokensFit, Barred
  <2> HIDE DEF g
  <2> QED BY <1>1, <2>1, <2>2, <2>3, <2>4, IdentifiedFits
<1>5. CASE open /\ tokens[q.auth] # Torn
           /\ ~(tokens[q.auth] \in TokenRecord /\ ~tokens[q.auth].revoked)
  <2>1. Resolved(q) = Failed(q, "unauthorized")
    BY <1>5 DEF Resolved
  <2>2. q.genuine => q.auth \in doomed
    BY <1>1, <1>5 DEF IInv, TokensFit
  <2>3. Failed(q, "unauthorized") \in Request /\ GoesOn(Failed(q, "unauthorized"))
    BY <1>1, <1>2, <2>2, FailedFits DEF Codes
  <2> QED BY <2>1, <2>3
<1> QED BY <1>3, <1>4, <1>5

-----------------------------------------------------------------------------
(* Reading.                                                                *)

\* A request that has more to read goes on.
LEMMA Continues ==
    ASSUME NEW q \in Request, Open(q, facts, index, minted), Progress(q),
           q.step \notin {"done", "resolve"}, q.genuine => q.auth \in issued
    PROVE  GoesOn(q)
BY DEF GoesOn, RequestFits, Open

\* What of the collected pages a tool answers with.
LEMMA GatheredFits ==
    ASSUME NEW q \in Request, Open(q, facts, index, minted), Scanning(q),
           \A id \in q.steady : Found(q, id)
    PROVE  Gathered(q) \in Request /\ GoesOn(Gathered(q))
<1> DEFINE counted == {p \in q.out : p[2].category # Uncategorized}
           pages == {p \in q.out : p[2].category = q.arg}
<1>1. ~q.late /\ q.out \subseteq q.seen
  BY DEF Open
<1>2. ASSUME NEW kept \in SUBSET q.out,
             \A id \in q.steady : \E p \in kept : p[1] = id /\ Wanted(q, p[2])
      PROVE  /\ Answered([q EXCEPT !.out = kept], "ok") \in Request
             /\ GoesOn(Answered([q EXCEPT !.out = kept], "ok"))
  <2> DEFINE u == [q EXCEPT !.out = kept]
  <2>1. kept \in SUBSET (Pages \X Fact)
    BY DEF Request
  <2>2. u \in Request
    BY <2>1 DEF Request
  <2>3. u.late = q.late /\ u.out = kept /\ u.seen = q.seen /\ u.steady = q.steady /\ u.call = q.call
        /\ u.arg = q.arg
    BY DEF Request
  <2> HIDE DEF u
  <2>4. \A id \in u.steady : Found(u, id)
    BY <1>2, <2>3 DEF Found, Wanted
  <2>5. u.call # "search_knowledge"
    BY <2>3 DEF Scanning
  <2>6. Answered(u, "ok") \in Request /\ GoesOn(Answered(u, "ok"))
    BY <1>1, <2>2, <2>3, <2>4, <2>5, AnsweredFits
  <2> QED BY <2>6 DEF u
<1>3. CASE q.call = "list_categories"
  <2>1. Gathered(q) = Answered([q EXCEPT !.out = counted], "ok")
    BY <1>3 DEF Gathered
  <2>2. counted \in SUBSET q.out
    OBVIOUS
  <2>3. \A id \in q.steady : \E p \in counted : p[1] = id /\ Wanted(q, p[2])
    BY <1>3 DEF Found, Wanted
  <2> HIDE DEF counted
  <2> QED BY <1>2, <2>1, <2>2, <2>3
<1>4. CASE q.call = "get_guide"
  <2>1. pages \in SUBSET q.out
    OBVIOUS
  <2>2. \A id \in q.steady : \E p \in pages : p[1] = id /\ Wanted(q, p[2])
    BY <1>4 DEF Found, Wanted
  <2>3. CASE pages = {}
    <3>1. Gathered(q) = Failed(q, "not_found")
      BY <1>4, <2>3 DEF Gathered
    <3>2. q.steady = {}
      BY <2>2, <2>3
    <3>3. Failed(q, "not_found") \in Request /\ GoesOn(Failed(q, "not_found"))
      BY <1>1, <3>2, FailedFits DEF Codes
    <3> QED BY <3>1, <3>3
  <2>4. CASE pages # {}
    <3>1. Gathered(q) = Answered([q EXCEPT !.out = pages], "ok")
      BY <1>4, <2>4 DEF Gathered
    <3> HIDE DEF pages
    <3> QED BY <1>2, <2>1, <2>2, <3>1
  <2> QED BY <2>3, <2>4
<1> QED BY <1>3, <1>4 DEF Scanning

\* One document is read: it is in the answer if the request may see it.
LEMMA CollectFits ==
    ASSUME NEW q \in Request, Open(q, facts, index, minted), NEW id \in Pages
    PROVE  /\ Collect(q, id) \in Request /\ Open(Collect(q, id), facts, index, minted)
           /\ Collect(q, id).step = q.step /\ Collect(q, id).call = q.call
           /\ Collect(q, id).arg = q.arg /\ Collect(q, id).auth = q.auth
           /\ Collect(q, id).genuine = q.genuine
           /\ Collect(q, id).steady = q.steady /\ Collect(q, id).todo = q.todo \ {id}
           /\ Cardinality(Collect(q, id).out) <= Cardinality(q.out) + 1
           /\ \A x \in q.steady : x = id \/ Found(q, x) => Found(Collect(q, id), x)
<1> DEFINE u == Collect(q, id)
           more == IF facts[id] \in Fact /\ CanAccess(q, facts[id])
                   THEN q.out \cup {<<id, facts[id]>>} ELSE q.out
<1>1. u = [q EXCEPT !.todo = @ \ {id}, !.out = more]
  BY DEF Collect
<1>2. more \in SUBSET (Pages \X Fact) /\ more \subseteq q.seen
  BY DEF Request, Open, Sees
<1>3. IsFiniteSet(more) /\ Cardinality(more) <= Cardinality(q.out) + 1
  <2>1. IsFiniteSet(q.out)
    BY DEF Open
  <2>2. Cardinality(q.out) \in Nat
    BY <2>1, FS_CardinalityType
  <2>3. IsFiniteSet(q.out \cup {<<id, facts[id]>>})
        /\ Cardinality(q.out \cup {<<id, facts[id]>>}) <= Cardinality(q.out) + 1
    <3> DEFINE x == <<id, facts[id]>>
    <3> HIDE DEF x
    <3>1. IsFiniteSet(q.out \cup {x})
          /\ Cardinality(q.out \cup {x}) = IF x \in q.out THEN Cardinality(q.out)
                                           ELSE Cardinality(q.out) + 1
      BY <2>1, FS_AddElement
    <3>2. IsFiniteSet(q.out \cup {x}) /\ Cardinality(q.out \cup {x}) <= Cardinality(q.out) + 1
      BY <2>2, <3>1
    <3> QED BY <3>2 DEF x
  <2> QED BY <2>1, <2>2, <2>3
<1>4. q.out \subseteq more
  OBVIOUS
<1>5. id \in q.steady => <<id, facts[id]>> \in more /\ Wanted(q, facts[id])
  BY DEF Open, Stays
<1> HIDE DEF more
<1>6. u \in Request
  BY <1>1, <1>2, ZenonT(40) DEF Request
<1>7. /\ u.step = q.step /\ u.shared = q.shared /\ u.auth = q.auth /\ u.loopback = q.loopback
      /\ u.call = q.call /\ u.arg = q.arg /\ u.owner = q.owner /\ u.granted = q.granted
      /\ u.todo = q.todo \ {id} /\ u.out = more /\ u.truncated = q.truncated /\ u.late = q.late
      /\ u.genuine = q.genuine /\ u.seen = q.seen /\ u.steady = q.steady
  BY <1>1 DEF Request
<1> HIDE DEF u
<1>8. Open(u, facts, index, minted)
  BY <1>2, <1>3, <1>7 DEF Open, Knows, Sees, Stays, CanAccess, Wanted
<1>9. ASSUME NEW x \in q.steady, x = id \/ Found(q, x)
      PROVE  Found(u, x)
  <2>1. CASE x = id
    <3>1. <<x, facts[x]>> \in u.out /\ Wanted(u, facts[x])
      BY <1>5, <1>7, <2>1 DEF Wanted
    <3>2. <<x, facts[x]>>[1] = x /\ <<x, facts[x]>>[2] = facts[x]
      OBVIOUS
    <3> QED BY <3>1, <3>2 DEF Found
  <2>2. CASE Found(q, x)
    BY <1>4, <1>7, <2>2 DEF Found, Wanted
  <2> QED BY <1>9, <2>1, <2>2
<1> QED BY <1>3, <1>6, <1>7, <1>8, <1>9 DEF u

\* After a read the request goes on, or answers with what it holds.
LEMMA FinishedFits ==
    ASSUME NEW q \in Request, Open(q, facts, index, minted), q.genuine => q.auth \in issued,
           q.step \in {"hits", "load", "links"},
           q.step = "hits" => q.call = "search_knowledge" /\ Held(q)
                              /\ Cardinality(q.out) <= Limit + 1,
           q.step = "load" => Scanning(q) /\ Held(q),
           q.step = "links" => q.call = "get_page" /\ \A id \in q.steady : Found(q, id)
    PROVE  Finished(q) \in Request /\ GoesOn(Finished(q))
<1>1. ~q.late /\ q.out \subseteq q.seen /\ IsFiniteSet(q.out) /\ Cardinality(q.out) \in Nat
  BY FS_CardinalityType DEF Open
<1>2. Limit \in Nat
  BY SharingAssumption
<1>3. CASE q.todo # {} /\ ~(q.step = "hits" /\ PageFull(q))
  <2>1. Finished(q) = q
    BY <1>3 DEF Finished
  <2>2. Progress(q)
    BY <1>1, <1>2, <1>3 DEF Progress, PageFull
  <2> QED BY <2>1, <2>2, Continues
<1>4. CASE q.step = "hits" /\ q.todo = {} /\ ~PageFull(q)
  <2>1. Finished(q) = Answered(q, "ok")
    BY <1>4 DEF Finished, Cut, PageFull
  <2>2. \A id \in q.steady : Found(q, id)
    BY <1>4 DEF Held
  <2>3. Cardinality(q.out) <= Limit
    BY <1>1, <1>2, <1>4 DEF PageFull
  <2> QED BY <1>1, <2>1, <2>2, <2>3, AnsweredFits
<1>5. CASE q.step = "hits" /\ PageFull(q)
  <2> DEFINE last == CHOOSE p \in q.out : \A o \in q.out : o[1] <= p[1]
             u == [q EXCEPT !.out = @ \ {last}, !.truncated = TRUE]
  <2>1. Finished(q) = Answered(u, "ok")
    BY <1>5 DEF Finished, Cut, PageFull
  <2>2. Cardinality(q.out) = Limit + 1
    BY <1>1, <1>2, <1>5 DEF PageFull
  <2>3. q.out # {}
    BY <1>1, <1>2, <2>2, FS_EmptySet
  <2>4. q.out \in SUBSET (Pages \X Fact)
    BY DEF Request
  <2>5. last \in q.out
    BY <1>1, <2>3, <2>4, LastIsThere
  <2> HIDE DEF last
  <2>6. Cardinality(q.out \ {last}) = Limit
    <3>1. Cardinality(q.out \ {last}) = IF last \in q.out THEN Cardinality(q.out) - 1
                                        ELSE Cardinality(q.out)
      BY <1>1, FS_RemoveElement
    <3> QED BY <1>2, <2>2, <2>5, <3>1
  <2> DEFINE v == Answered(u, "ok")
  <2>7. v \in Request
    BY <2>4, ZenonT(40) DEF Request, Answered, Steps, Codes
  <2>8. /\ v.step = "done" /\ v.code = "ok" /\ v.out = q.out \ {last} /\ v.truncated
        /\ v.late = q.late /\ v.genuine = q.genuine /\ v.seen = q.seen
    BY DEF Request, Answered
  <2> HIDE DEF v, u
  <2>9. AnswerFits(v, doomed)
    BY <1>1, <2>6, <2>7, <2>8 DEF AnswerFits
  <2> QED BY <2>1, <2>7, <2>8, <2>9 DEF GoesOn, v
<1>6. CASE q.step = "load" /\ q.todo = {}
  <2>1. Finished(q) = Gathered(q)
    BY <1>6 DEF Finished
  <2>2. \A id \in q.steady : Found(q, id)
    BY <1>6 DEF Held
  <2> QED BY <1>6, <2>1, <2>2, GatheredFits
<1>7. CASE q.step = "links" /\ q.todo = {}
  <2>1. Finished(q) = Answered(q, "ok")
    BY <1>7 DEF Finished
  <2> QED BY <1>1, <1>7, <2>1, AnsweredFits
<1> QED BY <1>3, <1>4, <1>5, <1>6, <1>7

\* What is known of a request that has been identified.
LEMMA OfRequest ==
    ASSUME IInv, NEW r \in Requests, request[r].step \notin {"idle", "resolve"}
    PROVE  /\ request[r] \in Request /\ Open(request[r], facts, index, minted)
           /\ Progress(request[r]) /\ (request[r].genuine => request[r].auth \in issued)
           /\ ~request[r].late /\ request[r].step # "done"
BY DEF IInv, RequestsFit, RequestFits, Running, Open

LEMMA SearchStep ==
    ASSUME IInv, NEW r \in Requests, Search(r)
    PROVE  IInv'
<1> DEFINE q == request[r]
           u == [q EXCEPT !.step = "hits", !.todo = index]
<1>1. /\ q \in Request /\ Open(q, facts, index, minted) /\ Progress(q) /\ ~q.late
      /\ (q.genuine => q.auth \in issued) /\ q.step = "search"
  BY OfRequest DEF Search
<1>2. /\ Proceed(r, IF index = {} THEN Answered(q, "ok") ELSE u)
      /\ UNCHANGED <<disk, memory, edit, open, admin, owner>>
  BY DEF Search
<1> HIDE DEF q
<1>3. q.call = "search_knowledge" /\ q.out = {} /\ index \subseteq Pages
  BY <1>1 DEF Progress, IInv, StoreFits
<1>4. \A id \in q.steady : id \in index
  BY <1>1, <1>3 DEF Open, Stays
<1>5. Cardinality(q.out) <= Limit
  BY <1>3, FS_EmptySet, SharingAssumption
<1>6. CASE index = {}
  <2>1. Answered(q, "ok") \in Request /\ GoesOn(Answered(q, "ok"))
    BY <1>1, <1>3, <1>4, <1>5, <1>6, AnsweredFits
  <2> QED BY <1>2, <1>6, <2>1, ProceedStep
<1>7. CASE index # {}
  <2>1. u \in Request
    BY <1>1, <1>3 DEF Request, Steps
  <2>2. /\ u.step = "hits" /\ u.shared = q.shared /\ u.auth = q.auth /\ u.loopback = q.loopback
        /\ u.call = q.call /\ u.arg = q.arg /\ u.owner = q.owner /\ u.granted = q.granted
        /\ u.todo = index /\ u.out = q.out /\ u.truncated = q.truncated /\ u.late = q.late
        /\ u.genuine = q.genuine /\ u.seen = q.seen /\ u.steady = q.steady
    BY <1>1 DEF Request
  <2>3. Proceed(r, u)
    BY <1>2, <1>7
  <2> HIDE DEF u
  <2>4. Open(u, facts, index, minted)
    BY <1>1, <2>2 DEF Open, Knows, Sees, Stays, CanAccess, Wanted
  <2>5. Progress(u)
    BY <1>3, <1>4, <1>5, <1>7, <2>2 DEF Progress, Held
  <2>6. GoesOn(u)
    BY <1>1, <2>1, <2>2, <2>4, <2>5, Continues
  <2> QED BY <1>2, <2>1, <2>3, <2>6, ProceedStep
<1> QED BY <1>6, <1>7

LEMMA ListPagesStep ==
    ASSUME IInv, NEW r \in Requests, ListPages(r)
    PROVE  IInv'
<1> DEFINE q == request[r]
           found == {id \in Pages : facts[id] # Absent}
           u == [q EXCEPT !.step = "load", !.todo = found]
<1>1. /\ q \in Request /\ Open(q, facts, index, minted) /\ Progress(q) /\ ~q.late
      /\ (q.genuine => q.auth \in issued) /\ q.step = "list"
  BY OfRequest DEF ListPages
<1>2. /\ Proceed(r, IF found = {} THEN Gathered(q) ELSE u)
      /\ UNCHANGED <<disk, memory, edit, open, admin, owner>>
  BY DEF ListPages
<1> HIDE DEF q
<1>3. Scanning(q) /\ q.out = {}
  BY <1>1 DEF Progress
<1>4. \A id \in q.steady : id \in found
  BY <1>1, SharingAssumption DEF Open, Stays, Request
<1>5. found \in SUBSET Pages
  OBVIOUS
<1> HIDE DEF found
<1>6. CASE found = {}
  <2>1. Gathered(q) \in Request /\ GoesOn(Gathered(q))
    BY <1>1, <1>3, <1>4, <1>6, GatheredFits
  <2> QED BY <1>2, <1>6, <2>1, ProceedStep
<1>7. CASE found # {}
  <2>1. u \in Request
    BY <1>1, <1>5 DEF Request, Steps
  <2>2. /\ u.step = "load" /\ u.shared = q.shared /\ u.auth = q.auth /\ u.loopback = q.loopback
        /\ u.call = q.call /\ u.arg = q.arg /\ u.owner = q.owner /\ u.granted = q.granted
        /\ u.todo = found /\ u.out = q.out /\ u.truncated = q.truncated /\ u.late = q.late
        /\ u.genuine = q.genuine /\ u.seen = q.seen /\ u.steady = q.steady
    BY <1>1 DEF Request
  <2>3. Proceed(r, u)
    BY <1>2, <1>7
  <2> HIDE DEF u
  <2>4. Open(u, facts, index, minted)
    BY <1>1, <2>2 DEF Open, Knows, Sees, Stays, CanAccess, Wanted
  <2>5. Progress(u)
    BY <1>3, <1>4, <1>7, <2>2 DEF Progress, Held, Scanning
  <2>6. GoesOn(u)
    BY <1>1, <2>1, <2>2, <2>4, <2>5, Continues
  <2> QED BY <1>2, <2>1, <2>3, <2>6, ProceedStep
<1> QED BY <1>6, <1>7

\* get_page: the page itself is read, then the pages behind its links.
LEMMA OpenedFits ==
    ASSUME IInv, NEW q \in Request, Open(q, facts, index, minted), Progress(q),
           q.genuine => q.auth \in issued, q.step = "page", facts[q.arg] # Torn
    PROVE  Finished(Opened(q)) \in Request /\ GoesOn(Finished(Opened(q)))
<1>1. q.call = "get_page" /\ q.arg \in Pages /\ q.out = {} /\ ~q.late
  BY DEF Progress, Open
<1>2. facts[q.arg] \in Fact \cup {Absent}
  BY <1>1 DEF IInv, StoreFits
<1>3. \A id \in q.steady : id = q.arg /\ facts[q.arg] \in Fact /\ CanAccess(q, facts[q.arg])
  BY <1>1 DEF Open, Stays
<1>4. CASE facts[q.arg] = Absent \/ ~CanAccess(q, facts[q.arg])
  <2>1. q.steady = {}
    BY <1>3, <1>4, SharingAssumption
  <2>2. Failed(q, "not_found") \in Request /\ GoesOn(Failed(q, "not_found"))
    BY <1>1, <2>1, FailedFits DEF Codes
  <2>3. Opened(q) = Failed(q, "not_found")
    BY <1>4 DEF Opened
  <2>4. Failed(q, "not_found").step = "done"
    BY DEF Failed, Answered, Request
  <2>5. Finished(Failed(q, "not_found")) = Failed(q, "not_found")
    BY <2>4 DEF Finished
  <2> QED BY <2>2, <2>3, <2>5
<1>5. CASE ~(facts[q.arg] = Absent \/ ~CanAccess(q, facts[q.arg]))
  <2> DEFINE c == Collect(q, q.arg)
             u == [c EXCEPT !.step = "links", !.todo = Links[q.arg]]
  <2>1. /\ c \in Request /\ Open(c, facts, index, minted) /\ c.call = q.call /\ c.arg = q.arg
        /\ c.auth = q.auth /\ c.genuine = q.genuine /\ c.steady = q.steady
        /\ \A x \in q.steady : Found(c, x)
    <3>1. \A x \in q.steady : x = q.arg
      BY <1>3
    <3> QED BY <1>1, <3>1, CollectFits
  <2>2. Opened(q) = u
    BY <1>5 DEF Opened
  <2>3. Links[q.arg] \in SUBSET Pages
    BY <1>1, SharingAssumption
  <2> HIDE DEF c
  <2>4. u \in Request
    BY <2>1, <2>3 DEF Request, Steps
  <2>5. /\ u.step = "links" /\ u.shared = c.shared /\ u.auth = c.auth /\ u.loopback = c.loopback
        /\ u.call = c.call /\ u.arg = c.arg /\ u.owner = c.owner /\ u.granted = c.granted
        /\ u.out = c.out /\ u.truncated = c.truncated /\ u.late = c.late
        /\ u.genuine = c.genuine /\ u.seen = c.seen /\ u.steady = c.steady
    BY <2>1 DEF Request
  <2> HIDE DEF u
  <2>6. Open(u, facts, index, minted)
    BY <2>1, <2>5 DEF Open, Knows, Sees, Stays, CanAccess, Wanted
  <2>7. \A x \in u.steady : Found(u, x)
    BY <2>1, <2>5 DEF Found, Wanted
  <2>8. Finished(u) \in Request /\ GoesOn(Finished(u))
    BY <1>1, <2>1, <2>4, <2>5, <2>6, <2>7, FinishedFits
  <2> QED BY <2>2, <2>8
<1> QED BY <1>4, <1>5

LEMMA ReadStep ==
    ASSUME IInv, NEW r \in Requests, Read(r)
    PROVE  IInv'
<1> DEFINE q == request[r]
<1>1. PICK id \in Reading(q) :
          /\ facts[id] # Torn
          /\ Proceed(r, Finished(IF q.step = "page" THEN Opened(q) ELSE Collect(q, id)))
  BY DEF Read
<1>2. q.step \in {"page", "load", "hits", "links"}
  BY <1>1 DEF Reading
<1>3. /\ q \in Request /\ Open(q, facts, index, minted) /\ Progress(q) /\ ~q.late
      /\ (q.genuine => q.auth \in issued)
  BY <1>2, OfRequest
<1>4. UNCHANGED <<disk, memory, edit, open, admin, owner>>
  BY DEF Read
<1> HIDE DEF q
<1>5. CASE q.step = "page"
  <2>1. id = q.arg
    BY <1>1, <1>5 DEF Reading
  <2>2. Finished(Opened(q)) \in Request /\ GoesOn(Finished(Opened(q)))
    BY <1>1, <1>3, <1>5, <2>1, OpenedFits
  <2> QED BY <1>1, <1>4, <1>5, <2>2, ProceedStep
<1>6. CASE q.step \in {"load", "hits", "links"}
  <2> DEFINE u == Collect(q, id)
  <2>1. q.todo \in SUBSET Pages /\ q.todo # {}
    BY <1>3, <1>6 DEF Progress, Request
  <2>2. id \in Pages
    BY <1>1, <1>6, <2>1, FirstIsThere DEF Reading
  <2>3. /\ u \in Request /\ Open(u, facts, index, minted) /\ u.step = q.step /\ u.call = q.call
        /\ u.arg = q.arg /\ u.auth = q.auth /\ u.genuine = q.genuine /\ u.steady = q.steady
        /\ u.todo = q.todo \ {id} /\ Cardinality(u.out) <= Cardinality(q.out) + 1
        /\ \A x \in q.steady : x = id \/ Found(q, x) => Found(u, x)
    BY <1>3, <2>2, CollectFits
  <2> HIDE DEF u
  <2>4. Cardinality(q.out) \in Nat /\ Cardinality(u.out) \in Nat /\ Limit \in Nat
    BY <1>3, <2>3, FS_CardinalityType, SharingAssumption DEF Open
  <2>5. q.step = "hits" => u.call = "search_knowledge" /\ Held(u)
                           /\ Cardinality(u.out) <= Limit + 1
    BY <1>3, <2>3, <2>4 DEF Progress, Held
  <2>6. q.step = "load" => Scanning(u) /\ Held(u)
    BY <1>3, <2>3 DEF Progress, Held, Scanning
  <2>7. q.step = "links" => u.call = "get_page" /\ \A x \in u.steady : Found(u, x)
    BY <1>3, <2>3 DEF Progress
  <2>8. Finished(u) \in Request /\ GoesOn(Finished(u))
    BY <1>3, <1>6, <2>3, <2>5, <2>6, <2>7, FinishedFits
  <2>9. Proceed(r, Finished(u))
    BY <1>1, <1>6 DEF u
  <2> QED BY <1>4, <2>8, <2>9, ProceedStep
<1> QED BY <1>2, <1>5, <1>6

LEMMA ReadFailsStep ==
    ASSUME IInv, NEW r \in Requests, ReadFails(r)
    PROVE  IInv'
<1> DEFINE q == request[r]
           code == IF open THEN "unavailable" ELSE "locked"
<1>1. q.step \in {"page", "load", "hits", "links", "list", "search"}
  BY DEF ReadFails, Reading
<1>2. q \in Request /\ ~q.late
  BY <1>1, OfRequest
<1>3. Proceed(r, Failed(q, code)) /\ UNCHANGED <<disk, memory, edit, open, admin, owner>>
  BY DEF ReadFails
<1>4. code \in Codes \ {"ok", "not_found", "unauthorized"}
  BY DEF Codes
<1> HIDE DEF q, code
<1>5. Failed(q, code) \in Request /\ GoesOn(Failed(q, code))
  BY <1>2, <1>4, FailedFits
<1> QED BY <1>3, <1>5, ProceedStep

-----------------------------------------------------------------------------
(* The owner's commands: one of them moves.                                *)

LEMMA IdleCommandFits ==
    ASSUME NEW store, NEW owners, NEW known, NEW revoked, NEW buried
    PROVE  IdleAdmin \in Commands /\ IdleAdmin.step = "idle"
           /\ CommandFits(IdleAdmin, store, owners, known, revoked, buried)
BY DEF IdleAdmin, Commands, CommandFits

\* A record may become unreadable or revoked under a command, and secrets of other commands
\* may be issued.
LEMMA CommandKeeps ==
    ASSUME NEW c, NEW store, NEW owners, NEW known, NEW revoked, NEW buried,
           NEW store2, NEW owners2, NEW known2, NEW revoked2, NEW buried2,
           CommandFits(c, store, owners, known, revoked, buried),
           \A s \in known : \/ store2[s] = store[s] \/ store2[s] = Torn
                            \/ /\ store2[s] \in TokenRecord /\ store2[s].revoked
                               /\ s \in revoked2,
           \A s \in Secrets : store[s] # Absent => store2[s] # Absent,
           \A s \in Secrets : owners[s] \in Grant => owners2[s] = owners[s],
           known \subseteq known2, revoked \subseteq revoked2, buried \subseteq buried2,
           c.step = "put" /\ c.op = "issue" => c.key \notin known2
    PROVE  CommandFits(c, store2, owners2, known2, revoked2, buried2)
<1>1. c \in Commands /\ (c.step = "scan" => c.op \in {"revoke", "list"})
  BY DEF CommandFits
<1>2. ASSUME c.step \in {"put", "flip"} PROVE Writing(c, owners2, known2, revoked2)
  BY <1>2 DEF CommandFits, Writing, Says
<1>3. ASSUME c.op = "revoke" PROVE Revoking(c, store2, owners2, known2, revoked2)
  <2>1. Revoking(c, store, owners, known, revoked)
    BY <1>3 DEF CommandFits
  <2>2. c.todo \subseteq Secrets /\ c.targets \subseteq Secrets
    BY <1>1 DEF Commands
  <2> QED BY <2>1, <2>2 DEF Revoking, Barred
<1>4. ASSUME c.op = "list" PROVE Listing(c, store2, known2, revoked2, buried2)
  <2>1. Listing(c, store, known, revoked, buried)
    BY <1>4 DEF CommandFits
  <2> QED BY <2>1 DEF Listing
<1>5. \A s \in c.todo : store2[s] # Absent
  BY DEF CommandFits, Commands
<1> QED BY <1>1, <1>2, <1>3, <1>4, <1>5 DEF CommandFits

LEMMA CommandStep ==
    ASSUME IInv, NEW a \in Admins, NEW c \in Commands, admin' = [admin EXCEPT ![a] = c],
           UNCHANGED <<facts, memory, edit, open, request>>, answer' = None,
           TokensFit',
           \A s \in issued : \/ tokens'[s] = tokens[s] \/ tokens'[s] = Torn
                             \/ /\ tokens'[s] \in TokenRecord /\ tokens'[s].revoked
                                /\ s \in doomed',
           \A s \in Secrets : tokens[s] # Absent => tokens'[s] # Absent,
           \A s \in Secrets : minted[s] \in Grant => minted'[s] = minted[s],
           issued \subseteq issued', doomed \subseteq doomed', dead \subseteq dead',
           \A b \in Admins \ {a} : admin[b].step = "put" /\ admin[b].op = "issue"
                                     => admin[b].key \notin issued',
           CommandFits(c, tokens', minted', issued', doomed', dead'),
           c.step = "put" /\ c.op = "issue" =>
               \A b \in Admins \ {a} : admin[b].step = "put" /\ admin[b].op = "issue"
                                         => admin[b].key # c.key
    PROVE  IInv'
<1>1. UNCHANGED <<facts, index, built, edit, open, request>>
  BY DEF memory
<1>2. StoreFits' /\ EditFits'
  BY <1>1 DEF IInv, StoreFits, EditFits
<1>3. RequestsFit'
  BY <1>1, RequestsUndisturbed DEF IInv
<1>4. AnswerIsFit'
  BY DEF AnswerIsFit
<1>5. admin \in [Admins -> Commands]
  BY DEF IInv, CommandsFit
<1>6. \A b \in Admins : admin'[b] = IF b = a THEN c ELSE admin[b]
  BY <1>5
<1>7. CommandsFit'
  <2>1. \A b \in Admins : CommandFits(admin'[b], tokens', minted', issued', doomed', dead')
    <3> SUFFICES ASSUME NEW b \in Admins
                 PROVE  CommandFits(admin'[b], tokens', minted', issued', doomed', dead')
      OBVIOUS
    <3>1. CASE b = a
      BY <1>6, <3>1
    <3>2. CASE b # a
      <4> DEFINE d == admin[b]
      <4>1. CommandFits(d, tokens, minted, issued, doomed, dead)
        BY DEF IInv, CommandsFit
      <4>2. d.step = "put" /\ d.op = "issue" => d.key \notin issued'
        BY <3>2
      <4>3. admin'[b] = d
        BY <1>6, <3>2
      <4> HIDE DEF d
      <4>4. CommandFits(d, tokens', minted', issued', doomed', dead')
        BY <4>1, <4>2, CommandKeeps
      <4> QED BY <4>3, <4>4
    <3> QED BY <3>1, <3>2
  <2>2. admin' \in [Admins -> Commands]
    BY <1>5
  <2> QED BY <2>1, <2>2 DEF CommandsFit
<1>8. Apart'
  BY <1>6 DEF IInv, Apart
<1> QED BY <1>2, <1>3, <1>4, <1>7, <1>8 DEF IInv

\* A command that only reads, or ends, leaves the tokens alone.
LEMMA ReadingCommand ==
    ASSUME IInv, NEW a \in Admins, NEW c \in Commands, admin' = [admin EXCEPT ![a] = c],
           UNCHANGED <<disk, memory, edit, open, request, minted, issued>>, answer' = None,
           doomed' \subseteq Secrets, doomed \subseteq doomed',
           dead \subseteq dead', dead' \subseteq issued, dead' \subseteq doomed',
           \A s \in dead' : Barred(tokens[s]),
           CommandFits(c, tokens, minted, issued, doomed', dead'),
           c.step # "put"
    PROVE  IInv'
<1>1. UNCHANGED <<facts, tokens>>
  BY DEF disk
<1>2. TokensFit'
  BY <1>1 DEF IInv, TokensFit
<1>3. \A b \in Admins : admin[b].step = "put" /\ admin[b].op = "issue" => admin[b].key \notin issued
  BY DEF IInv, CommandsFit, CommandFits, Writing
<1>4. \A s \in issued : tokens'[s] = tokens[s]
  BY <1>1
<1>5. \A s \in Secrets : minted[s] \in Grant => minted'[s] = minted[s]
  OBVIOUS
<1>6. CommandFits(c, tokens', minted', issued', doomed', dead')
  BY <1>1
<1>7. UNCHANGED <<facts, memory, edit, open, request>> /\ issued' = issued
  BY <1>1
<1>8. \A s \in Secrets : tokens[s] # Absent => tokens'[s] # Absent
  BY <1>1
<1> QED BY <1>2, <1>3, <1>4, <1>5, <1>6, <1>7, <1>8, CommandStep

LEMMA OfTokens ==
    ASSUME IInv
    PROVE  /\ tokens \in [Secrets -> TokenRecord \cup {Absent, Torn}]
           /\ minted \in [Secrets -> Grant \cup {Absent}]
           /\ dead \subseteq issued /\ dead \subseteq doomed /\ issued \subseteq Secrets
           /\ doomed \subseteq Secrets
           /\ \A s \in dead : Barred(tokens[s])
           /\ Absent # Torn /\ Absent \notin TokenRecord /\ Torn \notin TokenRecord
           /\ Absent \notin Grant
BY SharingAssumption DEF IInv, TokensFit

LEMMA OfCommand ==
    ASSUME IInv, NEW a \in Admins
    PROVE  /\ admin \in [Admins -> Commands] /\ admin[a] \in Commands
           /\ CommandFits(admin[a], tokens, minted, issued, doomed, dead)
BY DEF IInv, CommandsFit

LEMMA BeginIssueStep ==
    ASSUME IInv, NEW a \in Admins, BeginIssue(a), answer' = None
    PROVE  IInv'
<1>1. PICK s \in Secrets, l \in Labels, g \in Grantings :
        /\ minted[s] = Absent
        /\ minted' = [minted EXCEPT ![s] = [label |-> l, granted |-> g]]
        /\ tokens' = [tokens EXCEPT ![s] = Torn]
        /\ admin' = [admin EXCEPT ![a] =
               [IdleAdmin EXCEPT !.step = "put", !.op = "issue", !.label = l, !.key = s,
                    !.record = [label |-> l, granted |-> g, revoked |-> FALSE]]]
  BY DEF BeginIssue
<1>2. UNCHANGED <<facts, memory, edit, open, request, issued, doomed, dead>>
  BY DEF BeginIssue
<1> DEFINE c == [IdleAdmin EXCEPT !.step = "put", !.op = "issue", !.label = l, !.key = s,
                     !.record = [label |-> l, granted |-> g, revoked |-> FALSE]]
           grant == [label |-> l, granted |-> g]
<1>3. g \in SUBSET Categories
  BY SharingAssumption
<1>4. grant \in Grant /\ grant.label = l /\ grant.granted = g
  BY <1>3 DEF Grant
<1>5. c \in Commands
  BY <1>3 DEF Commands, IdleAdmin, TokenRecord
<1>6. /\ c.step = "put" /\ c.op = "issue" /\ c.key = s /\ c.todo = {}
      /\ c.record \in TokenRecord /\ ~c.record.revoked /\ c.record.label = l
      /\ c.record.granted = g
  BY <1>3 DEF IdleAdmin, TokenRecord
<1>7. /\ admin' = [admin EXCEPT ![a] = c] /\ minted' = [minted EXCEPT ![s] = grant]
      /\ tokens' = [tokens EXCEPT ![s] = Torn] /\ minted[s] = Absent
  BY <1>1
<1> HIDE DEF c, grant
<1>8. s \notin issued /\ s \notin dead
  BY <1>7 DEF IInv, TokensFit
<1>9. minted'[s] = grant /\ tokens'[s] = Torn
      /\ \A t \in Secrets \ {s} : minted'[t] = minted[t] /\ tokens'[t] = tokens[t]
  BY <1>7, OfCommand, OfTokens
<1>10. TokensFit'
  <2>1. tokens' \in [Secrets -> TokenRecord \cup {Absent, Torn}]
        /\ minted' \in [Secrets -> Grant \cup {Absent}]
    BY <1>4, <1>7, OfCommand, OfTokens
  <2>2. ASSUME NEW t \in Secrets
        PROVE  /\ tokens'[t] # Absent => minted'[t] # Absent
               /\ tokens'[t] \in TokenRecord => Says(tokens'[t], minted'[t])
               /\ tokens'[t] \in TokenRecord /\ tokens'[t].revoked => t \in doomed
    <3>1. CASE t = s
      BY <1>4, <1>9, <3>1, OfCommand, OfTokens
    <3>2. CASE t # s
      BY <1>9, <3>2 DEF IInv, TokensFit
    <3> QED BY <3>1, <3>2
  <2>3. \A t \in issued : tokens'[t] # Absent
    BY <1>9, OfCommand, OfTokens DEF IInv, TokensFit
  <2>4. \A t \in dead : Barred(tokens'[t])
    BY <1>9 DEF IInv, TokensFit, Barred
  <2> QED BY <1>2, <2>1, <2>2, <2>3, <2>4, OfCommand, OfTokens DEF TokensFit
<1>11. CommandFits(c, tokens', minted', issued', doomed', dead')
  <2>1. Writing(c, minted', issued', doomed')
    BY <1>2, <1>4, <1>6, <1>8, <1>9 DEF Writing, Says
  <2> QED BY <1>5, <1>6, <2>1 DEF CommandFits
<1>12. \A b \in Admins : admin[b].step = "put" /\ admin[b].op = "issue" =>
            admin[b].key \notin issued /\ admin[b].key # s
  BY <1>7, OfCommand, OfTokens DEF CommandFits, Writing, Says
<1>13. \A t \in issued : tokens'[t] = tokens[t]
  BY <1>8, <1>9, OfCommand, OfTokens
<1>14. \A t \in Secrets : minted[t] \in Grant => minted'[t] = minted[t]
  BY <1>7, <1>9, OfCommand, OfTokens
<1>15. \A t \in Secrets : tokens[t] # Absent => tokens'[t] # Absent
  BY <1>9, OfCommand, OfTokens
<1> QED BY <1>2, <1>5, <1>6, <1>7, <1>10, <1>11, <1>12, <1>13, <1>14, <1>15, CommandStep

LEMMA BeginScanStep ==
    ASSUME IInv, NEW a \in Admins, BeginScan(a), answer' = None
    PROVE  IInv'
<1> DEFINE ofLabel(l) == {s \in Secrets : minted[s] # Absent /\ minted[s].label = l}
<1>1. PICK op \in {"revoke", "list"}, l \in Labels :
        /\ admin' = [admin EXCEPT ![a] =
               [IdleAdmin EXCEPT !.step = "scan", !.op = op, !.label = l,
                    !.todo = {s \in Secrets : tokens[s] # Absent},
                    !.targets = IF op = "revoke" THEN issued \cap ofLabel(l)
                                                 ELSE issued \ doomed,
                    !.gone = dead]]
        /\ doomed' = IF op = "revoke" THEN doomed \cup ofLabel(l) ELSE doomed
  BY DEF BeginScan
<1>2. UNCHANGED <<disk, memory, edit, open, request, minted, issued, dead>>
  BY DEF BeginScan
<1> DEFINE c == [IdleAdmin EXCEPT !.step = "scan", !.op = op, !.label = l,
                     !.todo = {s \in Secrets : tokens[s] # Absent},
                     !.targets = IF op = "revoke" THEN issued \cap ofLabel(l)
                                                  ELSE issued \ doomed,
                     !.gone = dead]
<1>3. c \in Commands
  BY OfCommand, OfTokens DEF Commands, IdleAdmin
<1>4. /\ c.step = "scan" /\ c.op = op /\ c.label = l
      /\ c.todo = {s \in Secrets : tokens[s] # Absent}
      /\ c.targets = IF op = "revoke" THEN issued \cap ofLabel(l) ELSE issued \ doomed
      /\ c.gone = dead /\ c.shown = {}
  BY DEF IdleAdmin
<1>5. admin' = [admin EXCEPT ![a] = c]
  BY <1>1
<1> HIDE DEF c
<1>6. doomed' \subseteq Secrets /\ doomed \subseteq doomed' /\ dead \subseteq doomed'
  BY <1>1, OfCommand, OfTokens
<1>7. \A s \in issued : tokens[s] # Absent
  BY DEF IInv, TokensFit
<1>8. \A s \in Secrets : tokens[s] # Absent => minted[s] \in Grant
  BY OfCommand, OfTokens DEF IInv, TokensFit
<1>9. CASE op = "revoke"
  <2>1. Revoking(c, tokens, minted, issued, doomed')
    BY <1>1, <1>4, <1>7, <1>8, <1>9, OfCommand, OfTokens DEF Revoking
  <2>2. CommandFits(c, tokens, minted, issued, doomed', dead')
    BY <1>2, <1>3, <1>4, <1>9, <2>1 DEF CommandFits
  <2> QED BY <1>2, <1>3, <1>4, <1>5, <1>6, <2>2, OfCommand, OfTokens, ReadingCommand
<1>10. CASE op = "list"
  <2>1. Listing(c, tokens, issued, doomed', dead')
    BY <1>2, <1>4, <1>7, <1>10, OfCommand, OfTokens DEF Listing
  <2>2. CommandFits(c, tokens, minted, issued, doomed', dead')
    BY <1>3, <1>4, <1>10, <2>1 DEF CommandFits
  <2> QED BY <1>2, <1>3, <1>4, <1>5, <1>6, <2>2, OfCommand, OfTokens, ReadingCommand
<1> QED BY <1>9, <1>10

LEMMA ScanRecordStep ==
    ASSUME IInv, NEW a \in Admins, ScanRecord(a), answer' = None
    PROVE  IInv'
<1> DEFINE t == admin[a]
<1>1. t.step = "scan" /\ UNCHANGED <<disk, memory, edit, open, request, owner, bounds>>
  BY DEF ScanRecord
<1>2. UNCHANGED <<disk, memory, edit, open, request, minted, issued, doomed, dead>>
  BY <1>1 DEF owner
<1>3. PICK s \in t.todo :
          \/ tokens[s] = Torn /\ Skip(a, s)
          \/ /\ tokens[s] # Torn /\ t.op = "revoke"
             /\ \/ (tokens[s].label # t.label \/ tokens[s].revoked) /\ Skip(a, s)
                \/ /\ tokens[s].label = t.label /\ ~tokens[s].revoked
                   /\ admin' = [admin EXCEPT ![a].todo = @ \ {s}, ![a].key = s,
                          ![a].step = "flip",
                          ![a].record = [tokens[s] EXCEPT !.revoked = TRUE]]
          \/ /\ tokens[s] # Torn /\ t.op = "list"
             /\ admin' = [admin EXCEPT ![a].todo = @ \ {s},
                    ![a].shown = IF tokens[s].revoked THEN @ ELSE @ \cup {s}]
  BY DEF ScanRecord
<1>4. t \in Commands /\ CommandFits(t, tokens, minted, issued, doomed, dead)
  BY OfCommand, OfTokens
<1>5. s \in Secrets
  BY <1>4 DEF Commands
<1>6. CASE (tokens[s] = Torn \/ (t.op = "revoke" /\ (tokens[s].label # t.label \/ tokens[s].revoked)))
           /\ Skip(a, s)
  <2> DEFINE c == [t EXCEPT !.todo = @ \ {s}]
  <2>1. admin' = [admin EXCEPT ![a] = c]
    BY <1>6, OfCommand, OfTokens DEF Skip
  <2>2. c \in Commands
    BY <1>4 DEF Commands
  <2>3. /\ c.step = "scan" /\ c.op = t.op /\ c.label = t.label /\ c.todo = t.todo \ {s}
        /\ c.targets = t.targets /\ c.gone = t.gone /\ c.shown = t.shown
    BY <1>1, <1>4 DEF Commands
  <2> HIDE DEF c, t
  <2>4. t.op = "revoke" => Revoking(c, tokens, minted, issued, doomed)
    <3> SUFFICES ASSUME t.op = "revoke" PROVE Revoking(c, tokens, minted, issued, doomed)
      OBVIOUS
    <3>1. Revoking(t, tokens, minted, issued, doomed)
      BY <1>4 DEF CommandFits
    <3>2. s \in t.targets => Barred(tokens[s])
      <4> SUFFICES ASSUME s \in t.targets PROVE Barred(tokens[s])
        OBVIOUS
      <4>1. tokens[s] # Absent
        BY <3>1 DEF Revoking, IInv, TokensFit
      <4>2. CASE tokens[s] = Torn
        BY <4>2 DEF Barred
      <4>3. CASE tokens[s] # Torn
        <5>1. tokens[s] \in TokenRecord
          BY <1>5, <4>1, <4>3, OfCommand, OfTokens
        <5>2. tokens[s].label = t.label
          BY <1>5, <3>1, <5>1 DEF Revoking, IInv, TokensFit, Says
        <5> QED BY <1>6, <4>3, <5>1, <5>2 DEF Barred
      <4> QED BY <4>2, <4>3
    <3> QED BY <1>1, <2>3, <3>1, <3>2 DEF Revoking
  <2>5. t.op = "list" => Listing(c, tokens, issued, doomed, dead)
    BY <1>4, <1>6, <2>3 DEF CommandFits, Listing
  <2>6. CommandFits(c, tokens, minted, issued, doomed', dead')
    BY <1>1, <1>2, <1>4, <2>2, <2>3, <2>4, <2>5 DEF CommandFits, t
  <2> QED BY <1>2, <2>1, <2>2, <2>3, <2>6, OfCommand, OfTokens, ReadingCommand
<1>7. CASE /\ tokens[s] # Torn /\ t.op = "revoke" /\ tokens[s].label = t.label /\ ~tokens[s].revoked
           /\ admin' = [admin EXCEPT ![a].todo = @ \ {s}, ![a].key = s, ![a].step = "flip",
                            ![a].record = [tokens[s] EXCEPT !.revoked = TRUE]]
  <2> DEFINE rec == [tokens[s] EXCEPT !.revoked = TRUE]
             c == [t EXCEPT !.todo = @ \ {s}, !.key = s, !.step = "flip", !.record = rec]
  <2>1. admin' = [admin EXCEPT ![a] = c]
    BY <1>7, OfCommand, OfTokens
  <2>2. Revoking(t, tokens, minted, issued, doomed)
    BY <1>4, <1>7 DEF CommandFits
  <2>3. minted[s] \in Grant
    BY <2>2 DEF Revoking
  <2>4. tokens[s] \in TokenRecord
    BY <1>4, <1>5, <1>7, OfCommand, OfTokens DEF CommandFits
  <2>5. rec \in TokenRecord /\ rec.revoked /\ rec.label = tokens[s].label
        /\ rec.granted = tokens[s].granted
    BY <2>4 DEF TokenRecord
  <2> HIDE DEF rec
  <2>6. c \in Commands
    BY <1>4, <1>5, <2>5 DEF Commands
  <2>7. /\ c.step = "flip" /\ c.op = "revoke" /\ c.label = t.label /\ c.todo = t.todo \ {s}
        /\ c.targets = t.targets /\ c.key = s /\ c.record = rec
    BY <1>4, <1>7 DEF Commands
  <2> HIDE DEF c, t
  <2>8. Says(tokens[s], minted[s])
    BY <1>5, <2>4 DEF IInv, TokensFit
  <2>9. Writing(c, minted, issued, doomed)
    BY <1>3, <1>5, <1>7, <2>2, <2>5, <2>7, <2>8 DEF Writing, Revoking, Says
  <2>10. Revoking(c, tokens, minted, issued, doomed)
    BY <1>1, <2>2, <2>7 DEF Revoking, t
  <2>11. \A x \in c.todo : tokens[x] # Absent
    BY <1>4, <2>7 DEF CommandFits
  <2>12. CommandFits(c, tokens, minted, issued, doomed', dead')
    BY <1>2, <2>6, <2>7, <2>9, <2>10, <2>11 DEF CommandFits
  <2> QED BY <1>2, <2>1, <2>6, <2>7, <2>12, OfCommand, OfTokens, ReadingCommand
<1>8. CASE /\ tokens[s] # Torn /\ t.op = "list"
           /\ admin' = [admin EXCEPT ![a].todo = @ \ {s},
                  ![a].shown = IF tokens[s].revoked THEN @ ELSE @ \cup {s}]
  <2> DEFINE more == IF tokens[s].revoked THEN t.shown ELSE t.shown \cup {s}
             c == [t EXCEPT !.todo = @ \ {s}, !.shown = more]
  <2>1. admin' = [admin EXCEPT ![a] = c]
    BY <1>8, OfCommand, OfTokens
  <2>2. Listing(t, tokens, issued, doomed, dead)
    BY <1>4, <1>8 DEF CommandFits
  <2>3. tokens[s] \in TokenRecord
    BY <1>4, <1>5, <1>8, OfCommand, OfTokens DEF CommandFits
  <2>4. tokens[s].revoked => s \in doomed
    BY <1>5, <2>3 DEF IInv, TokensFit
  <2>5. ~tokens[s].revoked => s \notin dead
    BY <1>8, <2>3 DEF IInv, TokensFit, Barred
  <2>6. more \in SUBSET Secrets /\ t.shown \subseteq more /\ more \subseteq t.shown \cup {s}
        /\ (tokens[s].revoked \/ s \in more) /\ (s \in more => s \in t.shown \/ s \notin dead)
    BY <1>4, <1>5, <2>5 DEF Commands
  <2> HIDE DEF more
  <2>7. c \in Commands
    BY <1>4, <2>6 DEF Commands
  <2>8. /\ c.step = "scan" /\ c.op = "list" /\ c.todo = t.todo \ {s} /\ c.targets = t.targets
        /\ c.shown = more /\ c.gone = t.gone
    BY <1>1, <1>4, <1>8 DEF Commands
  <2> HIDE DEF c, t
  <2>9. Listing(c, tokens, issued, doomed, dead)
    BY <2>2, <2>4, <2>6, <2>8 DEF Listing
  <2>10. \A x \in c.todo : tokens[x] # Absent
    BY <1>4, <2>8 DEF CommandFits
  <2>11. CommandFits(c, tokens, minted, issued, doomed', dead')
    BY <1>2, <2>7, <2>8, <2>9, <2>10 DEF CommandFits
  <2> QED BY <1>2, <2>1, <2>7, <2>8, <2>11, OfCommand, OfTokens, ReadingCommand
<1> QED BY <1>3, <1>6, <1>7, <1>8

LEMMA ScanMissesStep ==
    ASSUME IInv, NEW a \in Admins, ScanMisses(a), answer' = None
    PROVE  IInv'
<1> DEFINE t == admin[a]
<1>1. t.step = "scan" /\ UNCHANGED <<disk, memory, edit, open, request, owner>>
  BY DEF ScanMisses
<1>2. UNCHANGED <<disk, memory, edit, open, request, minted, issued, doomed, dead>>
  BY <1>1 DEF owner
<1>3. PICK s \in t.todo :
          admin' = [admin EXCEPT ![a].todo = @ \ {s}, ![a].targets = @ \ {s}]
  BY DEF ScanMisses
<1>4. t \in Commands /\ CommandFits(t, tokens, minted, issued, doomed, dead)
  BY OfCommand, OfTokens
<1> DEFINE c == [t EXCEPT !.todo = @ \ {s}, !.targets = @ \ {s}]
<1>5. admin' = [admin EXCEPT ![a] = c]
  BY <1>3, OfCommand, OfTokens
<1>6. c \in Commands
  BY <1>4 DEF Commands
<1>7. /\ c.step = "scan" /\ c.op = t.op /\ c.label = t.label /\ c.todo = t.todo \ {s}
      /\ c.targets = t.targets \ {s} /\ c.gone = t.gone /\ c.shown = t.shown
  BY <1>1, <1>4 DEF Commands
<1> HIDE DEF c, t
<1>8. t.op = "revoke" => Revoking(c, tokens, minted, issued, doomed)
  BY <1>1, <1>4, <1>7 DEF CommandFits, Revoking, t
<1>9. t.op = "list" => Listing(c, tokens, issued, doomed, dead)
  BY <1>4, <1>7 DEF CommandFits, Listing
<1>10. CommandFits(c, tokens, minted, issued, doomed', dead')
  BY <1>1, <1>2, <1>4, <1>6, <1>7, <1>8, <1>9 DEF CommandFits, t
<1> QED BY <1>2, <1>5, <1>6, <1>7, <1>10, OfCommand, OfTokens, ReadingCommand

LEMMA EndScanStep ==
    ASSUME IInv, NEW a \in Admins, EndScan(a), answer' = None
    PROVE  IInv'
<1> DEFINE t == admin[a]
<1>1. t.step = "scan" /\ t.todo = {} /\ admin' = [admin EXCEPT ![a] = IdleAdmin]
      /\ dead' = (IF t.op = "revoke" THEN dead \cup t.targets ELSE dead)
      /\ UNCHANGED <<disk, memory, edit, open, request, minted, issued, doomed, bounds>>
  BY DEF EndScan, Return
<1>2. CommandFits(t, tokens, minted, issued, doomed, dead)
  BY OfCommand, OfTokens
<1> HIDE DEF t
<1>3. t.op = "revoke" => \A s \in t.targets : s \in issued /\ s \in doomed /\ Barred(tokens[s])
  BY <1>1, <1>2 DEF CommandFits, Revoking
<1>4. /\ dead \subseteq dead' /\ dead' \subseteq issued /\ dead' \subseteq doomed
      /\ \A s \in dead' : Barred(tokens[s])
  BY <1>1, <1>3, OfCommand, OfTokens
<1> QED BY <1>1, <1>4, IdleCommandFits, OfCommand, OfTokens, ReadingCommand

LEMMA CommandFailsStep ==
    ASSUME IInv, NEW a \in Admins, CommandFails(a), answer' = None
    PROVE  IInv'
<1>1. /\ admin' = [admin EXCEPT ![a] = IdleAdmin]
      /\ UNCHANGED <<disk, memory, edit, open, request, owner>>
  BY DEF CommandFails, Return
<1>2. UNCHANGED <<disk, memory, edit, open, request, minted, issued, doomed, dead>>
  BY <1>1 DEF owner
<1> QED BY <1>1, <1>2, IdleCommandFits, OfCommand, OfTokens, ReadingCommand

\* One record changes: what the invariant asks of it.
LEMMA RecordFits ==
    ASSUME IInv, NEW k \in Secrets, NEW record \in TokenRecord \cup {Torn},
           tokens' = [tokens EXCEPT ![k] = record],
           UNCHANGED <<minted, doomed, dead>>, issued \subseteq issued',
           issued' \subseteq issued \cup {k}, minted[k] \in Grant,
           record \in TokenRecord => Says(record, minted[k])
                                     /\ (record.revoked => k \in doomed),
           k \in issued => Barred(record)
    PROVE  TokensFit'
<1>1. tokens'[k] = record /\ \A t \in Secrets \ {k} : tokens'[t] = tokens[t]
  BY OfTokens
<1>2. tokens' \in [Secrets -> TokenRecord \cup {Absent, Torn}]
  BY OfTokens
<1>3. record # Absent
  BY OfTokens
<1>4. ASSUME NEW t \in Secrets
      PROVE  /\ tokens'[t] # Absent => minted[t] # Absent
             /\ tokens'[t] \in TokenRecord => Says(tokens'[t], minted[t])
             /\ tokens'[t] \in TokenRecord /\ tokens'[t].revoked => t \in doomed
  <2>1. CASE t = k
    BY <1>1, <2>1, OfTokens
  <2>2. CASE t # k
    BY <1>1, <2>2 DEF IInv, TokensFit
  <2> QED BY <2>1, <2>2
<1>5. \A t \in issued' : tokens'[t] # Absent
  <2> SUFFICES ASSUME NEW t \in issued' PROVE tokens'[t] # Absent
    OBVIOUS
  <2>1. CASE t = k
    BY <1>1, <1>3, <2>1
  <2>2. CASE t # k
    BY <1>1, <2>2 DEF IInv, TokensFit
  <2> QED BY <2>1, <2>2
<1>6. \A t \in dead : Barred(tokens'[t])
  <2> SUFFICES ASSUME NEW t \in dead PROVE Barred(tokens'[t])
    OBVIOUS
  <2>1. CASE t = k
    BY <1>1, <2>1, OfTokens
  <2>2. CASE t # k
    BY <1>1, <2>2 DEF IInv, TokensFit
  <2> QED BY <2>1, <2>2
<1> QED BY <1>2, <1>4, <1>5, <1>6, OfTokens DEF TokensFit

LEMMA StartFlipStep ==
    ASSUME IInv, NEW a \in Admins, StartFlip(a), answer' = None
    PROVE  IInv'
<1> DEFINE t == admin[a]
           c == [t EXCEPT !.step = "put"]
<1>1. t.step = "flip" /\ tokens' = [tokens EXCEPT ![t.key] = Torn]
      /\ UNCHANGED <<facts, memory, edit, open, request, owner, bounds>>
  BY DEF StartFlip
<1>2. UNCHANGED <<facts, memory, edit, open, request, minted, issued, doomed, dead>>
  BY <1>1 DEF owner
<1>3. admin' = [admin EXCEPT ![a] = c]
  BY OfCommand, OfTokens DEF StartFlip
<1>4. t \in Commands /\ CommandFits(t, tokens, minted, issued, doomed, dead)
  BY OfCommand, OfTokens
<1>5. c \in Commands
  BY <1>4 DEF Commands
<1>6. /\ c.step = "put" /\ c.op = t.op /\ c.label = t.label /\ c.todo = t.todo /\ c.key = t.key
      /\ c.record = t.record /\ c.targets = t.targets /\ c.gone = t.gone /\ c.shown = t.shown
  BY <1>4 DEF Commands
<1> HIDE DEF c, t
<1>7. Writing(t, minted, issued, doomed)
  BY <1>1, <1>4 DEF CommandFits
<1>8. t.key \in Secrets /\ minted[t.key] \in Grant /\ t.op = "revoke"
  BY <1>1, <1>7 DEF Writing, Says
<1>9. TokensFit'
  BY <1>1, <1>2, <1>8, OfCommand, OfTokens, RecordFits DEF Barred
<1>10. /\ \A s \in Secrets : tokens'[s] = tokens[s] \/ tokens'[s] = Torn
       /\ \A s \in Secrets : tokens[s] # Absent => tokens'[s] # Absent
  BY <1>1, <1>8, OfCommand, OfTokens
<1>11. Revoking(t, tokens, minted, issued, doomed)
  BY <1>4, <1>8 DEF CommandFits
<1>12. Revoking(c, tokens', minted, issued, doomed)
  BY <1>1, <1>4, <1>6, <1>10, <1>11 DEF Revoking, Barred, Commands
<1>13. Writing(c, minted, issued, doomed)
  BY <1>6, <1>7, <1>8 DEF Writing
<1>14. \A s \in c.todo : tokens'[s] # Absent
  BY <1>4, <1>6, <1>10 DEF CommandFits, Commands
<1>15. CommandFits(c, tokens', minted', issued', doomed', dead')
  BY <1>2, <1>5, <1>6, <1>8, <1>12, <1>13, <1>14 DEF CommandFits
<1>16. \A b \in Admins : admin[b].step = "put" /\ admin[b].op = "issue" => admin[b].key \notin issued
  BY DEF IInv, CommandsFit, CommandFits, Writing
<1>17. \A s \in issued : tokens'[s] = tokens[s] \/ tokens'[s] = Torn
  BY <1>10, OfCommand, OfTokens
<1> QED BY <1>2, <1>3, <1>5, <1>6, <1>8, <1>9, <1>10, <1>15, <1>16, <1>17, OfCommand, OfTokens, CommandStep

LEMMA PutRecordStep ==
    ASSUME IInv, NEW a \in Admins, PutRecord(a), answer' = None
    PROVE  IInv'
<1> DEFINE t == admin[a]
           k == t.key
<1>1. t.step = "put" /\ tokens' = [tokens EXCEPT ![k] = t.record]
      /\ UNCHANGED <<facts, memory, edit, open, request, minted, doomed, dead>>
  BY DEF PutRecord
<1>2. t \in Commands /\ CommandFits(t, tokens, minted, issued, doomed, dead)
  BY OfCommand, OfTokens
<1>3. Writing(t, minted, issued, doomed)
  BY <1>1, <1>2 DEF CommandFits
<1>4. k \in Secrets /\ t.record \in TokenRecord /\ Says(t.record, minted[k]) /\ minted[k] \in Grant
  BY <1>3 DEF Writing, Says
<1>5. /\ tokens'[k] = t.record /\ \A s \in Secrets \ {k} : tokens'[s] = tokens[s]
      /\ \A s \in Secrets : tokens[s] # Absent => tokens'[s] # Absent
  BY <1>1, <1>4, OfCommand, OfTokens
<1>6. \A b \in Admins : admin[b].step = "put" /\ admin[b].op = "issue" =>
          admin[b].key \notin issued
  BY DEF IInv, CommandsFit, CommandFits, Writing
<1>7. CASE t.op = "issue"
  <2>1. admin' = [admin EXCEPT ![a] = IdleAdmin] /\ issued' = issued \cup {k}
    BY <1>7 DEF PutRecord, Return
  <2>2. k \notin issued /\ ~t.record.revoked
    BY <1>3, <1>7 DEF Writing
  <2>3. TokensFit'
    BY <1>1, <1>4, <2>1, <2>2, OfCommand, OfTokens, RecordFits
  <2>4. \A b \in Admins \ {a} : admin[b].step = "put" /\ admin[b].op = "issue" =>
            admin[b].key \notin issued'
    BY <1>1, <1>6, <1>7, <2>1 DEF IInv, Apart
  <2>5. \A s \in issued : tokens'[s] = tokens[s]
    BY <1>5, <2>2, OfCommand, OfTokens
  <2>6. \A s \in Secrets : minted[s] \in Grant => minted'[s] = minted[s]
    BY <1>1
  <2>7. issued \subseteq issued' /\ doomed \subseteq doomed' /\ dead \subseteq dead'
    BY <1>1, <2>1
  <2> HIDE DEF t
  <2> QED BY <1>1, <1>5, <2>1, <2>3, <2>4, <2>5, <2>6, <2>7, IdleCommandFits, CommandStep
<1>8. CASE t.op = "revoke"
  <2> DEFINE c == [t EXCEPT !.step = "scan"]
  <2>1. admin' = [admin EXCEPT ![a] = c] /\ issued' = issued
    BY <1>8, OfCommand, OfTokens DEF PutRecord
  <2>2. t.record.revoked /\ k \in doomed
    BY <1>3, <1>8 DEF Writing
  <2>3. c \in Commands
    BY <1>2 DEF Commands
  <2>4. /\ c.step = "scan" /\ c.op = t.op /\ c.label = t.label /\ c.todo = t.todo
        /\ c.targets = t.targets /\ c.gone = t.gone /\ c.shown = t.shown
    BY <1>2 DEF Commands
  <2> HIDE DEF c
  <2>5. TokensFit'
    BY <1>1, <1>4, <2>1, <2>2, OfCommand, OfTokens, RecordFits DEF Barred
  <2>6. Revoking(t, tokens, minted, issued, doomed)
    BY <1>2, <1>8 DEF CommandFits
  <2>7. Barred(tokens'[k])
    BY <1>4, <1>5, <2>2 DEF Barred
  <2>8. Revoking(c, tokens', minted, issued, doomed)
    BY <1>2, <1>5, <2>4, <2>6, <2>7 DEF Revoking, Commands
  <2>9. \A s \in c.todo : tokens'[s] # Absent
    BY <1>2, <1>5, <2>4 DEF CommandFits, Commands
  <2>10. CommandFits(c, tokens', minted', issued', doomed', dead')
    BY <1>1, <1>8, <2>1, <2>3, <2>4, <2>8, <2>9 DEF CommandFits
  <2>11. \A s \in issued : tokens'[s] = tokens[s] \/ (tokens'[s] \in TokenRecord
                             /\ tokens'[s].revoked /\ s \in doomed')
    BY <1>1, <1>4, <1>5, <2>2, OfCommand, OfTokens
  <2> HIDE DEF t
  <2> QED BY <1>1, <1>5, <1>6, <2>1, <2>3, <2>4, <2>5, <2>10, <2>11, OfCommand, OfTokens, CommandStep
<1> QED BY <1>3, <1>7, <1>8 DEF Writing

-----------------------------------------------------------------------------
(* The owner's edits, the vault and the index.                             *)

\* A step of the store that every request watches.
LEMMA StoreStep ==
    ASSUME IInv, WatchAll, UNCHANGED <<tokens, open, admin, owner>>,
           StoreFits', EditFits'
    PROVE  IInv'
<1>1. UNCHANGED <<minted, issued, doomed, dead>> /\ answer' = None
  BY DEF owner, WatchAll
<1>2. facts' \in [Pages -> Fact \cup {Absent, Torn}]
  BY DEF StoreFits
<1>3. RequestsFit'
  BY <1>1, <1>2, WatchedByAll
<1>4. TokensFit' /\ CommandsFit' /\ Apart'
  BY <1>1 DEF IInv, TokensFit, CommandsFit, Apart
<1> QED BY <1>1, <1>3, <1>4 DEF IInv, AnswerIsFit

LEMMA StoreStays ==
    ASSUME IInv
    PROVE  facts \in [Pages -> Fact \cup {Absent, Torn}] /\ index \subseteq Pages
           /\ built \in BOOLEAN /\ open \in BOOLEAN /\ Edits \subseteq Fact
BY SharingAssumption DEF IInv, StoreFits

LEMMA BuildIndexStep ==
    ASSUME IInv, BuildIndex
    PROVE  IInv'
<1>1. StoreFits'
  BY StoreStays DEF BuildIndex, StoreFits
<1>2. EditFits'
  BY DEF BuildIndex, IInv, EditFits
<1> QED BY <1>1, <1>2, StoreStep DEF BuildIndex

LEMMA BeginEditStep ==
    ASSUME IInv, BeginEdit
    PROVE  IInv'
<1>1. PICK id \in Pages :
        \/ /\ facts' = [facts EXCEPT ![id] = Absent]
           /\ edit' = [step |-> "index", page |-> id, fact |-> Absent]
        \/ \E f \in Edits :
            /\ facts' = [facts EXCEPT ![id] = Torn]
            /\ edit' = [step |-> "put", page |-> id, fact |-> f]
  BY DEF BeginEdit
<1>2. StoreFits'
  BY <1>1, StoreStays DEF BeginEdit, StoreFits, memory
<1>3. EditFits'
  BY <1>1, StoreStays DEF EditFits
<1> QED BY <1>2, <1>3, StoreStep DEF BeginEdit

LEMMA PutFactStep ==
    ASSUME IInv, PutFact
    PROVE  IInv'
<1>1. edit.step = "put" /\ edit.page \in Pages /\ edit.fact \in Fact
  BY DEF PutFact, IInv, EditFits
<1>2. StoreFits'
  BY <1>1, StoreStays DEF PutFact, StoreFits, memory
<1>3. EditFits'
  <2>1. edit' = [edit EXCEPT !.step = "index"]
    BY DEF PutFact
  <2>2. edit'.page = edit.page /\ edit'.fact = edit.fact
    BY <2>1
  <2>3. edit'.step \in {"index", "put"}
    BY <1>1, <2>1
  <2> QED BY <1>1, <2>2, <2>3 DEF EditFits
<1> QED BY <1>2, <1>3, StoreStep DEF PutFact

LEMMA IndexFactStep ==
    ASSUME IInv, IndexFact
    PROVE  IInv'
<1>1. edit.page \in Pages
  BY DEF IndexFact, IInv, EditFits
<1>2. StoreFits'
  BY <1>1, StoreStays DEF IndexFact, StoreFits
<1>3. EditFits'
  BY DEF IndexFact, EditFits, IdleEdit
<1> QED BY <1>2, <1>3, StoreStep DEF IndexFact

\* A step no request and no token takes part in.
LEMMA QuietStep ==
    ASSUME IInv, UNCHANGED <<disk, memory, request, admin, owner>>, answer' = None,
           open' \in BOOLEAN, EditFits'
    PROVE  IInv'
<1>1. UNCHANGED <<facts, tokens, index, built, request, admin, minted, issued, doomed, dead>>
  BY DEF disk, memory, owner
<1>2. StoreFits'
  BY <1>1 DEF IInv, StoreFits
<1>3. RequestsFit'
  BY <1>1 DEF IInv, RequestsFit
<1>4. TokensFit' /\ CommandsFit' /\ Apart'
  BY <1>1 DEF IInv, TokensFit, CommandsFit, Apart
<1> QED BY <1>2, <1>3, <1>4 DEF IInv, AnswerIsFit

LEMMA EditFailsStep ==
    ASSUME IInv, EditFails, answer' = None
    PROVE  IInv'
<1>1. EditFits'
  BY DEF EditFails, EditFits, IdleEdit
<1> QED BY <1>1, QuietStep, StoreStays DEF EditFails

LEMMA ToggleVaultStep ==
    ASSUME IInv, ToggleVault, answer' = None
    PROVE  IInv'
<1>1. EditFits'
  BY DEF ToggleVault, IInv, EditFits
<1>2. open' \in BOOLEAN
  BY StoreStays DEF ToggleVault
<1> QED BY <1>1, <1>2, QuietStep DEF ToggleVault

LEMMA CrashStep ==
    ASSUME IInv, Crash, answer' = None
    PROVE  IInv'
<1>1. UNCHANGED <<facts, tokens, open, minted, issued, doomed, dead>>
  BY DEF Crash, disk, owner
<1>2. StoreFits' /\ EditFits'
  BY <1>1, StoreStays DEF Crash, StoreFits, EditFits, IdleEdit
<1>3. TokensFit'
  BY <1>1 DEF IInv, TokensFit
<1>4. RequestsFit'
  BY IdleFits DEF Crash, RequestsFit
<1>5. CommandsFit'
  BY IdleCommandFits DEF Crash, CommandsFit
<1>6. Apart'
  BY IdleCommandFits DEF Crash, Apart
<1> QED BY <1>2, <1>3, <1>4, <1>5, <1>6 DEF IInv, AnswerIsFit

-----------------------------------------------------------------------------
(* The invariant is inductive.                                             *)

LEMMA BeginsWell == Init => IInv
<1> SUFFICES ASSUME Init PROVE IInv
  OBVIOUS
<1>1. PICK before \in Before : facts = before.facts /\ tokens = before.tokens
  BY SharingAssumption DEF Init
<1>2. /\ facts \in [Pages -> Fact \cup {Absent}]
      /\ tokens \in [Secrets -> TokenRecord \cup {Absent}]
  BY <1>1 DEF Before
<1>3. StoreFits /\ EditFits
  BY <1>2 DEF Init, StoreFits, EditFits, IdleEdit
<1>4. Absent # Torn /\ Absent \notin TokenRecord /\ Torn \notin TokenRecord /\ Absent \notin Grant
  BY SharingAssumption
<1>5. TokensFit
  <2>1. /\ minted = [s \in Secrets |-> IF tokens[s] = Absent THEN Absent ELSE
                        [label |-> tokens[s].label, granted |-> tokens[s].granted]]
        /\ issued = {s \in Secrets : tokens[s] # Absent}
        /\ dead = {s \in issued : tokens[s].revoked} /\ doomed = dead
    BY DEF Init
  <2>2. ASSUME NEW s \in Secrets, tokens[s] # Absent
        PROVE  tokens[s] \in TokenRecord /\ minted[s] \in Grant /\ Says(tokens[s], minted[s])
    <3>1. tokens[s] \in TokenRecord
      BY <1>2, <2>2
    <3>2. minted[s] = [label |-> tokens[s].label, granted |-> tokens[s].granted]
      BY <2>1, <2>2
    <3>3. minted[s] \in Grant
      BY <3>1, <3>2 DEF TokenRecord, Grant
    <3> QED BY <3>1, <3>2, <3>3 DEF Says
  <2>3. minted \in [Secrets -> Grant \cup {Absent}]
    <3>1. \A s \in Secrets : minted[s] \in Grant \cup {Absent}
      BY <2>1, <2>2
    <3>2. DOMAIN minted = Secrets /\ minted = [s \in Secrets |-> minted[s]]
      BY <2>1
    <3> QED BY <3>1, <3>2
  <2>4. \A s \in dead : s \in issued /\ Barred(tokens[s])
    BY <2>1, <2>2 DEF Barred
  <2>5. \A s \in Secrets : tokens[s] \in TokenRecord /\ tokens[s].revoked => s \in doomed
    BY <1>4, <2>1
  <2>6. \A s \in Secrets : /\ tokens[s] # Absent => minted[s] # Absent
                           /\ tokens[s] \in TokenRecord => Says(tokens[s], minted[s])
    BY <1>4, <2>2
  <2> QED BY <1>2, <2>1, <2>3, <2>4, <2>5, <2>6 DEF TokensFit
<1>6. RequestsFit
  BY IdleFits DEF Init, RequestsFit
<1>7. CommandsFit /\ Apart
  BY IdleCommandFits DEF Init, CommandsFit, Apart
<1>8. AnswerIsFit
  BY DEF Init, AnswerIsFit
<1> QED BY <1>3, <1>5, <1>6, <1>7, <1>8 DEF IInv

LEMMA NextStep == IInv /\ [Next]_vars => IInv'
<1> SUFFICES ASSUME IInv, [Next]_vars PROVE IInv'
  OBVIOUS
<1>1. CASE UNCHANGED vars
  BY <1>1 DEF vars, disk, memory, owner, bounds, IInv, StoreFits, EditFits, TokensFit,
              RequestsFit, AnswerIsFit, CommandsFit, Apart
<1>2. ASSUME NEW r \in Requests, Arrive(r) \/ Serve(r) PROVE IInv'
  BY <1>2, ArriveStep, ResolveStep, SearchStep, ListPagesStep, ReadStep, ReadFailsStep DEF Serve
<1>3. ASSUME NEW a \in Admins, Command(a), answer' = None PROVE IInv'
  BY <1>3, BeginIssueStep, BeginScanStep, ScanRecordStep, ScanMissesStep, StartFlipStep,
     PutRecordStep, EndScanStep, CommandFailsStep DEF Command, Administer
<1>4. ASSUME BuildIndex \/ Edit \/ ToggleVault \/ Crash, answer' = None PROVE IInv'
  BY <1>4, BuildIndexStep, BeginEditStep, PutFactStep, IndexFactStep, EditFailsStep,
     ToggleVaultStep, CrashStep DEF Edit
<1> QED BY <1>1, <1>2, <1>3, <1>4 DEF Next

-----------------------------------------------------------------------------
(* The theorems.                                                           *)

\* The invariant holds in every state of every behaviour.
THEOREM InductiveInvariant == Spec => []IInv
BY BeginsWell, NextStep, PTL DEF Spec

\* Every variable holds a value of its type.
THEOREM TypeCorrect == Spec => []TypeOK
<1>1. IInv => TypeOK
  <2> SUFFICES ASSUME IInv PROVE TypeOK
    OBVIOUS
  <2>1. ASSUME NEW q \in {request[r] : r \in Requests} \cup ({answer} \ {None})
        PROVE  /\ q.todo \cup q.steady \subseteq Pages
               /\ q.out \cup q.seen \subseteq Pages \X Fact
               /\ q.step \in Steps /\ q.code \in Codes
    <3>1. q \in Request
      BY DEF IInv, RequestsFit, AnswerIsFit, AnswerFits
    <3> QED BY <3>1 DEF Request
  <2>2. \A a \in Admins :
            /\ admin[a].step \in {"idle", "put", "scan", "flip"}
            /\ admin[a].todo \cup admin[a].shown \cup admin[a].targets \subseteq Secrets
    BY DEF IInv, CommandsFit, Commands
  <2>3. /\ facts \in [Pages -> Fact \cup {Absent, Torn}]
        /\ index \subseteq Pages /\ {built, open} \subseteq BOOLEAN
    BY DEF IInv, StoreFits
  <2>4. edit.step \in {"idle", "put", "index"}
    BY DEF IInv, EditFits
  <2> QED BY <2>1, <2>2, <2>3, <2>4, OfTokens DEF TypeOK
<1> QED BY <1>1, InductiveInvariant, PTL

\* mod.rs, can_access: an answer carries nothing its caller could not read while the
\* request ran, and leaves out nothing it could read all along.
THEOREM ScopeIsExact == Spec => []AnswersAreTheScope
<1>1. IInv => AnswersAreTheScope
  BY DEF IInv, AnswerIsFit, AnswerFits, AnswersAreTheScope, WithinScope, Complete
<1> QED BY <1>1, InductiveInvariant, PTL

\* tokens.rs, revoke and resolve: a token opens its scope until its revocation begins,
\* and nothing once that has returned.
THEOREM RevocationIsImmediate == Spec => []TokensDecide
<1>1. IInv => TokensDecide
  BY DEF IInv, AnswerIsFit, AnswerFits, TokensDecide, RevokedGetsNothing, GenuineNotRefused
<1> QED BY <1>1, InductiveInvariant, PTL

\* tokens.rs, list: the owner sees every token that could be used, and none that a
\* revocation has already ended.
THEOREM NothingIsHidden == Spec => ListIsHonest
<1>1. IInv /\ [Next]_vars =>
        [\A a \in Admins :
           EndScan(a) /\ admin[a].op = "list" =>
              /\ \A s \in admin[a].targets \ doomed : tokens[s] # Torn => s \in admin[a].shown
              /\ admin[a].shown \cap admin[a].gone = {}]_vars
  <2> SUFFICES ASSUME IInv, NEW a \in Admins, EndScan(a), admin[a].op = "list"
               PROVE  /\ \A s \in admin[a].targets \ doomed :
                            tokens[s] # Torn => s \in admin[a].shown
                      /\ admin[a].shown \cap admin[a].gone = {}
    OBVIOUS
  <2>1. Listing(admin[a], tokens, issued, doomed, dead)
    BY OfCommand DEF CommandFits
  <2> QED BY <2>1 DEF Listing, EndScan
<1> QED BY <1>1, InductiveInvariant, PTL DEF Spec, ListIsHonest
=============================================================================
