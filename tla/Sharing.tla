------------------------------- MODULE Sharing -------------------------------
(***************************************************************************)
(* The knowledge shared over MCP: consumer tokens (TokenStore), the        *)
(* identity of a request (resolve_identity), the four read-only tools and  *)
(* the scope they read in (KnowledgeSharing, Token).                       *)
(*                                                                         *)
(* Requests, the owner's token commands and the owner's edits run          *)
(* concurrently; every store call is a step. Documents are overwritten in  *)
(* place, so a write is two steps with an unreadable document in between.  *)
(* Pages are numbered in the order of their titles.                        *)
(***************************************************************************)
EXTENDS Naturals, FiniteSets

CONSTANTS
    Requests,        \* concurrent MCP requests
    Admins,          \* concurrent token commands of the owner
    Secrets,         \* bearer secrets, minted or not
    Labels,          \* the names tokens are issued under
    Categories,
    Pages,           \* fact ids
    Links,           \* per page, the pages it links to
    Limit,           \* results a search asks for
    Uncategorized,
    Earlier,         \* what the vault may hold at the start
    Grantings,       \* the sets of categories the owner grants
    Edits,           \* what the owner's edits may store
    Absent, Torn,    \* no document; one that cannot be decrypted
    None,
    Bad,             \* an argument that is missing or does not parse
    MaxRequests,     \* bound on the requests
    MaxEvents        \* bound on commands, edits, locks, failures and restarts together

Fact == [shared : BOOLEAN, category : Categories \cup {Uncategorized}]

TokenRecord == [label : Labels, granted : SUBSET Categories, revoked : BOOLEAN]

\* What a token is issued with.
Grant == [label : Labels, granted : SUBSET Categories]

VARIABLES
    facts,       \* namespace "facts" on disk
    index,       \* the pages the in-memory index returns for a query
    built,       \* the index has been built since the start
    edit,        \* the edit that holds the write lock of the knowledge service
    tokens,      \* namespace "sharing-tokens" on disk, by the digest of the secret
    open,        \* the vault is unlocked
    request,     \* per request, its step and locals
    answer,      \* the answer given in the step before, or None
    admin,       \* per token command, its step and locals
    minted,      \* observer: per secret, the label and grants it was minted with
    issued,      \* observer: secrets whose issue returned
    doomed,      \* observer: secrets whose label was revoked after they were minted
    dead,        \* observer: secrets whose revocation returned Ok
    requests, events

disk   == <<facts, tokens>>
memory == <<index, built>>
owner  == <<minted, issued, doomed, dead>>
bounds == <<requests, events>>
vars   == <<disk, memory, edit, open, request, answer, admin, owner, bounds>>

\* A store as earlier edits and issue commands have left it.
Before == [facts : [Pages -> Fact \cup {Absent}], tokens : [Secrets -> TokenRecord \cup {Absent}]]

ASSUME SharingAssumption ==
    /\ Pages \subseteq Nat /\ IsFiniteSet(Pages)
    /\ Links \in [Pages -> SUBSET Pages]
    /\ Limit \in Nat \ {0}
    /\ Uncategorized \notin Categories
    /\ Secrets \cap {"none", "malformed"} = {}
    /\ Bad \notin Pages \cup Categories \cup {Absent}
    /\ Absent # Torn
    /\ {Absent, Torn} \cap (Fact \cup TokenRecord \cup Grant) = {}
    /\ Earlier \subseteq Before
    /\ Grantings \subseteq SUBSET Categories /\ Edits \subseteq Fact
    /\ MaxRequests \in Nat /\ MaxEvents \in Nat

Tools == {"list_categories", "search_knowledge", "get_page", "get_guide"}

IdleRequest ==
    [step |-> "idle", shared |-> FALSE, auth |-> "none", loopback |-> FALSE,
     call |-> "none", arg |-> Absent, owner |-> FALSE, granted |-> {}, todo |-> {},
     out |-> {}, truncated |-> FALSE, code |-> "none",
     seen |-> {}, steady |-> {}, genuine |-> FALSE, late |-> FALSE]

IdleAdmin == [step |-> "idle", op |-> "none", label |-> Absent, todo |-> {},
              key |-> Absent, record |-> Absent, shown |-> {}, targets |-> {},
              gone |-> {}]

IdleEdit == [step |-> "idle", page |-> Absent, fact |-> Absent]

Init ==
    /\ \E before \in Earlier : facts = before.facts /\ tokens = before.tokens
    /\ index = {id \in Pages : facts[id] # Absent}
    /\ built = TRUE
    /\ edit = IdleEdit
    /\ open = TRUE
    /\ request = [r \in Requests |-> IdleRequest]
    /\ answer = None
    /\ admin = [a \in Admins |-> IdleAdmin]
    /\ minted = [s \in Secrets |-> IF tokens[s] = Absent THEN Absent ELSE
                    [label |-> tokens[s].label, granted |-> tokens[s].granted]]
    /\ issued = {s \in Secrets : tokens[s] # Absent}
    /\ dead = {s \in issued : tokens[s].revoked}
    /\ doomed = dead
    /\ requests = 0 /\ events = 0

\* Something happens that is not the service of a request.
Event == events < MaxEvents /\ events' = events + 1 /\ UNCHANGED requests
-----------------------------------------------------------------------------
(***************************************************************************)
(* What a request may see, from the way it came in alone. Observers.       *)
(***************************************************************************)
MayRead(q, fact) ==
    \/ q.auth = "none" /\ ~q.shared /\ q.loopback
    \/ /\ q.auth \in Secrets /\ minted[q.auth] # Absent
       /\ fact.shared /\ fact.category \in minted[q.auth].granted

Visible(q, store) ==
    {<<id, store[id]>> : id \in {i \in Pages : store[i] \in Fact /\ MayRead(q, store[i])}}

Reachable(q, store, idx) ==
    {id \in Pages : /\ store[id] \in Fact /\ MayRead(q, store[id])
                    /\ q.call = "search_knowledge" => id \in idx
                    /\ q.call = "list_categories" => store[id].category # Uncategorized
                    /\ q.call = "get_page" => id = q.arg
                    /\ q.call = "get_guide" => store[id].category = q.arg}

Running(q) == q.step \notin {"idle", "resolve"}

\* What a running request could have seen so far, and what was there all along.
Watched(q, store, idx) ==
    IF Running(q)
    THEN [q EXCEPT !.seen = @ \cup Visible(q, store),
                   !.steady = @ \cap Reachable(q, store, idx)]
    ELSE q

WatchAll ==
    /\ request' = [r \in Requests |-> Watched(request[r], facts', index')]
    /\ answer' = None
-----------------------------------------------------------------------------
(***************************************************************************)
(* Requests.                                                               *)
(***************************************************************************)
\* Mutant: the category is not looked at.
CanAccessShared(q, fact) == q.owner \/ fact.shared

CanAccess(q, fact) == q.owner \/ (fact.shared /\ fact.category \in q.granted)

Grants(q, category) == q.owner \/ category \in q.granted

Answered(q, code) == [q EXCEPT !.step = "done", !.code = code]

\* Any other answer carries none.
Failed(q, code) == [Answered(q, code) EXCEPT !.out = {}]

\* The request goes on as q, or is answered and forgotten.
Proceed(r, q) ==
    \/ /\ q.step # "done"
       /\ request' = [request EXCEPT ![r] = q] /\ answer' = None
    \/ /\ q.step = "done"
       /\ request' = [request EXCEPT ![r] = IdleRequest] /\ answer' = q

\* dispatch and tools_call: the arguments are checked before the store is read.
Dispatched(q) ==
    IF q.call \notin Tools THEN Failed(q, IF q.call = "notification" THEN "accepted" ELSE "ok")
    ELSE IF q.arg = Bad THEN Failed(q, "invalid")
    ELSE CASE q.call = "search_knowledge" -> [q EXCEPT !.step = "search"]
           [] q.call = "get_page" -> [q EXCEPT !.step = "page"]
           [] q.call = "get_guide" /\ ~Grants(q, q.arg) -> Failed(q, "not_found")
           [] OTHER -> [q EXCEPT !.step = "list"]

\* From here on the request can see the store.
Identified(q, isOwner, granted) ==
    LET known == [q EXCEPT !.owner = isOwner, !.granted = granted,
                           !.seen = Visible(q, facts), !.steady = Reachable(q, facts, index)]
    IN  Dispatched(known)

OwnerGranted(q) == ~q.shared /\ q.loopback

Arguments(call) ==
    CASE call = "get_page"         -> Pages \cup {Bad}
      [] call = "get_guide"        -> Categories \cup {Bad}
      [] call = "search_knowledge" -> {Absent, Bad}
      [] OTHER                     -> {Absent}

\* With an Authorization header neither the listener nor the Host is looked at.
Origins ==
    [shared : BOOLEAN, loopback : BOOLEAN, auth : {"none"}]
    \cup [shared : {TRUE}, loopback : {FALSE}, auth : Secrets \cup {"malformed"}]

\* mcp_post: a request without a token is the owner's or refused at once.
Arrive(r) ==
    /\ request[r].step = "idle"
    /\ requests < MaxRequests /\ requests' = requests + 1 /\ UNCHANGED events
    /\ \E from \in Origins, call \in Tools \cup {"notification", "other"} :
        \E arg \in Arguments(call) :
            LET q == [IdleRequest EXCEPT !.shared = from.shared, !.loopback = from.loopback,
                          !.auth = from.auth, !.call = call, !.arg = arg,
                          !.genuine = from.auth \in issued, !.late = from.auth \in dead]
            IN  Proceed(r,
                    CASE q.auth \in Secrets -> [q EXCEPT !.step = "resolve"]
                      [] q.auth = "none" /\ OwnerGranted(q) -> Identified(q, TRUE, {})
                      [] OTHER -> Failed(q, "unauthorized"))
    /\ UNCHANGED <<disk, memory, edit, open, admin, owner>>

\* Mutant: every secret that does not resolve is refused.
ResolvedOrRefused(q) ==
    IF open /\ tokens[q.auth] \in TokenRecord /\ ~tokens[q.auth].revoked
    THEN Identified(q, FALSE, tokens[q.auth].granted)
    ELSE Failed(q, "unauthorized")

\* TokenStore::resolve, and resolve_identity, which tells its errors apart.
Resolved(q) ==
    CASE ~open -> Failed(q, "locked")
      [] open /\ tokens[q.auth] = Torn -> Failed(q, "unavailable")
      [] open /\ tokens[q.auth] \in TokenRecord /\ ~tokens[q.auth].revoked
             -> Identified(q, FALSE, tokens[q.auth].granted)
      [] OTHER -> Failed(q, "unauthorized")

Resolve(r) ==
    /\ request[r].step = "resolve"
    /\ Proceed(r, Resolved(request[r]))
    /\ UNCHANGED <<disk, memory, edit, open, admin, owner, bounds>>

\* ensure_index: once per start, under the write lock, by the first that needs it.
Buildable == open /\ \A id \in Pages : facts[id] # Torn

BuildIndex ==
    /\ ~built /\ edit.step = "idle" /\ Buildable
    /\ index' = {id \in Pages : facts[id] # Absent}
    /\ built' = TRUE
    /\ UNCHANGED facts /\ WatchAll
    /\ UNCHANGED <<tokens, edit, open, admin, owner, bounds>>

First(S) == CHOOSE x \in S : \A y \in S : x <= y

\* Mutant: the page is cut before the candidates out of scope are skipped.
PageFullUnfiltered(q) == Cardinality(index \ q.todo) >= Limit

\* One more than asked for, so that truncation shows.
PageFull(q) == Cardinality(q.out) > Limit

\* handle_search keeps the first Limit results.
Cut(q) ==
    IF Cardinality(q.out) > Limit
    THEN LET last == CHOOSE p \in q.out : \A o \in q.out : o[1] <= p[1]
         IN  [q EXCEPT !.out = @ \ {last}, !.truncated = TRUE]
    ELSE q

\* category_counts counts the categorized pages; guide_pages keeps those of one
\* category, and answers not found when none is left.
Gathered(q) ==
    LET counted == {p \in q.out : p[2].category # Uncategorized}
        pages == {p \in q.out : p[2].category = q.arg}
    IN  IF q.call = "list_categories" THEN Answered([q EXCEPT !.out = counted], "ok")
        ELSE IF pages = {} THEN Failed(q, "not_found")
        ELSE Answered([q EXCEPT !.out = pages], "ok")

\* What follows the last read of a tool.
Finished(q) ==
    CASE q.step = "hits" /\ (q.todo = {} \/ PageFull(q)) -> Answered(Cut(q), "ok")
      [] q.step = "load" /\ q.todo = {} -> Gathered(q)
      [] q.step = "links" /\ q.todo = {} -> Answered(q, "ok")
      [] OTHER -> q

\* search_visible: the hits of the index, in the order of their titles.
Search(r) ==
    LET q == request[r]
    IN  /\ q.step = "search" /\ built
        /\ Proceed(r, IF index = {} THEN Answered(q, "ok")
                      ELSE [q EXCEPT !.step = "hits", !.todo = index])
        /\ UNCHANGED <<disk, memory, edit, open, admin, owner, bounds>>

\* load_all: the directory first, then document by document in its order.
ListPages(r) ==
    LET q == request[r]
        found == {id \in Pages : facts[id] # Absent}
    IN  /\ q.step = "list" /\ open
        /\ Proceed(r, IF found = {} THEN Gathered(q)
                      ELSE [q EXCEPT !.step = "load", !.todo = found])
        /\ UNCHANGED <<disk, memory, edit, open, admin, owner, bounds>>

\* A document that is gone or out of scope is left out.
Collect(q, id) ==
    [q EXCEPT !.todo = @ \ {id},
              !.out = IF facts[id] \in Fact /\ CanAccess(q, facts[id])
                      THEN @ \cup {<<id, facts[id]>>} ELSE @]

\* get_page: out of scope and absent look the same.
Opened(q) ==
    IF facts[q.arg] = Absent \/ ~CanAccess(q, facts[q.arg])
    THEN Failed(q, "not_found")
    ELSE [Collect(q, q.arg) EXCEPT !.step = "links", !.todo = Links[q.arg]]

\* The documents a request may read next: hits and links in order, load_all in
\* the order of the directory.
Reading(q) ==
    CASE q.step = "page" -> {q.arg}
      [] q.step = "load" -> q.todo
      [] q.step \in {"hits", "links"} -> {First(q.todo)}
      [] OTHER -> {}

Read(r) ==
    LET q == request[r]
    IN  /\ open
        /\ \E id \in Reading(q) :
            /\ facts[id] # Torn
            /\ Proceed(r, Finished(IF q.step = "page" THEN Opened(q) ELSE Collect(q, id)))
        /\ UNCHANGED <<disk, memory, edit, open, admin, owner, bounds>>

\* Mutant: a locked vault is waited for.
ReadFailsOpen(r) ==
    LET q == request[r]
    IN  /\ open
        /\ \/ \E id \in Reading(q) : facts[id] = Torn
           \/ q.step = "search" /\ ~built /\ edit.step = "idle" /\ ~Buildable
        /\ Proceed(r, Failed(q, "unavailable"))
        /\ UNCHANGED <<disk, memory, edit, open, admin, owner, bounds>>

\* A locked vault fails every store call, an unreadable document the reads of it.
ReadFails(r) ==
    LET q == request[r]
    IN  /\ \/ open /\ \E id \in Reading(q) : facts[id] = Torn
           \/ ~open /\ (q.step = "list" \/ Reading(q) # {})
           \/ q.step = "search" /\ ~built /\ edit.step = "idle" /\ ~Buildable
        /\ Proceed(r, Failed(q, IF open THEN "unavailable" ELSE "locked"))
        /\ UNCHANGED <<disk, memory, edit, open, admin, owner, bounds>>

Serve(r) == Resolve(r) \/ Search(r) \/ ListPages(r) \/ Read(r) \/ ReadFails(r)
-----------------------------------------------------------------------------
(***************************************************************************)
(* The owner's token commands: issue, revoke, list.                        *)
(***************************************************************************)
Return(a) == admin' = [admin EXCEPT ![a] = IdleAdmin]

\* A fresh secret; its record is written in place.
BeginIssue(a) ==
    /\ admin[a].step = "idle" /\ open
    /\ Event
    /\ \E s \in Secrets, l \in Labels, g \in Grantings :
        /\ minted[s] = Absent
        /\ minted' = [minted EXCEPT ![s] = [label |-> l, granted |-> g]]
        /\ tokens' = [tokens EXCEPT ![s] = Torn]
        /\ admin' = [admin EXCEPT ![a] =
               [IdleAdmin EXCEPT !.step = "put", !.op = "issue", !.label = l, !.key = s,
                    !.record = [label |-> l, granted |-> g, revoked |-> FALSE]]]
    /\ UNCHANGED <<facts, memory, edit, open, request, issued, doomed, dead>>

\* TokenStore::revoke and TokenStore::list: the directory, then record by record.
BeginScan(a) ==
    /\ admin[a].step = "idle" /\ open
    /\ Event
    /\ \E op \in {"revoke", "list"}, l \in Labels :
        LET ofLabel == {s \in Secrets : minted[s] # Absent /\ minted[s].label = l}
        IN  /\ admin' = [admin EXCEPT ![a] =
                   [IdleAdmin EXCEPT !.step = "scan", !.op = op, !.label = l,
                        !.todo = {s \in Secrets : tokens[s] # Absent},
                        !.targets = IF op = "revoke" THEN issued \cap ofLabel
                                                     ELSE issued \ doomed,
                        !.gone = dead]]
            /\ doomed' = IF op = "revoke" THEN doomed \cup ofLabel ELSE doomed
    /\ UNCHANGED <<disk, memory, edit, open, request, minted, issued, dead>>

\* Mutant: the scan ends at a record that it passes over.
SkipRest(a, s) == admin' = [admin EXCEPT ![a].todo = {}]

Skip(a, s) == admin' = [admin EXCEPT ![a].todo = @ \ {s}]

\* A record that cannot be read is passed over.
ScanRecord(a) ==
    LET t == admin[a]
    IN  /\ t.step = "scan" /\ open
        /\ \E s \in t.todo :
            \/ tokens[s] = Torn /\ Skip(a, s)
            \/ /\ tokens[s] # Torn /\ t.op = "revoke"
               /\ \/ (tokens[s].label # t.label \/ tokens[s].revoked) /\ Skip(a, s)
                  \/ /\ tokens[s].label = t.label /\ ~tokens[s].revoked
                     /\ admin' = [admin EXCEPT ![a].todo = @ \ {s}, ![a].key = s,
                            ![a].step = "flip",
                            ![a].record = [tokens[s] EXCEPT !.revoked = TRUE]]
            \/ /\ tokens[s] # Torn /\ t.op = "list"
               /\ admin' = [admin EXCEPT ![a].todo = @ \ {s},
                      ![a].shown = IF tokens[s].revoked THEN @ ELSE @ \cup {s}]
        /\ UNCHANGED <<disk, memory, edit, open, request, owner, bounds>>

\* An I/O error passes over an intact record as well.
ScanMisses(a) ==
    /\ admin[a].step = "scan" /\ open
    /\ Event
    /\ \E s \in admin[a].todo :
        /\ tokens[s] # Torn
        /\ admin' = [admin EXCEPT ![a].todo = @ \ {s}, ![a].targets = @ \ {s}]
    /\ UNCHANGED <<disk, memory, edit, open, request, owner>>

StartFlip(a) ==
    /\ admin[a].step = "flip" /\ open
    /\ tokens' = [tokens EXCEPT ![admin[a].key] = Torn]
    /\ admin' = [admin EXCEPT ![a].step = "put"]
    /\ UNCHANGED <<facts, memory, edit, open, request, owner, bounds>>

\* Mutant: revoke stops at the first record it has revoked.
PutRecordOnce(a) ==
    LET t == admin[a]
    IN  /\ t.step = "put"
        /\ tokens' = [tokens EXCEPT ![t.key] = t.record]
        /\ \/ t.op = "issue" /\ Return(a) /\ issued' = issued \cup {t.key}
           \/ /\ t.op = "revoke" /\ UNCHANGED issued
              /\ admin' = [admin EXCEPT ![a].step = "scan", ![a].todo = {}]
        /\ UNCHANGED <<facts, memory, edit, open, request, minted, doomed, dead, bounds>>

PutRecord(a) ==
    LET t == admin[a]
    IN  /\ t.step = "put"
        /\ tokens' = [tokens EXCEPT ![t.key] = t.record]
        /\ \/ t.op = "issue" /\ Return(a) /\ issued' = issued \cup {t.key}
           \/ /\ t.op = "revoke" /\ UNCHANGED issued
              /\ admin' = [admin EXCEPT ![a].step = "scan"]
        /\ UNCHANGED <<facts, memory, edit, open, request, minted, doomed, dead, bounds>>

EndScan(a) ==
    /\ admin[a].step = "scan" /\ admin[a].todo = {}
    /\ Return(a)
    /\ dead' = IF admin[a].op = "revoke" THEN dead \cup admin[a].targets ELSE dead
    /\ UNCHANGED <<disk, memory, edit, open, request, minted, issued, doomed, bounds>>

\* A put that fails leaves the document it had truncated; a locked vault fails
\* the calls that need the key.
CommandFails(a) ==
    /\ \/ admin[a].step \in {"scan", "flip"} /\ ~open /\ UNCHANGED bounds
       \/ admin[a].step \in {"put", "flip"} /\ Event
    /\ Return(a)
    /\ UNCHANGED <<disk, memory, edit, open, request, owner>>

Administer(a) ==
    \/ ScanRecord(a) \/ StartFlip(a) \/ PutRecord(a) \/ EndScan(a)
-----------------------------------------------------------------------------
(***************************************************************************)
(* The owner's edits (module Knowledge): written in place, then indexed.   *)
(***************************************************************************)
BeginEdit ==
    /\ edit.step = "idle" /\ open /\ built
    /\ Event
    /\ \E id \in Pages :
        \/ /\ facts[id] # Absent
           /\ facts' = [facts EXCEPT ![id] = Absent]
           /\ edit' = [step |-> "index", page |-> id, fact |-> Absent]
        \/ \E f \in Edits :
            /\ facts[id] # f
            /\ facts' = [facts EXCEPT ![id] = Torn]
            /\ edit' = [step |-> "put", page |-> id, fact |-> f]
    /\ UNCHANGED memory /\ WatchAll
    /\ UNCHANGED <<tokens, open, admin, owner>>

PutFact ==
    /\ edit.step = "put"
    /\ facts' = [facts EXCEPT ![edit.page] = edit.fact]
    /\ edit' = [edit EXCEPT !.step = "index"]
    /\ UNCHANGED memory /\ WatchAll
    /\ UNCHANGED <<tokens, open, admin, owner, bounds>>

IndexFact ==
    /\ edit.step = "index"
    /\ index' = IF edit.fact = Absent THEN index \ {edit.page} ELSE index \cup {edit.page}
    /\ edit' = IdleEdit
    /\ UNCHANGED <<facts, built>> /\ WatchAll
    /\ UNCHANGED <<tokens, open, admin, owner, bounds>>

EditFails ==
    /\ edit.step = "put"
    /\ Event
    /\ edit' = IdleEdit
    /\ UNCHANGED <<disk, memory, open, request, admin, owner>>

\* lock and unlock from the application's window.
ToggleVault ==
    /\ Event
    /\ open' = ~open
    /\ UNCHANGED <<disk, memory, edit, request, admin, owner>>

\* What was running is gone, and the index with it.
Crash ==
    /\ Event
    /\ request' = [r \in Requests |-> IdleRequest]
    /\ admin' = [a \in Admins |-> IdleAdmin]
    /\ edit' = IdleEdit
    /\ index' = {} /\ built' = FALSE
    /\ UNCHANGED <<disk, open, owner>>
-----------------------------------------------------------------------------
Command(a) ==
    BeginIssue(a) \/ BeginScan(a) \/ Administer(a) \/ ScanMisses(a) \/ CommandFails(a)

Edit == BeginEdit \/ PutFact \/ IndexFact \/ EditFails

Next ==
    \/ \E r \in Requests : Arrive(r) \/ Serve(r)
    \/ /\ \/ \E a \in Admins : Command(a)
          \/ BuildIndex \/ Edit \/ ToggleVault \/ Crash
       /\ answer' = None

Spec == Init /\ [][Next]_vars

\* The runtime polls every request that can run.
FairSpec ==
    /\ Spec /\ WF_vars(BuildIndex) /\ WF_vars(PutFact) /\ WF_vars(IndexFact)
    /\ \A r \in Requests : WF_vars(Serve(r))
-----------------------------------------------------------------------------
Steps == {"idle", "resolve", "search", "hits", "list", "load", "page", "links", "done"}

Codes == {"none", "ok", "accepted", "unauthorized", "locked", "unavailable",
          "not_found", "invalid"}

\* Every variable holds a value of its type.
TypeOK ==
    /\ facts \in [Pages -> Fact \cup {Absent, Torn}]
    /\ index \subseteq Pages /\ {built, open} \subseteq BOOLEAN
    /\ tokens \in [Secrets -> TokenRecord \cup {Absent, Torn}]
    /\ edit.step \in {"idle", "put", "index"}
    /\ \A q \in {request[r] : r \in Requests} \cup ({answer} \ {None}) :
        /\ q.todo \cup q.steady \subseteq Pages
        /\ q.out \cup q.seen \subseteq Pages \X Fact
        /\ q.step \in Steps /\ q.code \in Codes
    /\ \A a \in Admins :
        /\ admin[a].step \in {"idle", "put", "scan", "flip"}
        /\ admin[a].todo \cup admin[a].shown \cup admin[a].targets \subseteq Secrets
    /\ dead \subseteq doomed /\ issued \cup doomed \subseteq Secrets

\* Whatever an answer carries, a page, a title behind a link or a page that is
\* counted, was readable for this caller while the request ran: judged by how
\* the request came in, not by the identity the server found for it, under edits
\* of visibility and category at any moment (mcp.rs, resolve_identity and the
\* handlers; mod.rs, can_access).
WithinScope == answer.out \subseteq answer.seen

\* A page that was readable, and for a search indexed, all the while is in the
\* answer, unless a search says it is truncated and is as long as asked for: a hit
\* that is out of scope or vanishes never shortens it. Nor is such a page or its
\* category reported as not found (knowledge.rs, search_visible, guide_pages).
Complete ==
    /\ answer.code = "ok" /\ answer.call \in Tools =>
           \/ /\ answer.steady \subseteq {p[1] : p \in answer.out}
              /\ answer.call = "search_knowledge" => Cardinality(answer.out) <= Limit
           \/ answer.truncated /\ Cardinality(answer.out) = Limit
    /\ answer.code = "not_found" => answer.steady = {}

\* An answer is the scope of its caller: nothing outside of it, and all that was in it
\* from the beginning to the end of the request.
AnswersAreTheScope == answer # None => WithinScope /\ Complete

\* Revocation is immediate: once revoke has returned Ok, a request that arrives
\* with a secret issued before under that label gets nothing, whatever commands,
\* failed writes and restarts happened around it, unless an I/O error hid the
\* record from the scan (tokens.rs, revoke).
RevokedGetsNothing ==
    answer.late => answer.code \in {"unauthorized", "unavailable", "locked"} /\ answer.seen = {}

\* A consumer with a live token is never told to discard it: a locked vault, a
\* record that is being rewritten or was torn by a crash is reported as such
\* (mcp.rs, resolve_identity and auth_rejection).
GenuineNotRefused ==
    answer.genuine /\ answer.auth \notin doomed => answer.code # "unauthorized"

\* A token opens its scope from the end of its issue to the beginning of its revocation,
\* and nothing from the end of that on.
TokensDecide == answer # None => RevokedGetsNothing /\ GenuineNotRefused

\* The list the owner revokes from leaves out no token that could be used: one
\* issued before, never revoked and readable all the while is shown, and none is
\* whose revocation had returned before (tokens.rs, list).
ListIsHonest ==
    [][\A a \in Admins :
         EndScan(a) /\ admin[a].op = "list" =>
            /\ \A s \in admin[a].targets \ doomed : tokens[s] # Torn => s \in admin[a].shown
            /\ admin[a].shown \cap admin[a].gone = {}]_vars

\* Every request is answered.
EveryRequestAnswered == \A r \in Requests : request[r].step # "idle" ~> request[r].step = "idle"
=============================================================================
