----------------------------- MODULE Connectors -----------------------------
(***************************************************************************)
(* The connectors of one source: a pass of `sync` walks the documents      *)
(* behind a remote search (Jira, Confluence, Notion) or under the session  *)
(* roots or the uploaded paths, stops at a cap, and returns the items with *)
(* the cursor for the next pass. IngestionService then passes the items    *)
(* through the seen-set and saves the cursor (Deliver; module Ingestion    *)
(* has that part in detail), or the run fails and the cursor stays.        *)
(*                                                                         *)
(* The remote moves while a pass runs. Times are small numbers, 0 for      *)
(* none; what a document says is its version. Rendering does not matter    *)
(* beyond whether it leaves anything (Blank).                              *)
(***************************************************************************)
EXTENDS Naturals, Sequences, FiniteSets, SequencesExt, FiniteSetsExt

CONSTANTS
    Kinds,       \* the connectors under study
    Docs,        \* pages, issues or transcript files
    Blank,       \* those whose rendering, digest or type leaves nothing to collect
    Cap,         \* MAX_ISSUES_PER_SYNC, MAX_PAGES_PER_SYNC, MAX_FILES_PER_SYNC
    Limit,       \* results of one search request
    Day,         \* how far window_start goes back before the cursor
    Initially,   \* what may be there before the first pass: the times of the documents
    Order,       \* the order in which documents of the same time are listed
    MaxTime, MaxEdits, MaxFailures  \* bounds of the exploration

AllKinds == {"session", "jira", "confluence", "notion", "file"}

ASSUME ConnectorsAssumption ==
    /\ Kinds \subseteq AllKinds
    /\ IsFiniteSet(Docs) /\ Docs # {} /\ Blank \subseteq Docs
    /\ Cap \in Nat \ {0} /\ Limit \in Nat \ {0} /\ Day \in Nat
    /\ Initially \subseteq [Docs -> 0..MaxTime]
    /\ Order \in Seq(Docs) /\ IsInjective(Order) /\ ToSet(Order) = Docs
    /\ MaxTime \in Nat \ {0} /\ {MaxEdits, MaxFailures} \subseteq Nat

VARIABLES
    kind,      \* which connector this is
    docs,      \* per document: when it was last changed, its version, its resolution
    now,       \* the time of the latest change
    scope,     \* session: the documents under the configured roots
    queued,    \* file: pending_paths
    cursor,    \* the saved cursor: newest, and for sessions oldest
    seen,      \* the seen-set of IngestionCursorStore for this source
    pass,      \* the pass in progress
    refused,   \* observer: the ids a fetch did not return
    causes,    \* observer: what has happened that may leave a gap
    edits, failures

world   == <<kind, docs, now, scope, edits>>
saved   == <<cursor, seen>>
connectorVars == <<world, queued, saved, pass, refused, causes, failures>>

Remote == {"jira", "confluence", "notion"}

Times == 0..MaxTime
Mark  == [newest : Times, oldest : Times]
NoMark == [newest |-> 0, oldest |-> 0]

Hit == [doc : Docs, at : Times, ver : Nat, res : Nat]

\* The dedup key: a new version of a page is new material, an issue counts once
\* open and once per resolution, everything else is its path or page id.
ExternalId(k, d, doc) ==
    <<d, CASE k = "confluence" -> doc.ver
           [] k = "jira"       -> doc.res
           [] OTHER            -> 0>>

Ids == Docs \X (0..MaxEdits + MaxTime)

NoPass == [step |-> "idle", since |-> NoMark, mark |-> NoMark, start |-> 0,
           hits |-> <<>>, more |-> FALSE, items |-> {}, touched |-> {}]

Pass == [step : {"idle", "search", "hit", "read", "deliver"},
         since : Mark,              \* the cursor the pass began with
         mark  : Mark,              \* and the one it will return
         start : Nat,               \* offset of the next search request
         hits  : Seq(Hit),          \* found and not yet looked at
         more  : BOOLEAN,           \* the search has another page
         items : SUBSET Ids,
         touched : SUBSET Docs]     \* observer: what has changed since the pass began

ConnectorsInit ==
    /\ kind \in Kinds
    /\ \E at \in Initially :
        /\ kind = "file" => \A d \in Docs : at[d] = 0
        /\ docs = [d \in Docs |-> [at |-> at[d], ver |-> IF at[d] = 0 THEN 0 ELSE 1, res |-> 0]]
        /\ now = Max({at[d] : d \in Docs})
        /\ causes = IF \E d, e \in Docs : d # e /\ at[d] = at[e] /\ at[d] > 0 THEN {"tie"} ELSE {}
    /\ scope = Docs
    /\ queued = {}
    /\ cursor = NoMark
    /\ seen = {} /\ refused = {}
    /\ pass = NoPass
    /\ edits = 0 /\ failures = 0
-----------------------------------------------------------------------------
Step(s) == pass.step = s

Exists == {d \in Docs : docs[d].at > 0}

HitOf(d) == [doc |-> d, at |-> docs[d].at, ver |-> docs[d].ver, res |-> docs[d].res]

Rank(d) == CHOOSE n \in DOMAIN Order : Order[n] = d

\* Which of two documents changed earlier.
Earlier(d, e) == docs[d].at < docs[e].at \/ (docs[d].at = docs[e].at /\ Rank(d) < Rank(e))

\* And which changed later.
Later(d, e) == docs[d].at > docs[e].at \/ (docs[d].at = docs[e].at /\ Rank(d) < Rank(e))

\* The hits for the documents S, of which ahead[d] are listed before d.
Listed(S, ahead) == [n \in 1..Cardinality(S) |-> HitOf(CHOOSE d \in S : ahead[d] = n - 1)]

\* Oldest change first, as the searches ask for.
OldestFirst(S) == Listed(S, [d \in S |-> Cardinality({e \in S : Earlier(e, d)})])

\* Newest first, as the session connector sorts what it has found.
NewestFirst(S) == Listed(S, [d \in S |-> Cardinality({e \in S : Later(e, d)})])

\* build_jql and build_cql restrict the search to a day before the cursor; the
\* Notion search has no window.
InWindow(since) ==
    {d \in Exists : kind = "notion" \/ since.newest = 0 \/ docs[d].at + Day >= since.newest}

Max2(a, b) == IF a > b THEN a ELSE b

\* At most n elements of s, after the first skip of them.
Slice(s, skip, n) == SubSeq(s, skip + 1, IF skip + n < Len(s) THEN skip + n ELSE Len(s))

\* What a looked-at document does to the cursor, whether it became an item or not.
Cover(mark, at) ==
    [newest |-> Max2(mark.newest, at),
     oldest |-> IF kind # "session" THEN 0
                ELSE IF mark.oldest # 0 /\ mark.oldest <= at THEN mark.oldest ELSE at]

\* Not behind the cursor: newer than newest or, for sessions, older than oldest.
Outside(mark, at) ==
    \/ mark.newest = 0 \/ at > mark.newest
    \/ kind = "session" /\ mark.oldest # 0 /\ at < mark.oldest

Fresh(mark) == {d \in Exists \cap scope : mark.newest = 0 \/ docs[d].at > mark.newest}

Backfill(mark) == {d \in Exists \cap scope : mark.oldest # 0 /\ docs[d].at < mark.oldest}

\* remaining: what a later pass would take.
Remaining(mark) == {d \in Exists \cap scope : Outside(mark, docs[d].at)}
-----------------------------------------------------------------------------
\* After a hit: on to the next, to the next page of the search, or to the end.
Continue(p) ==
    IF Cardinality(p.items) >= Cap THEN [p EXCEPT !.step = "deliver"]
    ELSE IF p.hits # <<>> THEN p
    ELSE IF p.more THEN [p EXCEPT !.step = "search"]
    ELSE [p EXCEPT !.step = "deliver"]

Begin ==
    /\ Step("idle") /\ kind \in Remote
    /\ pass' = [NoPass EXCEPT !.step = "search", !.since = cursor, !.mark = cursor]
    /\ UNCHANGED <<world, queued, saved, refused, causes, failures>>

\* Mutant: the offset of the next request stays where it was.
NextStartStuck(p, found) == p.start

NextStart(p, found) == p.start + Len(found)

\* Jira compares the next offset with the total.
MoreIssues(all, next) == next < Len(all)

\* Confluence looks for a next link or a full page.
MorePages(found, all, next) == next < Len(all) \/ Len(found) = Limit

\* Notion says has_more.
MoreNotion(all, next) == next < Len(all)

HasMore(found, all, next) ==
    CASE kind = "jira"       -> MoreIssues(all, next)
      [] kind = "confluence" -> MorePages(found, all, next)
      [] kind = "notion"     -> MoreNotion(all, next)

Search ==
    /\ Step("search")
    /\ \E all \in {OldestFirst(InWindow(pass.since))} :
        \E found \in {Slice(all, pass.start, Limit)} :
            pass' = IF found = <<>> THEN [pass EXCEPT !.step = "deliver"]
                    ELSE [pass EXCEPT !.step = "hit", !.hits = found,
                                      !.start = NextStart(pass, found),
                                      !.more = HasMore(found, all, NextStart(pass, found))]
    /\ UNCHANGED <<world, queued, saved, refused, causes, failures>>

Looked(h) == [pass EXCEPT !.hits = Tail(@), !.mark = Cover(@, h.at)]

Behind(h) == pass.since.newest # 0 /\ h.at <= pass.since.newest

SkipHit ==
    /\ Step("hit") /\ Behind(Head(pass.hits))
    /\ pass' = Continue([pass EXCEPT !.hits = Tail(@)])
    /\ UNCHANGED <<world, queued, saved, refused, causes, failures>>

\* render_issue: an issue comes with the search, and whatever fields it lacks,
\* a first line with its key is left of it.
HasIssue(d) == d \in Docs

TakeIssue ==
    LET h == Head(pass.hits)
    IN  /\ Step("hit") /\ ~Behind(h) /\ kind = "jira"
        /\ pass' = Continue([Looked(h) EXCEPT
               !.items = IF HasIssue(h.doc) THEN @ \cup {ExternalId(kind, h.doc, h)} ELSE @])
        /\ UNCHANGED <<world, queued, saved, refused, causes, failures>>

\* render_page: the body is fetched, and what was fetched names the version; a page
\* without a body is no item, but the cursor moves past it.
HasPage(d) == d \notin Blank

TakePage ==
    LET h == Head(pass.hits)
    IN  /\ Step("hit") /\ ~Behind(h) /\ kind = "confluence"
        /\ pass' = Continue([Looked(h) EXCEPT
               !.items = IF HasPage(h.doc) THEN @ \cup {ExternalId(kind, h.doc, docs[h.doc])}
                         ELSE @])
        /\ UNCHANGED <<world, queued, saved, refused, causes, failures>>

\* Whatever the error, Confluence skips the page and moves past it.
PageRefused ==
    LET h == Head(pass.hits)
    IN  /\ Step("hit") /\ ~Behind(h) /\ kind = "confluence"
        /\ failures < MaxFailures
        /\ failures' = failures + 1
        /\ refused' = refused \cup {ExternalId(kind, h.doc, g) : g \in {h, docs[h.doc]}}
        /\ pass' = Continue(Looked(h))
        /\ UNCHANGED <<world, queued, saved, causes>>

\* page_text: a page Notion does not show counts as empty, and as read.
PageText(id) ==
    \/ UNCHANGED <<refused, failures>>
    \/ /\ failures < MaxFailures
       /\ failures' = failures + 1
       /\ refused' = refused \cup {id}

\* A Notion page is an item with or without text. One whose blocks are not returned
\* is an item without text, which the seen-set then holds back for good.
TakeNotionPage ==
    LET h  == Head(pass.hits)
        id == ExternalId(kind, h.doc, h)
    IN  /\ Step("hit") /\ ~Behind(h) /\ kind = "notion"
        /\ pass' = Continue([Looked(h) EXCEPT !.items = @ \cup {id}])
        /\ PageText(id)
        /\ UNCHANGED <<world, queued, saved, causes>>
-----------------------------------------------------------------------------
\* Mutant: only what is newer than the forward watermark, as before backfill.
SelectedFresh(mark) == Slice(NewestFirst(Fresh(mark)), 0, Cap)

\* sync of the session connector: scan and sort, what is newer than the forward
\* watermark first, then backwards from the backfill frontier.
Selected(mark) ==
    LET both == NewestFirst(Fresh(mark)) \o NewestFirst(Backfill(mark))
    IN  Slice(both, 0, Cap)

Scan ==
    LET s == Selected(cursor)
    IN  /\ Step("idle") /\ kind = "session"
        /\ pass' = [NoPass EXCEPT !.step = IF s = <<>> THEN "deliver" ELSE "read", !.hits = s,
                                  !.since = cursor, !.mark = cursor]
        /\ causes' = IF cursor.newest # 0 /\ Cardinality(Fresh(cursor)) > Cap
                     THEN causes \cup {"burst"} ELSE causes
        /\ UNCHANGED <<world, queued, saved, refused, failures>>

\* digest_transcript: a transcript may hold nothing of the owner.
HasDigest(d) == d \notin Blank

\* One file is read and digested. An empty digest is no item but is covered.
Read ==
    LET h == Head(pass.hits)
        p == Looked(h)
    IN  /\ Step("read")
        /\ pass' = [p EXCEPT !.items = IF HasDigest(h.doc)
                                       THEN @ \cup {ExternalId(kind, h.doc, docs[h.doc])} ELSE @,
                             !.step = IF p.hits = <<>> THEN "deliver" ELSE "read"]
        /\ UNCHANGED <<world, queued, saved, refused, causes, failures>>

\* Mutant: of the paths it takes, the connector reads the first Cap only.
TakePathsCapped ==
    /\ Step("idle") /\ kind = "file"
    /\ queued' = {}
    /\ pass' = [NoPass EXCEPT !.step = "deliver",
                     !.items = {ExternalId(kind, d, docs[d]) :
                                   d \in {e \in queued \ Blank : Rank(e) <= 1}}]
    /\ UNCHANGED <<world, saved, refused, causes, failures>>

\* classify_format: text and images are read, anything else is skipped.
CanRead(d) == d \notin Blank

\* The file connector takes its pending paths; a format it cannot read, and a file
\* it cannot open, is skipped with a reason. It keeps no cursor.
TakePaths ==
    /\ Step("idle") /\ kind = "file"
    /\ queued' = {}
    /\ \E failed \in SUBSET {d \in queued : CanRead(d)} :
        /\ failed # {} => failures < MaxFailures
        /\ failures' = failures + (IF failed = {} THEN 0 ELSE 1)
        /\ refused' = refused \cup {ExternalId(kind, d, docs[d]) : d \in failed}
        /\ pass' = [NoPass EXCEPT !.step = "deliver",
                          !.items = {ExternalId(kind, d, docs[d]) :
                                        d \in {e \in queued \ failed : CanRead(e)}}]
    /\ UNCHANGED <<world, saved, causes>>
-----------------------------------------------------------------------------
\* The rest of the run: what is new passes the seen-set, then the cursor is saved.
Deliver ==
    /\ Step("deliver")
    /\ seen' = seen \cup pass.items
    /\ cursor' = pass.mark
    /\ pass' = NoPass
    /\ UNCHANGED <<world, queued, refused, causes, failures>>

\* Mutant: a failed pass saves how far it came.
FailsSaving ==
    /\ ~Step("idle") /\ failures < MaxFailures
    /\ failures' = failures + 1
    /\ cursor' = pass.mark
    /\ pass' = NoPass
    /\ causes' = IF kind = "file" THEN causes \cup {"forgotten"} ELSE causes
    /\ UNCHANGED <<world, queued, seen, refused>>

\* A search, a file or the store cannot be read, or the credential is gone: the run
\* ends with an error and saves nothing. The file connector has forgotten its paths.
Fails ==
    /\ ~Step("idle") /\ failures < MaxFailures
    /\ failures' = failures + 1
    /\ pass' = NoPass
    /\ causes' = IF kind = "file" THEN causes \cup {"forgotten"} ELSE causes
    /\ UNCHANGED <<world, queued, saved, refused>>
-----------------------------------------------------------------------------
\* Only Confluence pages carry a version number that anything looks at.
NextVersion(doc) == IF kind = "confluence" THEN doc.ver + 1 ELSE 1

\* A document is created or changed, at the time of the change before or later.
\* A change may resolve a Jira issue, open it again, or leave that as it is.
Edit ==
    \E d \in Docs, t \in {now, now + 1} \ {0} :
        /\ kind # "file" /\ edits < MaxEdits /\ t <= MaxTime
        /\ edits' = edits + 1
        /\ now' = t
        /\ \E r \in IF kind = "jira" THEN {0, docs[d].res, t} ELSE {0} :
              docs' = [docs EXCEPT ![d] = [at |-> t, ver |-> NextVersion(@), res |-> r]]
        /\ causes' = causes
               \cup (IF \E e \in Docs : docs[e].at = t THEN {"tie"} ELSE {})
               \cup (IF kind \in Remote /\ ~Step("idle") THEN {"moved"} ELSE {})
        /\ pass' = IF Step("idle") THEN pass ELSE [pass EXCEPT !.touched = @ \cup {d}]
        /\ UNCHANGED <<kind, scope, queued, saved, refused, failures>>

\* The owner uploads a file: ingest_paths.
Upload ==
    \E d \in Docs :
        /\ kind = "file" /\ edits < MaxEdits
        /\ edits' = edits + 1
        /\ queued' = queued \cup {d}
        /\ docs' = [docs EXCEPT ![d].at = 1, ![d].ver = 1]
        /\ now' = 1
        /\ UNCHANGED <<kind, scope, saved, pass, refused, causes, failures>>

\* configure: other roots; none at all means the default ones.
Configure ==
    \E roots \in SUBSET Docs :
        /\ kind = "session" /\ edits < MaxEdits
        /\ edits' = edits + 1
        /\ scope' = IF roots = {} THEN Docs ELSE roots
        /\ causes' = IF scope' \subseteq scope \/ (cursor = NoMark /\ Step("idle")) THEN causes
                     ELSE causes \cup {"rescoped"}
        /\ pass' = IF Step("idle") THEN pass
                   ELSE [pass EXCEPT !.touched = @ \cup (scope' \ scope)]
        /\ UNCHANGED <<kind, docs, now, queued, saved, refused, failures>>

Advance ==
    \/ Search \/ SkipHit
    \/ TakeIssue \/ TakePage \/ PageRefused \/ TakeNotionPage
    \/ Read
    \/ Deliver \/ Fails

ConnectorsNext ==
    \/ Begin \/ Scan \/ TakePaths
    \/ Advance
    \/ Edit \/ Upload \/ Configure

ConnectorsSpec == ConnectorsInit /\ [][ConnectorsNext]_connectorVars

\* The runtime polls the task of a run until it ends. Sessions and uploads are local
\* files, and a request to the Atlassian servers has 45 s (atlassian.rs); the client of
\* Notion is built without a timeout, and a request to it need not end.
FairConnectors == ConnectorsSpec /\ WF_connectorVars(kind # "notion" /\ Advance)
-----------------------------------------------------------------------------
\* Every variable holds a value of its type.
ConnectorsTypeOK ==
    /\ kind \in Kinds
    /\ docs \in [Docs -> [at : Times, ver : Nat, res : Nat]]
    /\ now \in Times /\ scope \subseteq Docs /\ queued \subseteq Docs
    /\ cursor \in Mark
    /\ seen \subseteq Ids /\ refused \subseteq Ids
    /\ pass \in Pass
    /\ causes \subseteq {"tie", "moved", "burst", "rescoped", "forgotten"}
    /\ edits \in Nat /\ failures \in Nat

Given(d) == d \in Blank \/ ExternalId(kind, d, docs[d]) \in seen \cup refused

\* What the cursor has passed was collected, or answered with a refusal or nothing,
\* in the form that counts as new there.
BetweenIsDone ==
    \A d \in Exists \cap scope :
        cursor.newest # 0 /\ ~Outside(cursor, docs[d].at) => Given(d)

\* An uploaded path is waiting, in a pass, collected, or skipped with a reason, as
\* long as no run has failed under it (FileConnector).
UploadsAreKept ==
    kind = "file" =>
        \A d \in Exists :
            d \in queued \/ Given(d) \/ ExternalId(kind, d, docs[d]) \in pass.items

\* The same where nothing happened that the connectors do not provide for: changes
\* of the same instant, changes while a search is paged through, more new session
\* files at once than a pass takes, and roots added later. Failures are no excuse.
CursorLeavesNothing == causes = {} => BetweenIsDone /\ UploadsAreKept

\* session.rs:509: "Between them is done"; ingestion/service.rs:151 wants no ceiling
\* on what the vault can ever hold. However many files appear at once, what lies
\* between the watermarks was collected.
BurstsAreCollected == causes \subseteq {"burst"} => BetweenIsDone

\* trigger_all stops when a pass leaves the cursor where it was: then everything that
\* was there when the pass began is behind the cursor, so nothing is left to take.
QuietMeansDone ==
    [][Deliver /\ kind # "file" /\ pass.mark = pass.since /\ "moved" \notin causes =>
          Remaining(cursor') \subseteq pass.touched]_connectorVars

\* Every pass ends whose requests end: paging by offset comes to the end of a list that
\* grows and is reordered meanwhile. Of Notion that cannot be said.
PassEnds == kind # "notion" /\ ~Step("idle") ~> Step("idle")
=============================================================================
