------------------------------- MODULE Recall -------------------------------
(***************************************************************************)
(* How facts are found again: the in-memory search index                   *)
(* (knowledge/search_index.rs), the topic pages and the graph projected    *)
(* from it, and the three reads of the persona that work over them         *)
(* (persona/service.rs, context.rs, intent.rs, query.rs, selection.rs).    *)
(*                                                                         *)
(* The index is derived state, updated in place on every upsert and        *)
(* rebuilt after a purge and on first use.  A question to the persona is   *)
(* not one read: it searches for the prompt, then for everything, then     *)
(* fetches candidate after candidate, and facts come and go in between.    *)
(*                                                                         *)
(* A text is a sequence of characters and a character a number: 0 is a     *)
(* separator, 1..9 are capital and 11..19 small Latin letters, and from 20 *)
(* on come the CJK characters, so that numbers order as code points do.    *)
(* The write of the store and that of the index are one step: Knowledge    *)
(* takes them apart.  Every stored fact is confirmed (upsert refuses the   *)
(* others) and none has links (nothing fills them).                        *)
(***************************************************************************)
EXTENDS Integers, FiniteSets, SequencesExt

CONSTANTS
    Ids,        \* fact ids, numbers: random uuids, compared by their bytes
    Facts,      \* records [title, body, topics, concern, at, source]
    Prompts,    \* records [text, history, cues]: what the owner may ask
    MaxFacts,   \* facts the context holds (12)
    FetchCap,   \* facts fetched in full for one question (64)
    Highlights, \* cards of the mini-home (9)
    MaxTopics   \* topics of a fact (7: three, and four labels the router does not know)

Text == Seq(Nat)

(* A classification is at most four labels and three topics (prompts.rs:200-216),
   and what is no control word becomes a topic (router.rs:60). *)
ASSUME RecallAssumption ==
    /\ Ids \subseteq Nat
    /\ \A f \in Facts :
        /\ f.title \in Text /\ f.body \in Text /\ f.at \in Nat
        /\ f.topics \in Seq(Text) /\ Len(f.topics) <= MaxTopics
    /\ \A p \in Prompts :
        p.text \in Text /\ p.history \in Seq([owner : BOOLEAN, text : Text])
    /\ MaxFacts \in Nat \ {0} /\ FetchCap \in Nat \ {0} /\ Highlights \in Nat /\ MaxTopics \in Nat

VARIABLES
    store,      \* the stored facts, by id
    used,       \* the ids that were ever given out
    postings,   \* token -> the ids of the facts that hold it
    tokens,     \* id -> the tokens it was indexed under
    meta,       \* id -> the fact as the index knows it
    built,      \* the index was built since the services were created
    ask         \* the question being answered

recallVars == <<store, used, postings, tokens, meta, built, ask>>

-----------------------------------------------------------------------------
(* Characters and texts. *)

IsCjk(c) == c >= 20
IsLatin(c) == c \in 1..19
Lower(t) == [i \in DOMAIN t |-> IF t[i] \in 1..9 THEN t[i] + 10 ELSE t[i]]

(* a orders before b, character by character. *)
TextLess(a, b) ==
    \E i \in 1..Len(b) :
        /\ i <= Len(a) + 1
        /\ \A k \in 1..(i - 1) : a[k] = b[k]
        /\ i <= Len(a) => a[i] < b[i]

(* S as a sequence in the strict order R, a set of pairs. *)
Ordered(S, R) ==
    LET ahead == [x \in S |-> Cardinality({ y \in S : <<y, x>> \in R })]
    IN  [n \in 1..Cardinality(S) |-> CHOOSE x \in S : ahead[x] = n - 1]

(* The longest stretches of t whose characters are all of one kind. *)
Runs(t, Kind(_)) ==
    { SubSeq(t, r[1], r[2]) : r \in
        { r \in (DOMAIN t) \X (DOMAIN t) :
            /\ r[1] <= r[2]
            /\ \A i \in r[1]..r[2] : Kind(t[i])
            /\ r[1] = 1 \/ ~Kind(t[r[1] - 1])
            /\ r[2] = Len(t) \/ ~Kind(t[r[2] + 1]) } }

Pairs(r) == { SubSeq(r, i, i + 1) : i \in 1..(Len(r) - 1) }

\* Mutant: a whole run is one token.
CjkTokensWhole(r) == {r}

CjkTokens(r) == IF Len(r) = 1 THEN {r} ELSE Pairs(r)

Tokenize(t) ==
    { Lower(r) : r \in Runs(t, IsLatin) }
        \cup UNION { CjkTokens(r) : r \in Runs(t, IsCjk) }

(* Where term occurs in text, from the left and without overlaps. *)
Matches(term, text) ==
    LET starts[i \in DOMAIN text] ==
            /\ i + Len(term) - 1 <= Len(text)
            /\ SubSeq(text, i, i + Len(term) - 1) = term
            /\ \A j \in 1..(i - 1) : i < j + Len(term) => ~starts[j]
    IN  { i \in DOMAIN text : starts[i] }

IsAlphanumeric(c) == c # 0

(* A query's terms, each with the places where it stands in the query. *)
TermsAt(q) ==
    { r \in (DOMAIN q) \X (DOMAIN q) :
        /\ r[1] < r[2]
        /\ \A i \in r[1]..r[2] : IsAlphanumeric(q[i])
        /\ r[1] = 1 \/ ~IsAlphanumeric(q[r[1] - 1])
        /\ r[2] = Len(q) \/ ~IsAlphanumeric(q[r[2] + 1]) }

TermHits(q, text) ==
    Cardinality({ p \in TermsAt(q) \X (DOMAIN text) :
                    p[2] \in Matches(Lower(SubSeq(q, p[1][1], p[1][2])), Lower(text)) })

TitleRelevance(q, f) == 3 * TermHits(q, f.title)

Relevance(q, f) == TitleRelevance(q, f) + TermHits(q, f.body)

-----------------------------------------------------------------------------
(* The index. *)

EmptyIndex == [postings |-> <<>>, tokens |-> <<>>, meta |-> <<>>]

Without(fn, ids) == [i \in DOMAIN fn \ ids |-> fn[i]]

Index == [postings |-> postings, tokens |-> tokens, meta |-> meta]

IndexRemove(ix, id) ==
    LET old == IF id \in DOMAIN ix.tokens THEN ix.tokens[id] ELSE {}
        left == [t \in DOMAIN ix.postings |->
                    IF t \in old THEN ix.postings[t] \ {id} ELSE ix.postings[t]]
    IN  [postings |-> Without(left, { t \in DOMAIN left : left[t] = {} }),
         tokens |-> Without(ix.tokens, {id}),
         meta |-> Without(ix.meta, {id})]

\* Mutant: an edit adds its tokens and leaves the old ones.
IndexUpsertOver(ix, id, f) ==
    LET toks == Tokenize(f.title \o <<0>> \o f.body)
        held(t) == IF t \in DOMAIN ix.postings THEN ix.postings[t] ELSE {}
    IN  [postings |-> [t \in DOMAIN ix.postings \cup toks |->
                          IF t \in toks THEN held(t) \cup {id} ELSE held(t)],
         tokens |-> [i \in DOMAIN ix.tokens \cup {id} |->
                        IF i = id THEN toks ELSE ix.tokens[i]],
         meta |-> [i \in DOMAIN ix.meta \cup {id} |->
                      IF i = id THEN f ELSE ix.meta[i]]]

IndexUpsert(ix, id, f) ==
    LET rest == IndexRemove(ix, id)
        toks == Tokenize(f.title \o <<0>> \o f.body)
        held(t) == IF t \in DOMAIN rest.postings THEN rest.postings[t] ELSE {}
    IN  [postings |-> [t \in DOMAIN rest.postings \cup toks |->
                          IF t \in toks THEN held(t) \cup {id} ELSE held(t)],
         tokens |-> [i \in DOMAIN rest.tokens \cup {id} |->
                        IF i = id THEN toks ELSE rest.tokens[i]],
         meta |-> [i \in DOMAIN rest.meta \cup {id} |->
                      IF i = id THEN f ELSE rest.meta[i]]]

(* clear, then every fact in the order the store lists them. *)
Rebuilt(facts) ==
    LET ids == SetToSeq(DOMAIN facts)
        after[n \in 0..Cardinality(DOMAIN facts)] ==
            IF n = 0 THEN EmptyIndex ELSE IndexUpsert(after[n - 1], ids[n], facts[ids[n]])
    IN  after[Cardinality(DOMAIN facts)]

SetIndex(ix) ==
    /\ postings' = ix.postings
    /\ tokens' = ix.tokens
    /\ meta' = ix.meta

(* The whole of an index lookup: every token of the query, or everything. *)
Search(q) ==
    LET toks == Tokenize(q)
    IN  IF \A i \in DOMAIN q : q[i] = 0 THEN DOMAIN meta
        ELSE IF toks = {} \/ ~(toks \subseteq DOMAIN postings) THEN {}
        ELSE { id \in DOMAIN meta : \A t \in toks : id \in postings[t] }

-----------------------------------------------------------------------------
(* Topic pages and the graph: two groupings of the same facts. *)

TopicKey(topic) == SelectSeq(topic, IsAlphanumeric)

Keys(ids) ==
    { TopicKey(meta[p[1]].topics[p[2]]) :
        p \in { p \in ids \X (1..MaxTopics) : p[2] \in DOMAIN meta[p[1]].topics } }
            \ {<<>>}

(* The facts of a group, each with the positions of the topics that lead there. *)
Surfaces(ids, key) ==
    { p \in ids \X (1..MaxTopics) :
        /\ p[2] \in DOMAIN meta[p[1]].topics
        /\ TopicKey(meta[p[1]].topics[p[2]]) = key }

Members(ids, key) == { p[1] : p \in Surfaces(ids, key) }

(* The commonest spelling, of equally common ones the smallest. *)
Spelling(ids, key) ==
    LET at(p) == meta[p[1]].topics[p[2]]
        count(s) == Cardinality({ p \in Surfaces(ids, key) : at(p) = s })
        seen == { at(p) : p \in Surfaces(ids, key) }
    IN  CHOOSE s \in seen : \A u \in seen \ {s} :
            \/ count(s) > count(u)
            \/ count(s) = count(u) /\ TextLess(s, u)

(* A page lists its facts by recency, then by title; stable, so then by id. *)
PageOrder(a, b) ==
    \/ meta[a].at > meta[b].at
    \/ /\ meta[a].at = meta[b].at
       /\ \/ TextLess(meta[a].title, meta[b].title)
          \/ meta[a].title = meta[b].title /\ a < b

Page(ids, key) ==
    LET members == Members(ids, key)
    IN  [topic |-> Spelling(ids, key),
         facts |-> Ordered(members, { p \in members \X members : PageOrder(p[1], p[2]) }),
         mentions |-> Cardinality(members),
         concerns |-> Cardinality({ i \in members : meta[i].concern }),
         lastSeen |-> CHOOSE n \in { meta[i].at : i \in members } :
                          \A i \in members : meta[i].at <= n]

TopicPages(ids) == { Page(ids, k) : k \in Keys(ids) }

PageLess(p, r) ==
    \/ p.mentions > r.mentions
    \/ /\ p.mentions = r.mentions
       /\ p.lastSeen > r.lastSeen \/ (p.lastSeen = r.lastSeen /\ TextLess(p.topic, r.topic))

(* Hubs, with an edge from each member: a topic of one fact gets none. *)
Graph(ids) ==
    { [label |-> Spelling(ids, k), members |-> Members(ids, k)] :
        k \in { k \in Keys(ids) : Cardinality(Members(ids, k)) >= 2 } }

Degree(graph, id) == Cardinality({ h \in graph : id \in h.members })

First(s, n) == SubSeq(s, 1, IF Len(s) < n THEN Len(s) ELSE n)

\* Mutant: the degree counts the topics of a fact, shared or not.
RankHighlightsByTopics(facts, graph) ==
    LET count(i) == Len(facts[i].topics)
        before == { p \in (DOMAIN facts) \X (DOMAIN facts) :
                      \/ count(p[1]) > count(p[2])
                      \/ count(p[1]) = count(p[2]) /\ p[1] < p[2] }
    IN  First(Ordered(DOMAIN facts, before), Highlights)

HighlightBefore(facts, graph, a, b) ==
    \/ Degree(graph, a) > Degree(graph, b)
    \/ /\ Degree(graph, a) = Degree(graph, b)
       /\ \/ TextLess(facts[a].title, facts[b].title)
          \/ facts[a].title = facts[b].title /\ a < b

(* The mini-home: confirmed facts by degree, title and id. *)
RankHighlights(facts, graph) ==
    LET before == { p \in (DOMAIN facts) \X (DOMAIN facts) :
                      HighlightBefore(facts, graph, p[1], p[2]) }
    IN  First(Ordered(DOMAIN facts, before), Highlights)

-----------------------------------------------------------------------------
(* Questions. *)

(* What a question asks for, by the cue words it holds. *)
Detect(cues) ==
    LET aboutSelf == cues \cap {"self", "recent"} # {}
    IN  IF aboutSelf /\ "concern" \in cues THEN "concerns"
        ELSE IF aboutSelf /\ "interest" \in cues THEN "interests"
        ELSE IF {"recent", "open"} \subseteq cues THEN "recent"
        ELSE "keyword"

(* The request and the owner's last three turns, the newest first. *)
RetrievalQuery(p) ==
    LET size == Len(p.history)
        owned == { n \in 1..size : p.history[n].owner }
        recent == { n \in owned : Cardinality({ m \in owned : m > n }) < 3 }
        query[k \in 0..size] ==
            IF k = 0 THEN p.text
            ELSE IF size + 1 - k \in recent
                 THEN query[k - 1] \o <<0>> \o p.history[size + 1 - k].text
                 ELSE query[k - 1]
    IN  query[size]

NoPrompt == [text |-> <<>>, history |-> <<>>, cues |-> {}]

(* hits: what the first search found, id -> title; queue: candidates still to
   be fetched; facts: those fetched; ctx: the entries of the answer.        *)
Unasked ==
    [pc |-> "idle", kind |-> "none", prompt |-> NoPrompt, hits |-> <<>>, queue |-> <<>>,
     facts |-> <<>>, total |-> 0, quiet |-> TRUE, ctx |-> <<>>]

Resting == ask.pc \in {"idle", "done"}

Titles(ids) == [i \in ids |-> meta[i].title]

\* Mutant: the candidates are cut in the order of their ids.
RankedById(q, titles) ==
    First(Ordered(DOMAIN titles, { p \in (DOMAIN titles) \X (DOMAIN titles) : p[1] < p[2] }), FetchCap)

(* Candidates by what a title tells, the facts fetched in full to the cap. *)
Ranked(q, titles) ==
    LET rel(i) == 3 * TermHits(q, titles[i])
        before == { p \in (DOMAIN titles) \X (DOMAIN titles) :
                      rel(p[1]) > rel(p[2]) \/ (rel(p[1]) = rel(p[2]) /\ p[1] < p[2]) }
    IN  First(Ordered(DOMAIN titles, before), FetchCap)

(* One fact before another as grounding: relevance, then recency, then id. *)
Better(q, facts, a, b) ==
    LET ra == Relevance(q, facts[a])
        rb == Relevance(q, facts[b])
    IN  \/ ra > rb
        \/ ra = rb /\ facts[a].at > facts[b].at
        \/ ra = rb /\ facts[a].at = facts[b].at /\ a < b

SelectContext(q, facts) ==
    LET before == { p \in (DOMAIN facts) \X (DOMAIN facts) : Better(q, facts, p[1], p[2]) }
    IN  First(Ordered(DOMAIN facts, before), MaxFacts)

RecallInit ==
    /\ store = <<>> /\ used = {}
    /\ postings = <<>> /\ tokens = <<>> /\ meta = <<>>
    /\ built = FALSE
    /\ ask = Unasked

-----------------------------------------------------------------------------
(* The facts change, by calls of other parts. *)

(* upsert: a new fact under a fresh id, or an edit of a stored one. *)
Put(id, f) ==
    /\ id \in DOMAIN store \/ id \notin used
    /\ store' = [i \in DOMAIN store \cup {id} |-> IF i = id THEN f ELSE store[i]]
    /\ used' = used \cup {id}
    /\ IF built THEN SetIndex(IndexUpsert(Index, id, f))
       ELSE SetIndex(IndexUpsert(Rebuilt(store), id, f))
    /\ built' = TRUE
    /\ ask' = [ask EXCEPT !.quiet = FALSE]

(* delete_facts_from_source: what is left is indexed anew. *)
Purge(source) ==
    LET gone == { i \in DOMAIN store : store[i].source = source }
    IN  /\ gone # {}
        /\ store' = Without(store, gone)
        /\ SetIndex(Rebuilt(Without(store, gone)))
        /\ built' = TRUE
        /\ ask' = [ask EXCEPT !.quiet = FALSE]
        /\ UNCHANGED used

(* The program starts anew: the index is empty, nothing is being answered. *)
Restart ==
    /\ built
    /\ SetIndex(EmptyIndex)
    /\ built' = FALSE
    /\ ask' = Unasked
    /\ UNCHANGED <<store, used>>

(* ensure_index, the first thing every read does. *)
Build ==
    /\ ~built
    /\ SetIndex(Rebuilt(store))
    /\ built' = TRUE
    /\ UNCHANGED <<store, used, ask>>

-----------------------------------------------------------------------------
(* The persona reads. *)

facts_and_index == <<store, used, postings, tokens, meta, built>>

(* build_context begins: the targeted hits. *)
AskKeyword(p) ==
    /\ Resting /\ built
    /\ \E i \in DOMAIN p.text : p.text[i] # 0
    /\ Detect(p.cues) = "keyword"
    /\ ask' = [Unasked EXCEPT !.pc = "population", !.kind = "keyword", !.prompt = p,
                              !.hits = Titles(Search(RetrievalQuery(p)))]
    /\ UNCHANGED facts_and_index

\* Mutant: the hits are counted, not the population.
AskPopulationOfHits ==
    LET all == Titles(Search(<<>>))
        titles == IF Cardinality(DOMAIN ask.hits) < MaxFacts THEN all ELSE ask.hits
    IN  /\ ask.pc = "population" /\ built
        /\ ask' = [ask EXCEPT !.pc = "fetch", !.hits = <<>>,
                              !.total = Cardinality(DOMAIN ask.hits),
                              !.queue = Ranked(RetrievalQuery(ask.prompt), titles)]
        /\ UNCHANGED facts_and_index

(* The population, which also widens the candidates when hits are few. *)
AskPopulation ==
    LET all == Titles(Search(<<>>))
        wide == Cardinality(DOMAIN ask.hits) < MaxFacts
        titles == IF ~wide THEN ask.hits
                  ELSE [i \in DOMAIN ask.hits \cup DOMAIN all |->
                           IF i \in DOMAIN ask.hits THEN ask.hits[i] ELSE all[i]]
    IN  /\ ask.pc = "population" /\ built
        /\ ask' = [ask EXCEPT !.pc = "fetch", !.hits = <<>>,
                              !.total = Cardinality(DOMAIN all),
                              !.queue = Ranked(RetrievalQuery(ask.prompt), titles)]
        /\ UNCHANGED facts_and_index

(* One get; a fact that is gone by now is passed over. *)
AskFetch ==
    /\ ask.pc = "fetch" /\ ask.queue # <<>>
    /\ LET id == Head(ask.queue)
       IN  ask' = [ask EXCEPT !.queue = Tail(@),
                      !.facts = IF id \notin DOMAIN store THEN @
                                ELSE [i \in DOMAIN @ \cup {id} |->
                                         IF i = id THEN store[id] ELSE @[i]]]
    /\ UNCHANGED facts_and_index

AskSelect ==
    /\ ask.pc = "fetch" /\ ask.queue = <<>>
    /\ ask' = [ask EXCEPT !.pc = "done", !.facts = <<>>,
                          !.ctx = SelectContext(RetrievalQuery(ask.prompt), ask.facts)]
    /\ UNCHANGED facts_and_index

(* build_topic_context: a question about the owner reads the topic pages; an
   entry stands for a page and carries the id of its leading fact.          *)
AskTopics(p) ==
    LET want == Detect(p.cues)
        kept(page) == CASE want = "concerns" -> page.concerns > 0
                        [] want = "interests" -> page.mentions > 1
                        [] OTHER -> TRUE
        pages == { page \in TopicPages(DOMAIN meta) : kept(page) }
        before == { r \in pages \X pages :
                      IF want = "recent" /\ r[1].lastSeen # r[2].lastSeen
                      THEN r[1].lastSeen > r[2].lastSeen ELSE PageLess(r[1], r[2]) }
        chosen == First(Ordered(pages, before), MaxFacts)
    IN  /\ Resting /\ built
        /\ want # "keyword"
        /\ ask' = [Unasked EXCEPT !.pc = "done", !.kind = want, !.prompt = p,
                         !.total = FoldLeft(LAMBDA n, page : n + page.mentions, 0, chosen),
                         !.ctx = [i \in DOMAIN chosen |-> Head(chosen[i].facts)]]
        /\ UNCHANGED facts_and_index

(* minihome: the summaries first, then the graph. *)
AskHome ==
    /\ Resting /\ built
    /\ ask' = [Unasked EXCEPT !.pc = "graph", !.kind = "home",
                              !.facts = [i \in Search(<<>>) |-> meta[i]]]
    /\ UNCHANGED facts_and_index

AskGraph ==
    /\ ask.pc = "graph" /\ built
    /\ ask' = [ask EXCEPT !.pc = "done", !.facts = <<>>,
                          !.ctx = RankHighlights(ask.facts, Graph(DOMAIN meta))]
    /\ UNCHANGED facts_and_index

RecallNext ==
    \/ \E id \in Ids, f \in Facts : Put(id, f)
    \/ \E f \in Facts : Purge(f.source)
    \/ Restart
    \/ Build
    \/ \E p \in Prompts : AskKeyword(p) \/ AskTopics(p)
    \/ AskPopulation
    \/ AskFetch
    \/ AskSelect
    \/ AskHome
    \/ AskGraph

RecallSpec == RecallInit /\ [][RecallNext]_recallVars

-----------------------------------------------------------------------------
(* Properties. *)

(* Facts, index and question are well formed, the context within its bound. *)
RecallTypeOK ==
    /\ DOMAIN store \subseteq used /\ used \subseteq Ids
    /\ \A i \in DOMAIN store : store[i] \in Facts
    /\ DOMAIN tokens = DOMAIN meta
    /\ \A t \in DOMAIN postings : postings[t] \subseteq Ids
    /\ built \in BOOLEAN
    /\ ask.pc \in {"idle", "population", "fetch", "graph", "done"}
    /\ Len(ask.queue) <= FetchCap
    /\ ask.kind # "home" => Len(ask.ctx) <= MaxFacts

(* The index kept up in place is the one a rebuild would make: no edit leaves
   a fact findable by words it no longer holds, no emptied entry stays.      *)
IndexIsRebuild == built => Index = Rebuilt(store)

(* Every stretch of two or more CJK characters of a stored text, and every
   Latin word whatever its case, finds the fact it stands in.                *)
PhrasesAreFound ==
    built => \A id \in DOMAIN store : \A t \in {store[id].title, store[id].body} :
        /\ \A r \in Runs(t, IsCjk) : \A i, j \in DOMAIN r :
              i < j => id \in Search(SubSeq(r, i, j))
        /\ \A r \in Runs(t, IsLatin) : id \in Search(r) /\ id \in Search(Lower(r))

(* A keyword question answered while nothing changed rests on the best facts:
   one left out is worse than each one used, unless as many facts as are
   fetched come before it by title alone.  No fact is used twice.            *)
AnswersUseBest ==
    (ask.pc = "done" /\ ask.kind = "keyword" /\ ask.quiet) =>
        LET q == RetrievalQuery(ask.prompt)
            hits == Search(q)
            pool == IF Cardinality(hits) < MaxFacts THEN DOMAIN store ELSE hits
            before(f) == { g \in pool :
                \/ TitleRelevance(q, store[g]) > TitleRelevance(q, store[f])
                \/ TitleRelevance(q, store[g]) = TitleRelevance(q, store[f]) /\ g < f }
            inCtx == { ask.ctx[i] : i \in DOMAIN ask.ctx }
        IN  /\ Cardinality(inCtx) = Len(ask.ctx)
            /\ inCtx \subseteq pool
            /\ \A f \in pool \ inCtx : Cardinality(before(f)) < FetchCap =>
                  /\ Len(ask.ctx) = MaxFacts
                  /\ \A g \in inCtx : Better(q, store, g, f)

(* No fact off the mini-home shares more topics with others than one on it. *)
HighlightsAreShared ==
    (ask.pc = "done" /\ ask.kind = "home" /\ ask.quiet) =>
        LET shared(i) == Cardinality({ k \in { TopicKey(store[i].topics[n]) :
                                                n \in DOMAIN store[i].topics } \ {<<>>} :
                            \E j \in DOMAIN store \ {i} : \E n \in DOMAIN store[j].topics :
                                TopicKey(store[j].topics[n]) = k })
            inCtx == { ask.ctx[i] : i \in DOMAIN ask.ctx }
        IN  \A f \in DOMAIN store \ inCtx :
                /\ Len(ask.ctx) = Highlights
                /\ \A g \in inCtx : shared(g) >= shared(f)

(* What the persona answers from and what the mini-home shows are the best of
   the stored facts, as long as nothing changes in between.                  *)
BestFactsAreUsed == AnswersUseBest /\ HighlightsAreShared

(* The confirmed population an answer reports is never smaller than the facts
   it names, whatever was stored or purged between the reads.                *)
TotalCoversEntries ==
    (ask.pc = "done" /\ ask.kind = "keyword") => Len(ask.ctx) <= ask.total
=============================================================================
