------------------------------ MODULE Processing ------------------------------
(***************************************************************************)
(* What goes to the language model and what comes back: ProcessingService  *)
(* takes one raw item from its text to facts and questions through         *)
(* LlmGateway, and PersonaService answers a question from what is stored.  *)
(* Modules Ingestion and Interview have the runs around it and the answers *)
(* to its questions; here a call is one item or one question of the owner. *)
(*                                                                         *)
(* A text is a sequence of tokens. Names are what RegexMasker recognises,  *)
(* a number n stands for the n-th placeholder of the masking call at hand, *)
(* and the title of an entry is one token of what the model was shown. Two *)
(* titles are near duplicates when they are equal. What the model answers  *)
(* is up to it. A topic is a label normalize_topic let through: of the     *)
(* identifiers it keeps the Numbers whole, of an e-mail address or of a    *)
(* placeholder only plain letters, which say nothing and are left out.     *)
(***************************************************************************)
EXTENDS Naturals, Sequences, FiniteSets, SequencesExt, FiniteSetsExt

CONSTANTS
    Names, Words,   \* identifiers the masker finds, and all other tokens
    Numbers,        \* identifiers that stay recognisable as a topic: phone numbers, keys
    Fragment,       \* the title of an entry from an answer that was cut off
    None,           \* no entry
    Items, Images,  \* raw items, and those that are images
    Questions,      \* what the owner may ask the persona
    TextOf,         \* what each item and each question says
    LabelSets,      \* what the classifier may answer, control labels only
    Providers,      \* the backends build_client may have selected
    Callers,        \* concurrent calls
    MaxAttempts,    \* RetryPolicy.max_attempts
    MaxHints,       \* titles shown to the summarizer
    MaxFacts,       \* facts in one persona context
    MaxTopics,      \* topics of one answer (at most seven labels, prompts.rs)
    MaxVocabulary,  \* topics shown to the classifier (MAX_HINTS of existing_topics)
    MaxEntries, MaxCalls, MaxFaults    \* bounds of the exploration

Control == {"certain", "uncertain", "needs-context", "noise", "one-off", "unclear"}

ASSUME ProcessingAssumption ==
    /\ Images \subseteq Items /\ Items \cap Questions = {}
    /\ TextOf \in [Items \cup Questions -> Seq(Names \cup Words)]
    /\ Numbers \subseteq Names
    /\ Names \cap Words = {} /\ Fragment \notin Names \cup Words
    /\ None \notin Names \cup Words \cup {Fragment}
    /\ (Names \cup Words \cup {Fragment, None}) \cap Nat = {}
    /\ IsFiniteSet(Names) /\ IsFiniteSet(Words)
    /\ LabelSets \subseteq SUBSET Control
    /\ Providers \subseteq {"cli", "openai", "anthropic"}
    /\ {MaxAttempts, MaxFacts, MaxEntries} \subseteq Nat \ {0}
    /\ {MaxHints, MaxTopics, MaxVocabulary, MaxCalls, MaxFaults} \subseteq Nat

VARIABLES
    provider,   \* the backend, fixed when the service set was built
    facts,      \* titles of the confirmed facts, with the item they came from
    topics,     \* topics of the facts, and of the questions that become facts when confirmed
    queue,      \* titles of the questions in the interview queue, likewise
    parked,     \* items in the pending queue
    log,        \* namespace "transfer.log": key, operation and item
    call,       \* per caller, the call in progress
    given,      \* items and questions that were begun
    found,      \* observer: the entries of items that were processed to the end
    filed,      \* observer: the titles that ever became a fact or a question
    silent,     \* observer: items set aside on an answer that said nothing at all
    tied,       \* observer: two overlapping appends counted the same
    faults

stores    == <<facts, topics, queue, parked, log>>
observers == <<found, filed, silent, tied>>
vars      == <<provider, stores, call, given, observers, faults>>

Placeholder == 1..Cardinality(Names)
Token == Names \cup Words \cup Placeholder \cup {Fragment}
Filed == [title : Token, from : Items, to : {"fact", "confirm", "deepen"}]

\* Which identifier each placeholder that was given out stands for.
UnmaskMap == UNION {[P -> Names] : P \in SUBSET Placeholder}

Call ==
    [step    : {"idle", "known", "context", "count", "put", "ask", "topics", "file"},
     op      : {"none", "vision", "summarize", "classify", "chat"},
     item    : Items \cup Questions \cup {"none"},
     masked  : SUBSET Token,        \* MaskedText of the item or the document
     map     : UnmaskMap,
     known   : SUBSET Token,        \* titles of facts read before summarizing
     vocab   : SUBSET Token,        \* topics shown to the classifier
     input   : SUBSET Token,        \* what the current call of the model is given
     key     : Nat,                 \* under which that is recorded
     tries   : 0..MaxAttempts,      \* attempts left
     entries : SUBSET Token,        \* entries not yet finished, as the model wrote them
     all     : SUBSET Token,        \* every entry of the item, restored
     entry   : Token \cup {None},   \* the one that is being classified or filed
     to      : {"none", "fact", "confirm", "deepen"}]

Idle == [step |-> "idle", op |-> "none", item |-> "none", masked |-> {}, map |-> <<>>,
         known |-> {}, vocab |-> {}, input |-> {}, key |-> 0, tries |-> 0, entries |-> {},
         all |-> {}, entry |-> None, to |-> "none"]

Init ==
    /\ provider \in Providers
    /\ facts = {} /\ topics = {} /\ queue = {} /\ parked = {} /\ log = {}
    /\ call = [p \in Callers |-> Idle]
    /\ given = {}
    /\ found = {} /\ filed = {} /\ silent = {} /\ tied = FALSE
    /\ faults = 0
-----------------------------------------------------------------------------
At(p, step) == call[p].step = step

Become(p, c) == call' = [call EXCEPT ![p] = c]

Titles(S) == {f.title : f \in S}

\* The candidate titles known_titles takes from the queue.
Asked == Titles({f \in queue : f.to = "confirm"})

Identifiers(text) == ToSet(text) \cap Names

\* u appears in the text before t does.
Before(text, u, t) == \E i \in DOMAIN text : text[i] = u /\ \A j \in 1..i : text[j] # t

\* find_matches and mask_pass: identifiers are numbered in the order they first appear,
\* and one that has its number keeps it. A placeholder never matches again, so one more
\* pass finds nothing.
NumberOf(text, t) == 1 + Cardinality({u \in Identifiers(text) : Before(text, u, t)})

MapOf(text) ==
    [n \in {NumberOf(text, t) : t \in Identifiers(text)} |->
        CHOOSE t \in Identifiers(text) : NumberOf(text, t) = n]

\* mask: the same identifier gets the same placeholder everywhere.
Mask(text) == {IF t \in Names THEN NumberOf(text, t) ELSE t : t \in ToSet(text)}

\* unmask: placeholders the map knows are replaced, everything else stays.
Unmask(token, map) == IF token \in DOMAIN map THEN map[token] ELSE token

\* Mutant: the titles shown to the summarizer are masked, not left out.
ShownMasked(S) == {IF t \in Names THEN 1 ELSE t : t \in S}

\* Mutant: every title is shown.
ShownAll(S) == S

\* known_titles: a title the masker finds something in is not shown.
Shown(S) == {t \in S : t \notin Names}

\* Questions first, then facts, until the budget is spent.
Hints(questions, known) ==
    LET first == Shown(questions)
        rest  == Shown(known) \ first
        left  == MaxHints - Cardinality(first)
    IN  IF left <= 0 THEN kSubset(MaxHints, first)
        ELSE {first \cup more : more \in kSubset(Min({left, Cardinality(rest)}), rest)}

\* route: doubt of any kind asks the owner, and so does an answer without labels. A
\* summary that says NOTHING has no entries and never comes here (split_facts).
Destination(labels) ==
    IF labels \cap {"noise", "one-off"} # {} THEN "confirm"
    ELSE IF "needs-context" \in labels THEN "deepen"
    ELSE IF labels = {} \/ labels \cap {"unclear", "uncertain"} # {} THEN "confirm"
    ELSE "fact"

\* Only a confirm question is left out when its title is a fact already.
Suppressed(labels, title, known) == Destination(labels) = "confirm" /\ title \in known
-----------------------------------------------------------------------------
\* Mutant: the model is called and nothing is recorded.
RecordingNothing(c, op, input) ==
    [c EXCEPT !.step = "ask", !.op = op, !.input = input, !.tries = MaxAttempts]

\* Recording comes first, then the call of the model.
Recording(c, op, input) == [c EXCEPT !.step = "count", !.op = op, !.input = input]

Asking(c) == [c EXCEPT !.step = "ask", !.tries = MaxAttempts]

\* process_one: an image is read by the model, a text is masked here.
BeginItem(p) ==
    \E i \in Items \ given :
        /\ At(p, "idle") /\ Cardinality(given) < MaxCalls
        /\ given' = given \cup {i}
        /\ Become(p, IF i \in Images THEN Asking([Idle EXCEPT !.op = "vision", !.item = i])
                     ELSE [Idle EXCEPT !.step = "known", !.item = i,
                                       !.masked = Mask(TextOf[i]), !.map = MapOf(TextOf[i])])
        /\ UNCHANGED <<provider, stores, observers, faults>>

\* known_titles reads facts and questions; a read that fails counts as none.
ReadKnown(p) ==
    LET c == call[p]
    IN  /\ At(p, "known")
        /\ \E known \in {Titles(facts), {}}, questions \in {Asked, {}} :
              /\ faults' = faults + (IF known = Titles(facts) /\ questions = Asked
                                     THEN 0 ELSE 1)
              /\ faults' <= MaxFaults
              /\ \E hint \in Hints(questions, known) :
                    Become(p, Recording([c EXCEPT !.known = known], "summarize",
                                        c.masked \cup hint))
        /\ UNCHANGED <<provider, stores, given, observers>>

\* TransferLog.append: the key is the instant and the number of records there are. The
\* clock is taken to stand still, so the number alone tells two records apart.
Count(p) ==
    LET n == Cardinality(log)
    IN  /\ At(p, "count")
        /\ tied' = (tied \/ \E q \in Callers \ {p} : At(q, "put") /\ call[q].key = n)
        /\ Become(p, [call[p] EXCEPT !.step = "put", !.key = n])
        /\ UNCHANGED <<provider, stores, given, found, filed, silent, faults>>

\* A record also holds the beginning of the text, which is left out here.
Record(c) == [key |-> c.key, op |-> c.op, item |-> c.item]

\* An image was read before it is recorded; everything else is asked afterwards.
PutRecord(p) ==
    LET c == call[p]
    IN  /\ At(p, "put")
        /\ log' = {r \in log : r.key # c.key} \cup {Record(c)}
        /\ Become(p, IF c.op = "vision" THEN [c EXCEPT !.step = "known"] ELSE Asking(c))
        /\ UNCHANGED <<provider, facts, topics, queue, parked, given, observers, faults>>
-----------------------------------------------------------------------------
\* The backends differ in what they take for an answer: one cut off at the token
\* limit, or an empty one. The CLI has no such limit.
CliTakes(answer) == answer # "empty"

\* Mutant: finish_reason is not looked at.
OpenAiTakesCut(answer) == answer # "empty"

OpenAiTakes(answer) == answer = "whole"

AnthropicTakes(answer) == answer \in {"whole", "cut", "empty"}

Takes(answer) ==
    CASE provider = "cli"       -> CliTakes(answer)
      [] provider = "openai"    -> OpenAiTakes(answer)
      [] provider = "anthropic" -> AnthropicTakes(answer)

Answers == {"whole", "empty"} \cup (IF provider = "cli" THEN {} ELSE {"cut"})

\* The CLI cannot be given an image.
Reads == provider # "cli"

\* with_retry: an attempt without an answer is followed by another. The last one
\* parks the item; a question of the persona has one attempt and returns the error.
Attempts(c) == IF c.op = "chat" THEN 1 ELSE MaxAttempts

Parks(p) ==
    /\ parked' = IF call[p].item \in Items THEN parked \cup {call[p].item} ELSE parked
    /\ Become(p, Idle)


AttemptFails(p) ==
    LET c == call[p]
    IN  /\ At(p, "ask")
        /\ \/ /\ MaxAttempts - c.tries + 1 < Attempts(c)
              /\ Become(p, [c EXCEPT !.tries = @ - 1])
              /\ UNCHANGED parked
           \/ /\ MaxAttempts - c.tries + 1 >= Attempts(c)
              /\ Parks(p)
        /\ UNCHANGED <<provider, facts, topics, queue, log, given, observers, faults>>

\* vision_extract returns what the image says, and it is not masked.
ImageRead(p) ==
    LET c == call[p]
    IN  /\ At(p, "ask") /\ c.op = "vision" /\ Reads
        /\ Become(p, Recording([c EXCEPT !.masked = ToSet(TextOf[c.item])], "vision",
                               ToSet(TextOf[c.item])))
        /\ UNCHANGED <<provider, stores, given, observers, faults>>

\* Mutant: the entry is restored before it is classified.
NextEntryRestored(c) ==
    LET e == CHOOSE x \in c.entries : TRUE
    IN  IF c.entries = {} THEN Idle
        ELSE Recording([c EXCEPT !.entries = @ \ {e}, !.entry = e, !.to = "none"],
                       "classify", {Unmask(e, c.map)} \cup c.vocab)

\* On to the next entry, or the item is done. An entry goes out as the model wrote it,
\* with the topics in use appended as they are stored: no masker sees them. In which
\* order the answer lists the entries makes no difference to the stores.
NextEntry(c) ==
    LET e == CHOOSE x \in c.entries : TRUE
    IN  IF c.entries = {} THEN Idle
        ELSE Recording([c EXCEPT !.entries = @ \ {e}, !.entry = e, !.to = "none"],
                       "classify", {e} \cup c.vocab)

Finished(c) == IF c.entries = {} THEN found \cup c.all ELSE found

\* The summary has entries or says NOTHING; one entry of an answer that was cut off
\* is a fragment, and an empty answer reads like NOTHING (split_facts).
Summarized(p) ==
    LET c == call[p]
        By(answer) == CASE answer = "whole" -> UNION {kSubset(n, c.input) : n \in 0..MaxEntries}
                        [] answer = "cut"   -> {{Fragment}}
                        [] answer = "empty" -> {{}}
    IN  /\ At(p, "ask") /\ c.op = "summarize"
        /\ \E answer \in Answers : \E entries \in By(answer) :
              /\ Takes(answer)
              /\ Become(p, IF entries = {} THEN Idle
                           ELSE [c EXCEPT !.step = "topics", !.entries = entries,
                                          !.all = {Unmask(e, c.map) : e \in entries}])
              /\ silent' = IF answer = "empty" THEN silent \cup {c.item} ELSE silent
        /\ UNCHANGED <<provider, stores, given, found, filed, tied, faults>>

\* existing_topics: the most used topics of the facts there are by then, read once for
\* the item. A read that fails counts as none.
ReadTopics(p) ==
    /\ At(p, "topics")
    /\ \E vocab \in SUBSET topics :
          /\ Cardinality(vocab) <= MaxVocabulary
          /\ Become(p, NextEntry([call[p] EXCEPT !.vocab = vocab]))
    /\ UNCHANGED <<provider, stores, given, observers, faults>>

\* topics_from_labels: topics the classifier may have drawn from what it was shown.
Labelled(c) == UNION {kSubset(n, c.input \cap (Numbers \cup Words)) : n \in 0..MaxTopics}

\* The labels decide where the entry goes; its title is restored first.
Classified(p) ==
    LET c     == call[p]
        title == Unmask(c.entry, c.map)
    IN  /\ At(p, "ask") /\ c.op = "classify"
        /\ \E answer \in Answers : \E labels \in IF answer = "whole" THEN LabelSets ELSE {{}} :
              /\ Takes(answer)
              /\ \/ /\ Suppressed(labels, title, c.known)
                    /\ Become(p, NextEntry(c))
                    /\ found' = Finished(c)
                 \/ /\ ~Suppressed(labels, title, c.known)
                    /\ Become(p, [c EXCEPT !.step = "file", !.entry = title,
                                           !.to = Destination(labels)])
                    /\ UNCHANGED found
        /\ UNCHANGED <<provider, stores, given, filed, silent, tied, faults>>

\* KnowledgeApi.upsert or InterviewApi.enqueue. A fact has the topics it was given from
\* now on, a candidate once the owner confirms it, which may be at any time (a
\* question to deepen becomes a fact without topics).
File(p) ==
    LET c == call[p]
        f == [title |-> c.entry, from |-> c.item, to |-> c.to]
    IN  /\ At(p, "file")
        /\ \/ c.to = "fact" /\ facts' = facts \cup {f} /\ UNCHANGED queue
           \/ c.to # "fact" /\ queue' = queue \cup {f} /\ UNCHANGED facts
        /\ \E labelled \in Labelled(c) :
              topics' = IF c.to = "deepen" THEN topics ELSE topics \cup labelled
        /\ filed' = filed \cup {c.entry}
        /\ Become(p, NextEntry(c))
        /\ found' = Finished(c)
        /\ UNCHANGED <<provider, parked, log, given, silent, tied, faults>>

\* Mutant: an entry that cannot be filed is left out, and the item goes on.
StoreFailsEntry(p) ==
    /\ At(p, "file")
    /\ faults < MaxFaults /\ faults' = faults + 1
    /\ Become(p, NextEntry(call[p]))
    /\ found' = Finished(call[p])
    /\ UNCHANGED <<provider, stores, given, filed, silent, tied>>

\* A store call fails, or the vault is locked: the item is parked as a whole, the
\* entries that were filed already stay.
StoreFails(p) ==
    /\ call[p].step \in {"count", "put", "file"}
    /\ faults < MaxFaults /\ faults' = faults + 1
    /\ Parks(p)
    /\ UNCHANGED <<provider, facts, topics, queue, log, given, observers>>
-----------------------------------------------------------------------------
\* ground_and_ask: chat and draft.
BeginChat(p) ==
    \E q \in Questions \ given :
        /\ At(p, "idle") /\ Cardinality(given) < MaxCalls
        /\ given' = given \cup {q}
        /\ Become(p, [Idle EXCEPT !.step = "context", !.item = q])
        /\ UNCHANGED <<provider, stores, observers, faults>>

\* The document is the context and the request, masked in a single pass. Without any
\* confirmed fact nothing is sent.
Context(p) ==
    LET c == call[p]
        Document(S) == SetToSeq(S) \o TextOf[c.item]
    IN  /\ At(p, "context")
        /\ \E S \in SUBSET Titles(facts) :
              /\ Cardinality(S) = Min({MaxFacts, Cardinality(Titles(facts))})
              /\ Become(p, IF S = {} THEN Idle
                           ELSE Asking([c EXCEPT !.op = "chat", !.masked = Mask(Document(S)),
                                                 !.map = MapOf(Document(S)),
                                                 !.input = Mask(Document(S)),
                                                 !.known = S]))
        /\ UNCHANGED <<provider, stores, given, observers, faults>>

Replied(p) ==
    /\ At(p, "ask") /\ call[p].op = "chat"
    /\ \E answer \in Answers : Takes(answer)
    /\ Become(p, Idle)
    /\ UNCHANGED <<provider, stores, given, observers, faults>>

\* Steps that end by themselves.
Work(p) ==
    \/ ReadKnown(p) \/ Count(p) \/ PutRecord(p) \/ ReadTopics(p) \/ File(p) \/ Context(p)

\* One attempt at the model: it ends when the backend answers, fails or times out.
Attempt(p) ==
    \/ ImageRead(p) \/ Summarized(p) \/ Classified(p) \/ Replied(p) \/ AttemptFails(p)

Next ==
    \E p \in Callers : BeginItem(p) \/ BeginChat(p) \/ Work(p) \/ Attempt(p) \/ StoreFails(p)

Spec == Init /\ [][Next]_vars

\* The runtime polls every task that can run. An attempt ends for certain only with
\* the CLI, which is given a timeout; the HTTP clients are built without one.
FairSpec ==
    /\ Spec
    /\ \A p \in Callers : WF_vars(Work(p) \/ (provider = "cli" /\ Attempt(p)))
-----------------------------------------------------------------------------
\* Every variable holds a value of its type.
TypeOK ==
    /\ provider \in Providers
    /\ facts \subseteq Filed /\ topics \subseteq Token /\ queue \subseteq Filed
    /\ parked \subseteq Items
    /\ \A r \in log : r.key \in Nat /\ r.item \in Items
    /\ call \in [Callers -> Call]
    /\ given \subseteq Items \cup Questions
    /\ found \subseteq Token /\ filed \subseteq Token /\ silent \subseteq Items
    /\ tied \in BOOLEAN /\ faults \in Nat

Sends(p) == At(p, "ask") /\ call[p].op # "vision"

\* Identifiers in a form normalize_topic keeps that a fact or question took from an image.
Pictured == Numbers \cap Titles({f \in facts \cup queue : f.from \in Images})

\* BR-K1: no identifier of a text leaves the device, neither with the text itself nor
\* with the titles that are shown along with it, which are stored unmasked. The text
\* of an image is excepted: vision_extract returns it unmasked (llm/client.rs:225).
\* With a classification the topics in use go out, which nothing masks. They are drawn
\* "from prior masked outputs" (service.rs:146) except where the prior item was an
\* image, so what may leave that way is what was filed from one, and nothing else.
OnlyMaskedLeaves ==
    \A p \in Callers : Sends(p) /\ call[p].item \notin Images =>
        call[p].input \cap Names \subseteq IF call[p].op = "classify" THEN Pictured ELSE {}

\* service.rs:218: no title is "attributed to the wrong person". What was filed from an
\* item names only whom the item names, and no placeholder is ever stored.
NamesAreItsOwn ==
    \A f \in facts \cup queue :
        f.title \notin Placeholder /\ (f.title \in Names => f.title \in ToSet(TextOf[f.from]))

\* BR-P3, "never silent drop": every entry of an item that was processed to the end
\* became a fact or a question, from this item or from one before it.
EntriesAreFiled == found \subseteq filed

\* client.rs:379: half a sentence is not stored as a fact, and an empty answer is no
\* verdict on an item. The Anthropic client has neither check.
WholeAnswersOnly ==
    provider # "anthropic" => Fragment \notin Titles(facts \cup queue) /\ silent = {}

\* What comes of an item is all of what the model said about it, and nothing else.
AnswersAreFiled == EntriesAreFiled /\ WholeAnswersOnly

\* US-2.3: what a summary or a classification is asked about is in the transfer log
\* by the time it leaves.
SentIsLogged ==
    \A p \in Callers :
        Sends(p) /\ call[p].op # "chat" /\ ~tied => Record(call[p]) \in log

=============================================================================
