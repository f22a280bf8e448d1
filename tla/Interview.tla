------------------------------ MODULE Interview ------------------------------
(***************************************************************************)
(* InterviewService: the encrypted queue of questions to the owner.        *)
(* enqueue suppresses near duplicates, answer turns a question into a      *)
(* confirmed fact and follow-up questions, expire sweeps the queue. The    *)
(* service has no lock: every store call is a step of its own, and the     *)
(* calls of the interface and of several ingestion runs interleave.        *)
(*                                                                         *)
(* A question never changes once stored, so a queue document is its id;    *)
(* what it says is the constant Content. list() reads and changes nothing. *)
(***************************************************************************)
EXTENDS Naturals, Sequences, FiniteSets, SequencesExt

CONSTANTS
    Callers,
    Items,          \* queue item ids; each is used for one question
    Content,        \* per item: its kind, text, source, and priority as enqueued
    Near,           \* pairs of texts is_near_duplicate holds for; not transitive
    DirOrder,       \* the order in which the store lists the items
    Legacy,         \* items that may have been stored before the near-duplicate rule
    MaxFollowUps,   \* MAX_FOLLOW_UPS
    None, Lapsed, Accepted, Rejected,
    MaxCalls, MaxFaults, MaxCrashes    \* bounds of the exploration

Ends == {None, Lapsed, Accepted, Rejected}

ASSUME InterviewAssumption ==
    /\ IsFiniteSet(Items) /\ Items \cap Ends = {}
    /\ IsInjective(<<None, Lapsed, Accepted, Rejected>>)
    /\ \A i \in Items : Content[i].kind \in {"confirm", "deepen"} /\ Content[i].priority \in Nat
    /\ \A pair \in Near : <<pair[2], pair[1]>> \in Near
    /\ \A i \in Items : <<Content[i].text, Content[i].text>> \in Near
    /\ DirOrder \in Seq(Items) /\ IsInjective(DirOrder) /\ ToSet(DirOrder) = Items
    /\ Legacy \subseteq Items
    /\ MaxFollowUps \in Nat /\ MaxCalls \in Nat /\ MaxFaults \in Nat /\ MaxCrashes \in Nat

VARIABLES
    queue,     \* namespace "queue": the items with a readable document
    torn,      \* the items whose document was only half written
    due,       \* the items past their expires_at
    used,      \* the ids given out so far
    made,      \* observer: how many facts were stored from each item
    fate,      \* observer: why an item left, or the item that took its place
    serial,    \* observer: no two calls have overlapped
    task,      \* per caller, the call in progress
    calls, faults, crashes

disk   == <<queue, torn>>
seen   == <<used, made, fate>>
bounds == <<calls, faults, crashes, serial>>
vars   == <<disk, due, seen, task, bounds>>

Removal == [id : Items, by : Items \cup {Lapsed}]

Task ==
    [step      : {"idle", "list", "drop", "put", "get", "upsert", "close", "sweep"},
     item      : Items \cup {None},      \* the item being enqueued
     answering : Items \cup {None},
     reply     : {"none", "skip", "reject", "accept"},
     todo      : Seq(Removal),           \* removals decided on and not yet made
     ups       : SUBSET Items]           \* follow-ups not yet enqueued

Idle == [step |-> "idle", item |-> None, answering |-> None, reply |-> "none",
         todo |-> <<>>, ups |-> {}]

Init ==
    /\ queue \in SUBSET Legacy
    /\ torn = {} /\ due = {}
    /\ used = queue
    /\ made = [i \in Items |-> 0]
    /\ fate = [i \in Items |-> None]
    /\ serial = TRUE
    /\ task = [p \in Callers |-> Idle]
    /\ calls = 0 /\ faults = 0 /\ crashes = 0
-----------------------------------------------------------------------------
SourceWeight(src) == CASE src = "Session" -> 40 [] src = "File" -> 10 [] OTHER -> 25

Score(c) == IF c.kind = "confirm" THEN 120 + SourceWeight(c.source) ELSE 125

\* finalize: only a priority left at 0 is scored. Follow-ups leave it at 0; what
\* processing enqueues has 5 (confirm) or 3 (deepen) and keeps it.
Priority(i) == IF Content[i].priority = 0 THEN Score(Content[i]) ELSE Content[i].priority

NearDuplicate(i, j) ==
    /\ Content[i].kind = Content[j].kind
    /\ <<Content[i].text, Content[j].text>> \in Near

\* list_all: the items of S in the order of the store.
Listed(S) ==
    LET upTo[n \in 0..Len(DirOrder)] ==
            IF n = 0 THEN <<>>
            ELSE IF DirOrder[n] \in S THEN Append(upTo[n - 1], DirOrder[n]) ELSE upTo[n - 1]
    IN  upTo[Len(DirOrder)]

\* Mutant: only the very same text is a duplicate (the rule before near duplicates).
SameTextDuplicates(i) ==
    Listed({e \in queue \ due : NearDuplicate(e, i) /\ Content[e].text = Content[i].text})

LiveDuplicates(i) == Listed({e \in queue \ due : NearDuplicate(e, i)})

\* max_by_key: of several items of the highest priority, the last.
Best(s) == s[CHOOSE k \in DOMAIN s :
                 \A j \in DOMAIN s \ {k} :
                     Priority(s[j]) < Priority(s[k]) \/ (Priority(s[j]) = Priority(s[k]) /\ j < k)]

\* Mutant: the sweep keeps the first of two, whatever their priorities.
CollapseKeepingFirst(acc, i) ==
    LET hits == {k \in DOMAIN acc.kept : NearDuplicate(acc.kept[k], i)}
        pos  == CHOOSE k \in hits : \A j \in hits : k <= j
    IN  IF hits = {} THEN [acc EXCEPT !.kept = Append(@, i)]
        ELSE [acc EXCEPT !.drop = Append(@, [id |-> i, by |-> acc.kept[pos]])]

\* The loop of expire over the items that are alive, in the order of the store:
\* each is compared with the first kept item it resembles, and one of the two is
\* marked for removal.
Collapse(acc, i) ==
    LET hits == {k \in DOMAIN acc.kept : NearDuplicate(acc.kept[k], i)}
        pos  == CHOOSE k \in hits : \A j \in hits : k <= j
        old  == acc.kept[pos]
    IN  IF hits = {} THEN [acc EXCEPT !.kept = Append(@, i)]
        ELSE IF Priority(i) > Priority(old)
             THEN [kept |-> [acc.kept EXCEPT ![pos] = i],
                   drop |-> Append(acc.drop, [id |-> old, by |-> i])]
             ELSE [acc EXCEPT !.drop = Append(@, [id |-> i, by |-> old])]

Losers(alive) ==
    LET after[n \in 0..Len(DirOrder)] ==
            IF n = 0 THEN [kept |-> <<>>, drop |-> <<>>]
            ELSE IF DirOrder[n] \in alive THEN Collapse(after[n - 1], DirOrder[n]) ELSE after[n - 1]
    IN  after[Len(DirOrder)].drop
-----------------------------------------------------------------------------
At(p, step) == task[p].step = step

Become(p, t) == task' = [task EXCEPT ![p] = t]

Begin(p, t) ==
    /\ At(p, "idle")
    /\ calls < MaxCalls
    /\ calls' = calls + 1
    /\ serial' = (serial /\ \A q \in Callers : At(q, "idle"))
    /\ Become(p, t)
    /\ UNCHANGED <<disk, due, made, fate, faults, crashes>>

BeginEnqueue(p) ==
    \E i \in Items \ used :
        /\ Begin(p, [Idle EXCEPT !.step = "list", !.item = i])
        /\ used' = used \cup {i}

BeginAnswer(p) ==
    \E i \in used, r \in {"skip", "reject", "accept"} :
        /\ Begin(p, [Idle EXCEPT !.step = "get", !.answering = i, !.reply = r])
        /\ UNCHANGED used

BeginExpire(p) == Begin(p, [Idle EXCEPT !.step = "sweep"]) /\ UNCHANGED used
-----------------------------------------------------------------------------
\* Where a finished enqueue leads: back to the caller, or on with the follow-ups
\* of the answer it is part of.
Resumed(t) ==
    IF t.answering = None THEN {Idle}
    ELSE IF t.ups = {} THEN {[t EXCEPT !.step = "close", !.item = None]}
    ELSE {[t EXCEPT !.step = "list", !.item = u, !.ups = @ \ {u}] : u \in t.ups}

\* enqueue lists the queue and decides: an equal or higher live duplicate stays,
\* otherwise every live duplicate is to be removed before the new item is stored.
Suppress(p) ==
    LET t == task[p]
        s == LiveDuplicates(t.item)
    IN  /\ At(p, "list") /\ torn = {}
        /\ s # <<>> /\ Priority(Best(s)) >= Priority(t.item)
        /\ fate' = [fate EXCEPT ![t.item] = Best(s)]
        /\ \E next \in Resumed(t) : Become(p, next)
        /\ UNCHANGED <<disk, due, used, made, bounds>>

Win(p) ==
    LET t == task[p]
        s == LiveDuplicates(t.item)
    IN  /\ At(p, "list") /\ torn = {}
        /\ s # <<>> => Priority(Best(s)) < Priority(t.item)
        /\ Become(p, [t EXCEPT !.step = IF s = <<>> THEN "put" ELSE "drop",
                               !.todo = [k \in DOMAIN s |-> [id |-> s[k], by |-> t.item]]])
        /\ UNCHANGED <<disk, due, seen, bounds>>

Put(p) ==
    /\ At(p, "put")
    /\ queue' = queue \cup {task[p].item}
    /\ \E next \in Resumed(task[p]) : Become(p, next)
    /\ UNCHANGED <<torn, due, seen, bounds>>

\* expire: first what is past due, then the losers among the rest.
Sweep(p) ==
    LET past == Listed(queue \cap due)
        todo == [k \in DOMAIN past |-> [id |-> past[k], by |-> Lapsed]]
                    \o Losers(queue \ due)
    IN  /\ At(p, "sweep") /\ torn = {}
        /\ Become(p, IF todo = <<>> THEN Idle ELSE [task[p] EXCEPT !.step = "drop", !.todo = todo])
        /\ UNCHANGED <<disk, due, seen, bounds>>

\* One queue.remove of enqueue or expire. Removing what is gone already is fine.
Drop(p) ==
    LET t    == task[p]
        h    == Head(t.todo)
        rest == Tail(t.todo)
    IN  /\ At(p, "drop")
        /\ queue' = queue \ {h.id}
        /\ torn' = torn \ {h.id}
        /\ fate' = IF h.id \in queue THEN [fate EXCEPT ![h.id] = h.by] ELSE fate
        /\ Become(p, IF rest # <<>> THEN [t EXCEPT !.todo = rest]
                     ELSE IF t.item = None THEN Idle
                     ELSE [t EXCEPT !.todo = rest, !.step = "put"])
        /\ UNCHANGED <<due, used, made, bounds>>
-----------------------------------------------------------------------------
\* Mutant: the question is removed before the fact is stored.
LookAndClose(p) ==
    LET t == task[p]
    IN  /\ At(p, "get") /\ t.answering \notin torn
        /\ Become(p, IF t.answering \notin queue \/ t.reply = "skip" THEN Idle
                     ELSE [t EXCEPT !.step = "close"])
        /\ UNCHANGED <<disk, due, seen, bounds>>

\* answer. Skip, and a blank answer, leave the question where it is.
Look(p) ==
    LET t == task[p]
    IN  /\ At(p, "get") /\ t.answering \notin torn
        /\ Become(p,
             IF t.answering \notin queue \/ t.reply = "skip" THEN Idle
             ELSE IF t.reply = "reject" /\ Content[t.answering].kind = "confirm"
                  THEN [t EXCEPT !.step = "close"]
                  ELSE [t EXCEPT !.step = "upsert"])
        /\ UNCHANGED <<disk, due, seen, bounds>>

\* The confirmed fact is stored under a new FactId. A deepen answer then derives
\* follow-ups, none when the language model fails.
FollowUps(i) ==
    IF Content[i].kind = "confirm" THEN {{}}
    ELSE {S \in SUBSET {u \in Items \ used :
                            Content[u].kind = "deepen" /\ Content[u].priority = 0} :
              Cardinality(S) <= MaxFollowUps}

Upsert(p) ==
    LET t == task[p]
    IN  /\ At(p, "upsert")
        /\ made' = [made EXCEPT ![t.answering] = @ + 1]
        /\ \E ups \in FollowUps(t.answering) :
            /\ used' = used \cup ups
            /\ \E next \in Resumed([t EXCEPT !.ups = ups]) : Become(p, next)
        /\ UNCHANGED <<disk, due, fate, bounds>>

Close(p) ==
    LET i == task[p].answering
    IN  /\ At(p, "close")
        /\ queue' = queue \ {i}
        /\ torn' = torn \ {i}
        /\ fate' = IF i \in queue
                   THEN [fate EXCEPT ![i] = IF /\ task[p].reply = "reject"
                                               /\ Content[i].kind = "confirm"
                                            THEN Rejected ELSE Accepted]
                   ELSE fate
        /\ Become(p, Idle)
        /\ UNCHANGED <<due, used, made, bounds>>
-----------------------------------------------------------------------------
\* Time: an item passes its expires_at.
Lapse ==
    \E i \in queue \ due :
        /\ due' = due \cup {i}
        /\ UNCHANGED <<disk, seen, task, bounds>>

\* Reading a half-written document fails; listing reads every document.
ReadFails(p) ==
    /\ \/ task[p].step \in {"list", "sweep"} /\ torn # {}
       \/ At(p, "get") /\ task[p].answering \in torn
    /\ Become(p, Idle)
    /\ UNCHANGED <<disk, due, seen, bounds>>

TearItem(p) ==
    /\ At(p, "put")
    /\ torn' = torn \cup {task[p].item}
    /\ UNCHANGED queue

\* Any other call fails as the environment likes: an I/O error, or the vault
\* locked meanwhile; `?` returns the error. upsert has then stored no readable fact.
StoreFails(p) ==
    /\ ~At(p, "idle")
    /\ faults < MaxFaults
    /\ faults' = faults + 1
    /\ UNCHANGED disk \/ TearItem(p)
    /\ Become(p, Idle)
    /\ UNCHANGED <<due, seen, calls, crashes, serial>>

Crash ==
    /\ crashes < MaxCrashes
    /\ crashes' = crashes + 1
    /\ UNCHANGED disk \/ \E p \in Callers : TearItem(p)
    /\ task' = [p \in Callers |-> Idle]
    /\ UNCHANGED <<due, seen, calls, faults, serial>>

Work(p) ==
    \/ Suppress(p) \/ Win(p) \/ Put(p)
    \/ Sweep(p) \/ Drop(p)
    \/ Look(p) \/ Upsert(p) \/ Close(p)
    \/ ReadFails(p)

Next ==
    \/ \E p \in Callers :
        BeginEnqueue(p) \/ BeginAnswer(p) \/ BeginExpire(p) \/ Work(p) \/ StoreFails(p)
    \/ Lapse
    \/ Crash

Spec == Init /\ [][Next]_vars
-----------------------------------------------------------------------------
\* Every variable holds a value of its type.
TypeOK ==
    /\ queue \subseteq Items /\ torn \subseteq Items /\ due \subseteq Items /\ used \subseteq Items
    /\ made \in [Items -> Nat]
    /\ fate \in [Items -> Items \cup Ends]
    /\ task \in [Callers -> Task]
    /\ serial \in BOOLEAN
    /\ calls \in Nat /\ faults \in Nat /\ crashes \in Nat

AtRest == \A p \in Callers : At(p, "idle")

\* IR-4: as long as calls do not overlap, no two live questions ask the same thing
\* unless both were there before the rule, whatever was enqueued, answered, swept,
\* failed or cut short by a crash (interview/service.rs, enqueue).
Deduplicated ==
    serial /\ AtRest =>
        \A i, j \in queue \ due : i # j /\ NearDuplicate(i, j) => {i, j} \subseteq Legacy

InFlight(i) == \E p \in Callers : task[p].item = i /\ task[p].step \in {"drop", "put"}

\* The item that stands for i after at most n replacements.
Heir[n \in 0..Cardinality(Items)] ==
    IF n = 0 THEN [i \in Items |-> i]
    ELSE [i \in Items |-> LET h == Heir[n - 1][i] IN IF fate[h] \in Items THEN fate[h] ELSE h]

\* A question gives way only to one at least as important that resembles it, and
\* following those to the end leads to a question that is still asked, about to be
\* stored, answered or expired, unless a call was cut short: "we never drop both"
\* (service.rs, enqueue, expire).
NothingVanishes ==
    faults + crashes = 0 => \A i \in Items : fate[i] \in Items =>
        LET last == Heir[Cardinality(Items)][i]
        IN  /\ NearDuplicate(fate[i], i) /\ Priority(fate[i]) >= Priority(i)
            /\ fate[last] \notin Items
            /\ last \in queue \/ InFlight(last) \/ fate[last] \in Ends \ {None}

\* An answered question is removed only once the fact made from the answer is
\* stored: no failure, crash or concurrent call loses what the owner said.
AnswersAreKept == \A i \in Items : fate[i] = Accepted => made[i] > 0
=============================================================================
