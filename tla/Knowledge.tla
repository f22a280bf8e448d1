------------------------------ MODULE Knowledge ------------------------------
(***************************************************************************)
(* KnowledgeService: facts and their change history in the encrypted       *)
(* store, the search index derived from them in memory, and the async      *)
(* write lock that serializes upsert, set_sharing,                         *)
(* delete_facts_from_source and the index builds.                          *)
(*                                                                         *)
(* Every store call is a step of its own: other callers run between two    *)
(* steps, a store call may fail, and the process may crash anywhere.       *)
(* load_all is one step: the write lock excludes every writer meanwhile.   *)
(***************************************************************************)
EXTENDS Naturals, Sequences

CONSTANTS
    Callers,     \* concurrent async callers (UI commands, ingestion, MCP)
    FactIds,
    Bodies,
    Shares,      \* visibility and category, which travel together
    Sources,
    Purgeable,   \* sources delete_facts_from_source is called for (debug builds)
    Absent,      \* no such document
    Torn,        \* a document whose write did not complete: decryption fails
    Free,        \* the write lock has no holder
    MaxCalls, MaxFaults, MaxCrashes    \* bounds of the exploration

ASSUME KnowledgeAssumption ==
    /\ FactIds # {} /\ Purgeable \subseteq Sources
    /\ Free \notin Callers
    /\ MaxCalls \in Nat /\ MaxFaults \in Nat /\ MaxCrashes \in Nat

\* confirmed stands for the three checks of upsert: confirmed, confirmed_at
\* set, and a title that is not blank.
Fact == [body : Bodies, share : Shares, source : Sources, confirmed : BOOLEAN]

FactChange == [before : Bodies, after : Bodies]

ASSUME AbsentAssumption ==
    /\ Absent \notin FactIds /\ Absent \notin Fact /\ Torn \notin Fact /\ Absent # Torn
    /\ Torn \notin Seq(FactChange)

VARIABLES
    facts,         \* namespace "facts" on disk
    history,       \* namespace "fact_history" on disk
    index,         \* the in-memory SearchIndex: per id, the fact it was built from
    initialized,
    writeLock,     \* the caller holding the async mutex, or Free
    task,          \* per caller, the call in progress: its step and its locals
    drift,         \* observer: ids written on disk since they were last indexed
    calls, faults, crashes

disk   == <<facts, history>>
memory == <<index, initialized, writeLock, drift>>
bounds == <<calls, faults, crashes>>
vars   == <<disk, memory, task, bounds>>

Slot == Fact \cup {Absent, Torn}

\* The steps taken while the write lock is held.
Critical == {"load", "get", "put", "log_get", "log_put", "index", "scan", "delete"}

Task ==
    [step : Critical \cup {"idle", "ensure", "lock", "query"},
     call : {"none", "upsert", "share", "purge", "build", "query"},
     key  : FactIds \cup {Absent},
     arg  : Fact \cup Shares \cup Sources \cup {Absent},
     prev : Fact \cup {Absent},
     log  : Seq(FactChange),
     todo : SUBSET FactIds]

Idle == [step |-> "idle", call |-> "none", key |-> Absent, arg |-> Absent,
         prev |-> Absent, log |-> <<>>, todo |-> {}]

NoFact == [id \in FactIds |-> Absent]

Init ==
    /\ facts = NoFact
    /\ history = [id \in FactIds |-> <<>>]
    /\ index = NoFact
    /\ initialized = FALSE
    /\ writeLock = Free
    /\ task = [p \in Callers |-> Idle]
    /\ drift = {}
    /\ calls = 0 /\ faults = 0 /\ crashes = 0
-----------------------------------------------------------------------------
At(p, step) == task[p].step = step

Goto(p, step) == task' = [task EXCEPT ![p].step = step]

\* The guard is dropped when the call returns, with or without an error.
Return(p) == task' = [task EXCEPT ![p] = Idle] /\ writeLock' = Free

Begin(p, c, id, x, step) ==
    /\ At(p, "idle")
    /\ calls < MaxCalls
    /\ calls' = calls + 1
    /\ task' = [task EXCEPT ![p] =
           [Idle EXCEPT !.step = step, !.call = c, !.key = id, !.arg = x]]
    /\ UNCHANGED <<disk, memory, faults, crashes>>

\* Where ensure_index(...)? leads once the index is there.
AfterEnsure(c) == IF c = "query" THEN "query" ELSE "lock"

\* The lock-free first look of ensure_index.
EnsureFor(c) == IF initialized THEN AfterEnsure(c) ELSE "ensure"

\* A fact that is not confirmed is rejected here, before anything is touched.
BeginUpsert(p) ==
    \E id \in FactIds, f \in Fact :
        f.confirmed /\ Begin(p, "upsert", id, f, EnsureFor("upsert"))

BeginShare(p) ==
    \E id \in FactIds, s \in Shares : Begin(p, "share", id, s, EnsureFor("share"))

\* search, graph, topics and dashboard: ensure_index, then one look at the index.
BeginQuery(p) == Begin(p, "query", Absent, Absent, EnsureFor("query"))

BeginPurge(p) == \E src \in Purgeable : Begin(p, "purge", Absent, src, "lock")

BeginBuild(p) == Begin(p, "build", Absent, Absent, "lock")
-----------------------------------------------------------------------------
\* ensure_index: build once, and look again after waiting for the lock.
EnsureBuilt(p) ==
    /\ At(p, "ensure") /\ writeLock = Free /\ initialized
    /\ Goto(p, AfterEnsure(task[p].call))
    /\ UNCHANGED <<disk, memory, bounds>>

EnsureLock(p) ==
    /\ At(p, "ensure") /\ writeLock = Free /\ ~initialized
    /\ writeLock' = p
    /\ Goto(p, "load")
    /\ UNCHANGED <<disk, index, initialized, drift, bounds>>

FirstStep(c) ==
    CASE c = "purge" -> "scan"
      [] c = "build" -> "load"
      [] OTHER       -> "get"

\* Mutant: write_lock.lock() is missing.
AcquireUnguarded(p) ==
    /\ At(p, "lock")
    /\ writeLock' = p
    /\ Goto(p, FirstStep(task[p].call))
    /\ UNCHANGED <<disk, index, initialized, drift, bounds>>

Acquire(p) ==
    /\ At(p, "lock") /\ writeLock = Free
    /\ writeLock' = p
    /\ Goto(p, FirstStep(task[p].call))
    /\ UNCHANGED <<disk, index, initialized, drift, bounds>>

Readable == \A id \in FactIds : facts[id] # Torn

\* Mutant: the guard of ensure_index lives on into the write that follows.
LoadKeepsLock(p) ==
    /\ At(p, "load") /\ Readable
    /\ index' = facts
    /\ initialized' = TRUE
    /\ drift' = {}
    /\ \/ task[p].call \in {"build", "purge"} /\ Return(p)
       \/ /\ task[p].call \notin {"build", "purge"}
          /\ Goto(p, AfterEnsure(task[p].call))
          /\ UNCHANGED writeLock
    /\ UNCHANGED <<disk, bounds>>

\* load_all and rebuild_locked: in ensure_index, in build_index, and at the end
\* of delete_facts_from_source. ensure_index then carries on with its caller.
Load(p) ==
    /\ At(p, "load") /\ Readable
    /\ index' = facts
    /\ initialized' = TRUE
    /\ drift' = {}
    /\ writeLock' = Free
    /\ \/ task[p].call \in {"build", "purge"} /\ task' = [task EXCEPT ![p] = Idle]
       \/ task[p].call \notin {"build", "purge"} /\ Goto(p, AfterEnsure(task[p].call))
    /\ UNCHANGED <<disk, bounds>>
-----------------------------------------------------------------------------
\* Mutant: set_sharing stores what it was given in place of the whole fact.
WrittenArg(t) == t.arg

\* What the call writes: upsert replaces the document, set_sharing edits the one
\* it has just read.
Written(t) == IF t.call = "share" THEN [t.prev EXCEPT !.share = t.arg] ELSE t.arg

ReadFact(p) ==
    LET id == task[p].key
    IN  /\ At(p, "get") /\ facts[id] # Torn
        /\ task[p].call = "share" => facts[id] # Absent
        /\ task' = [task EXCEPT ![p].prev = facts[id], ![p].step = "put"]
        /\ UNCHANGED <<disk, memory, bounds>>

ShareNotFound(p) ==
    /\ At(p, "get") /\ task[p].call = "share" /\ facts[task[p].key] = Absent
    /\ Return(p)
    /\ UNCHANGED <<disk, index, initialized, drift, bounds>>

\* Mutants: every replacement counts as an edit; only an unchanged body does.
ChangesBodyAlways(t) == t.call = "upsert" /\ t.prev # Absent

ChangesBodyInverted(t) == t.call = "upsert" /\ t.prev # Absent /\ t.prev.body = t.arg.body

ChangesBody(t) == t.call = "upsert" /\ t.prev # Absent /\ t.prev.body # t.arg.body

PutFact(p) ==
    LET t == task[p]
    IN  /\ At(p, "put")
        /\ facts' = [facts EXCEPT ![t.key] = Written(t)]
        /\ drift' = drift \cup {t.key}
        /\ Goto(p, IF ChangesBody(t) THEN "log_get" ELSE "index")
        /\ UNCHANGED <<history, index, initialized, writeLock, bounds>>

\* Mutant: append starts every log afresh.
ReadLogAfresh(p) ==
    /\ At(p, "log_get") /\ history[task[p].key] # Torn
    /\ task' = [task EXCEPT ![p].log = <<>>, ![p].step = "log_put"]
    /\ UNCHANGED <<disk, memory, bounds>>

\* HistoryTracker.append: read the whole log, push, write it back.
ReadLog(p) ==
    LET id == task[p].key
    IN  /\ At(p, "log_get") /\ history[id] # Torn
        /\ task' = [task EXCEPT ![p].log = history[id], ![p].step = "log_put"]
        /\ UNCHANGED <<disk, memory, bounds>>

PutLog(p) ==
    LET t == task[p]
    IN  /\ At(p, "log_put")
        /\ history' = [history EXCEPT ![t.key] =
               Append(t.log, [before |-> t.prev.body, after |-> t.arg.body])]
        /\ Goto(p, "index")
        /\ UNCHANGED <<facts, memory, bounds>>

\* Mutant: the index receives the fact as it was read.
IndexFactBefore(p) ==
    LET t == task[p]
    IN  /\ At(p, "index")
        /\ index' = [index EXCEPT ![t.key] = t.prev]
        /\ drift' = drift \ {t.key}
        /\ Return(p)
        /\ UNCHANGED <<disk, initialized, bounds>>

IndexFact(p) ==
    LET t == task[p]
    IN  /\ At(p, "index")
        /\ index' = [index EXCEPT ![t.key] = Written(t)]
        /\ drift' = drift \ {t.key}
        /\ Return(p)
        /\ UNCHANGED <<disk, initialized, bounds>>

Query(p) ==
    /\ At(p, "query")
    /\ task' = [task EXCEPT ![p] = Idle]
    /\ UNCHANGED <<disk, memory, bounds>>
-----------------------------------------------------------------------------
OfSource(src) == {id \in FactIds : facts[id] # Absent /\ facts[id].source = src}

Scan(p) ==
    LET found == OfSource(task[p].arg)
    IN  /\ At(p, "scan") /\ Readable
        /\ \/ /\ found # {}
              /\ task' = [task EXCEPT ![p].todo = found, ![p].step = "delete"]
              /\ UNCHANGED writeLock
           \/ found = {} /\ Return(p)
        /\ UNCHANGED <<disk, index, initialized, drift, bounds>>

\* The index is rebuilt only after the last deletion.
Delete(p) ==
    /\ At(p, "delete")
    /\ \E id \in task[p].todo :
        /\ facts' = [facts EXCEPT ![id] = Absent]
        /\ drift' = drift \cup {id}
        /\ task' = [task EXCEPT ![p].todo = @ \ {id},
                                ![p].step = IF task[p].todo = {id} THEN "load" ELSE "delete"]
    /\ UNCHANGED <<history, index, initialized, writeLock, bounds>>
-----------------------------------------------------------------------------
(***************************************************************************)
(* Failures. A call that meets an error returns it through `?`, dropping   *)
(* the lock. A document that cannot be decrypted fails every read of it;   *)
(* any other store call fails at the environment's choice (I/O error, or   *)
(* the vault locked under a running call).                                 *)
(***************************************************************************)
Unreadable(p) ==
    \/ task[p].step \in {"load", "scan"} /\ ~Readable
    \/ At(p, "get") /\ facts[task[p].key] = Torn
    \/ At(p, "log_get") /\ history[task[p].key] = Torn

ReadFails(p) ==
    /\ Unreadable(p)
    /\ Return(p)
    /\ UNCHANGED <<disk, index, initialized, drift, bounds>>

TearFact(p) ==
    /\ At(p, "put")
    /\ facts' = [facts EXCEPT ![task[p].key] = Torn]
    /\ UNCHANGED history

TearLog(p) ==
    /\ At(p, "log_put")
    /\ history' = [history EXCEPT ![task[p].key] = Torn]
    /\ UNCHANGED facts

\* A failed write leaves the old document or, when the truncated file could not
\* be filled, an unreadable one. A failed read or deletion changes nothing.
StoreFails(p) ==
    /\ task[p].step \in Critical \ {"index"}
    /\ faults < MaxFaults
    /\ faults' = faults + 1
    /\ \/ UNCHANGED <<disk, drift>>
       \/ TearFact(p) /\ drift' = drift \cup {task[p].key}
       \/ TearLog(p) /\ UNCHANGED drift
    /\ Return(p)
    /\ UNCHANGED <<index, initialized, calls, crashes>>

\* The process ends, perhaps in the middle of a write, and starts again with a
\* new KnowledgeService on the same files.
Crash ==
    /\ crashes < MaxCrashes
    /\ crashes' = crashes + 1
    /\ UNCHANGED disk \/ \E p \in Callers : TearFact(p) \/ TearLog(p)
    /\ index' = NoFact
    /\ initialized' = FALSE
    /\ writeLock' = Free
    /\ drift' = {}
    /\ task' = [p \in Callers |-> Idle]
    /\ UNCHANGED <<calls, faults>>
-----------------------------------------------------------------------------
BeginCall(p) ==
    BeginUpsert(p) \/ BeginShare(p) \/ BeginQuery(p) \/ BeginPurge(p) \/ BeginBuild(p)

WaitForLock(p) == EnsureBuilt(p) \/ EnsureLock(p) \/ Acquire(p)

Work(p) ==
    \/ Load(p) \/ Query(p)
    \/ ReadFact(p) \/ ShareNotFound(p) \/ PutFact(p)
    \/ ReadLog(p) \/ PutLog(p) \/ IndexFact(p)
    \/ Scan(p) \/ Delete(p)
    \/ ReadFails(p)

Next ==
    \/ \E p \in Callers : BeginCall(p) \/ WaitForLock(p) \/ Work(p) \/ StoreFails(p)
    \/ Crash

Spec == Init /\ [][Next]_vars

\* The runtime polls every task that can run, and the tokio mutex hands the lock
\* over in the order of the requests, so no waiter is passed over for ever.
FairSpec ==
    /\ Spec
    /\ \A p \in Callers : WF_vars(Work(p)) /\ SF_vars(WaitForLock(p))
-----------------------------------------------------------------------------
\* Every variable holds a value of its type.
TypeOK ==
    /\ facts \in [FactIds -> Slot]
    /\ history \in [FactIds -> Seq(FactChange) \cup {Torn}]
    /\ index \in [FactIds -> Fact \cup {Absent}]
    /\ initialized \in BOOLEAN
    /\ writeLock \in Callers \cup {Free}
    /\ task \in [Callers -> Task]
    /\ drift \in SUBSET FactIds
    /\ calls \in Nat /\ faults \in Nat /\ crashes \in Nat

\* Once the index is built, it agrees with the encrypted store on every fact that
\* no caller is in the middle of changing and no failed call left half changed:
\* lazy builds, forced builds, edits and purges never publish a stale entry
\* (service.rs, ensure_index, build_index, upsert, set_sharing).
IndexMatchesStore ==
    initialized => \A id \in FactIds \ drift : index[id] = facts[id]

\* Without a store failure nothing stays half changed: when the write lock is
\* free, every write has reached the index, however callers and crashes interleave.
Intact == faults = 0 /\ \A id \in FactIds : facts[id] # Torn /\ history[id] # Torn

NoDriftAtRest == writeLock = Free /\ Intact => drift = {}

\* The write lock makes each read-modify-write atomic: what upsert or set_sharing
\* read is still what the store holds when it writes, so a concurrent edit of the
\* same fact is never overwritten unseen (service.rs, comments P-6).
ReadStillCurrent ==
    \A p \in Callers :
        /\ At(p, "put") => task[p].prev = facts[task[p].key]
        /\ At(p, "log_put") => task[p].log = history[task[p].key]

\* A query never answers from an index that was not built: a handle created after
\* a restart does not report an empty knowledge base (service.rs, P-1).
QueryAfterBuild == \A p \in Callers : At(p, "query") => initialized

\* A source's facts are deleted by its purge only: a fact that another call has
\* meanwhile re-filed under another source is kept (delete_facts_from_source).
PurgeKeepsOtherSources ==
    \A p \in Callers : At(p, "delete") =>
        \A id \in task[p].todo : facts[id] \in Fact /\ facts[id].source = task[p].arg

\* A recorded change is never rewritten or dropped: the log of a fact changes only
\* by growing at its end, whatever the interleaving (history.rs, KR-3/KR-4). A
\* write that failed half way is the one exception, and leaves no readable log.
HistoryAppendOnly ==
    [][\A id \in FactIds :
         history'[id] # history[id] =>
            \/ history'[id] = Torn
            \/ /\ history[id] # Torn
               /\ Len(history'[id]) = Len(history[id]) + 1
               /\ SubSeq(history'[id], 1, Len(history[id])) = history[id]]_vars

\* No entry is orphaned: a change is recorded only for a body that really changed
\* and is already stored, so a failed write is never in the log (service.rs,
\* upsert, "we neither orphan nor duplicate a history entry").
HistoryFollowsFact ==
    [][\A id \in FactIds :
         history'[id] # history[id] /\ history'[id] # Torn =>
            LET entry == history'[id][Len(history'[id])]
            IN  /\ facts[id] \in Fact
                /\ entry.after = facts[id].body
                /\ entry.before # entry.after]_vars

\* history.rs:3: "On every fact-body change, a FactChange snapshot is appended".
\* When an upsert returns Ok, the log of its fact ends at the body it stored.
EveryBodyChangeIsLogged ==
    [][\A p \in Callers :
         LET id == task[p].key
         IN  IndexFact(p) /\ task[p].call = "upsert" /\ history[id] \notin {<<>>, Torn} =>
                history[id][Len(history[id])].after = facts[id].body]_vars

\* Every call returns: no interleaving of the lock taken twice in one call
\* (ensure_index, then the write), of failures and of waiters leaves one hanging.
EveryCallReturns == \A p \in Callers : ~At(p, "idle") ~> At(p, "idle")
-----------------------------------------------------------------------------
\* A body edit takes effect when its change is logged: until then the fact still
\* counts as it was read. Everything else takes effect when it reaches the disk.
Effective(id) ==
    IF \E p \in Callers : task[p].step \in {"log_get", "log_put"} /\ task[p].key = id
    THEN task[writeLock].prev
    ELSE facts[id]

Promise == INSTANCE KnowledgeBase
               WITH base <- [id \in FactIds |-> Effective(id)], changes <- history,
                    harmed <- faults + crashes > 0

\* The steps of concurrent calls amount to atomic edits, each body edit together
\* with its log entry (KR-3, pattern P-6); a failed store call or a restart takes at
\* most the log entry or the readability of the one fact that was being edited.
ActsAtomically == Promise!Spec
=============================================================================
