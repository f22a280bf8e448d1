------------------------------ MODULE Ingestion ------------------------------
(***************************************************************************)
(* IngestionService, IngestionCursorStore, ProcessingSink,                 *)
(* ProcessingService and PendingQueue: a run asks a connector for what is  *)
(* new, passes it through the seen-set, processes it item by item, parks   *)
(* what could not be processed, and advances the cursor of its source.     *)
(*                                                                         *)
(* Items of a source are numbered in the order the source gave them; a     *)
(* cursor is the number of items it covers. What an item says and where    *)
(* its entries are routed does not matter here: an entry is routed or its  *)
(* routing fails. Every store call is a step of its own.                   *)
(***************************************************************************)
EXTENDS Naturals, Sequences, FiniteSets, SequencesExt

CONSTANTS
    Runners,        \* concurrent calls: commands of the interface
    SourceOrder,    \* the registered sources, in the order trigger(None) takes them
    Batch,          \* how many items one sync returns at most
    MaxPasses,      \* MAX_PASSES of trigger_all
    Resumers,       \* the runners that call resume_pending; none in what is shipped
    Torn,           \* a document whose write did not complete: decryption fails
    MaxItems, MaxEntries, MaxCalls, MaxFaults, MaxRelocks    \* bounds

Sources == ToSet(SourceOrder)
Items == Sources \X (1..MaxItems)

ASSUME IngestionAssumption ==
    /\ SourceOrder \in Seq(Sources) /\ IsInjective(SourceOrder)
    /\ Batch \in Nat \ {0} /\ MaxPasses \in Nat \ {0}
    /\ Resumers \subseteq Runners
    /\ Torn \notin Nat
    /\ {MaxItems, MaxEntries, MaxCalls, MaxFaults, MaxRelocks} \subseteq Nat

VARIABLES
    published,   \* per source, how many items exist there
    cursor,      \* namespace "ingestion.cursor"; 0 when there is none yet
    seen,        \* namespace "ingestion.seen": "none", "whole" or "torn", per item
    pending,     \* namespace "processing.pending", likewise
    session,     \* number of the service set that new calls reach
    running,     \* per service set, the sources whose run-lock is taken
    task,        \* per runner, the call in progress
    collected,   \* observer: how often an item passed the seen-set
    done,        \* observer: the items processed to the end
    calls,       \* calls made,
    faults       \* and store calls that failed or crashes

disk   == <<cursor, seen, pending>>
locks  == <<session, running>>
bounds == <<calls, faults>>
vars   == <<published, disk, locks, task, collected, done, bounds>>

Sessions == 1..(MaxRelocks + 1)
Doc == {"none", "whole", "torn"}

Task ==
    [step    : {"idle", "lock", "load", "sync", "seen", "mark", "process", "route", "push",
                "save", "list", "drain", "erase"},
     home    : Sessions,           \* the service set the call began on
     targets : Seq(Sources),       \* sources still to run, the current one first
     all     : BOOLEAN,            \* trigger_all
     passes  : Nat,                \* passes left for the current source
     from    : 0..MaxItems,        \* the cursor the pass began with,
     upto    : 0..MaxItems,        \* and the one it will save
     batch   : Seq(Items),         \* synced and not yet checked, or still to be drained
     fresh   : Seq(Items),         \* to be processed
     left    : Nat]                \* entries of the current item not yet routed

Idle == [step |-> "idle", home |-> 1, targets |-> <<>>, all |-> FALSE, passes |-> 0,
         from |-> 0, upto |-> 0, batch |-> <<>>, fresh |-> <<>>, left |-> 0]

Init ==
    /\ published = [s \in Sources |-> 0]
    /\ cursor = [s \in Sources |-> 0]
    /\ seen = [i \in Items |-> "none"]
    /\ pending = [i \in Items |-> "none"]
    /\ session = 1
    /\ running = [h \in Sessions |-> {}]
    /\ task = [p \in Runners |-> Idle]
    /\ collected = [i \in Items |-> 0]
    /\ done = {}
    /\ calls = 0 /\ faults = 0
-----------------------------------------------------------------------------
At(p, step) == task[p].step = step

Become(p, t) == task' = [task EXCEPT ![p] = t]

\* A call reaches the service set installed at that moment and keeps it.
Begin(p, t) ==
    /\ At(p, "idle")
    /\ calls < MaxCalls
    /\ calls' = calls + 1
    /\ Become(p, [t EXCEPT !.home = session])
    /\ UNCHANGED <<published, disk, locks, collected, done, faults>>

\* trigger and trigger_all, for one source or for every registered one; without any
\* there is nothing to do.
BeginTrigger(p) ==
    \E targets \in ({<<s>> : s \in Sources} \cup {SourceOrder}) \ {<<>>}, all \in BOOLEAN :
        Begin(p, [Idle EXCEPT !.step = "lock", !.targets = targets, !.all = all])

BeginResume(p) == p \in Resumers /\ Begin(p, [Idle EXCEPT !.step = "list"])

NextTarget(t) ==
    IF Len(t.targets) = 1 THEN Idle
    ELSE [Idle EXCEPT !.step = "lock", !.home = t.home, !.targets = Tail(t.targets), !.all = t.all]

\* Mutant: try_lock takes the lock without looking whether it is free.
TryLockAlways(p) ==
    LET t == task[p]
    IN  /\ At(p, "lock")
        /\ running' = [running EXCEPT ![t.home] = @ \cup {Head(t.targets)}]
        /\ Become(p, [t EXCEPT !.step = "load", !.passes = IF t.all THEN MaxPasses ELSE 1])
        /\ UNCHANGED <<published, disk, session, collected, done, bounds>>

\* try_lock: a source that is running already is skipped.
TryLock(p) ==
    LET t == task[p]
        s == Head(t.targets)
    IN  /\ At(p, "lock")
        /\ \/ /\ s \in running[t.home]
              /\ Become(p, NextTarget(t))
              /\ UNCHANGED running
           \/ /\ s \notin running[t.home]
              /\ running' = [running EXCEPT ![t.home] = @ \cup {s}]
              /\ Become(p, [t EXCEPT !.step = "load", !.passes = IF t.all THEN MaxPasses ELSE 1])
        /\ UNCHANGED <<published, disk, session, collected, done, bounds>>

\* Mutant: a run that ends forgets to unlock.
FinishLocked(p) == Become(p, NextTarget(task[p])) /\ UNCHANGED running

\* The run of the current source is over, with or without an error: the error is
\* counted in the report, the lock is released and the next source has its turn.
Finish(p) ==
    LET t == task[p]
    IN  /\ running' = [running EXCEPT ![t.home] = @ \ {Head(t.targets)}]
        /\ Become(p, NextTarget(t))
-----------------------------------------------------------------------------
LoadCursor(p) ==
    LET s == Head(task[p].targets)
    IN  /\ At(p, "load") /\ cursor[s] # Torn
        /\ Become(p, [task[p] EXCEPT !.step = "sync", !.from = cursor[s]])
        /\ UNCHANGED <<published, disk, locks, collected, done, bounds>>

\* The connector returns the items after the cursor, at most Batch of them. It
\* may return the last covered one again: its window is inclusive.
Synced(s, from, upto, again) ==
    [k \in 1..(upto - from + again) |-> <<s, from - again + k>>]

\* Once the batch is checked, what is fresh is processed; then the cursor is saved.
Checked(t) ==
    [t EXCEPT !.step = IF t.batch # <<>> THEN "seen"
                       ELSE IF t.fresh # <<>> THEN "process" ELSE "save"]

Sync(p) ==
    LET t    == task[p]
        s    == Head(t.targets)
        upto == IF published[s] - t.from > Batch THEN t.from + Batch ELSE published[s]
    IN  /\ At(p, "sync")
        /\ \E again \in IF t.from = 0 THEN {0} ELSE {0, 1} :
              Become(p, Checked([t EXCEPT !.upto = upto,
                                          !.batch = Synced(s, t.from, upto, again),
                                          !.fresh = <<>>]))
        /\ UNCHANGED <<published, disk, locks, collected, done, bounds>>

SyncFails(p) ==
    /\ At(p, "sync")
    /\ Finish(p)
    /\ UNCHANGED <<published, disk, session, collected, done, bounds>>

CheckSeen(p) ==
    LET t == task[p]
        i == Head(t.batch)
    IN  /\ At(p, "seen") /\ seen[i] # "torn"
        /\ Become(p, IF seen[i] = "whole" THEN Checked([t EXCEPT !.batch = Tail(@)])
                     ELSE [t EXCEPT !.step = "mark"])
        /\ UNCHANGED <<published, disk, locks, collected, done, bounds>>

MarkSeen(p) ==
    LET t == task[p]
        i == Head(t.batch)
    IN  /\ At(p, "mark")
        /\ seen' = [seen EXCEPT ![i] = "whole"]
        /\ collected' = [collected EXCEPT ![i] = @ + 1]
        /\ Become(p, Checked([t EXCEPT !.batch = Tail(@), !.fresh = Append(@, i)]))
        /\ UNCHANGED <<published, cursor, pending, locks, done, bounds>>

\* trigger_all passes again while the cursor moves and passes are left.
SaveCursor(p) ==
    LET t == task[p]
    IN  /\ At(p, "save")
        /\ cursor' = [cursor EXCEPT ![Head(t.targets)] = t.upto]
        /\ \/ /\ t.from # t.upto /\ t.passes > 1
              /\ Become(p, [t EXCEPT !.step = "load", !.passes = @ - 1])
              /\ UNCHANGED running
           \/ /\ t.from = t.upto \/ t.passes = 1
              /\ Finish(p)
        /\ UNCHANGED <<published, seen, pending, session, collected, done, bounds>>
-----------------------------------------------------------------------------
\* process: the item at the head of fresh is finished, one way or the other.
Resumes(t) == t.targets = <<>>

NextItem(t) ==
    LET rest == Tail(t.fresh)
    IN  IF rest # <<>> THEN [t EXCEPT !.fresh = rest, !.left = 0, !.step = "process"]
        ELSE IF Resumes(t) THEN Idle
        ELSE [t EXCEPT !.fresh = rest, !.left = 0, !.step = "save"]

\* The summary of an item has any number of entries; none is a decision too.
Summarize(p) ==
    LET t == task[p]
    IN  /\ At(p, "process")
        /\ \/ /\ done' = done \cup {Head(t.fresh)}
              /\ Become(p, NextItem(t))
           \/ /\ \E n \in 1..MaxEntries : Become(p, [t EXCEPT !.left = n, !.step = "route"])
              /\ UNCHANGED done
        /\ UNCHANGED <<published, disk, locks, collected, bounds>>

\* One entry is classified and becomes a fact, a question or nothing.
Route(p) ==
    LET t == task[p]
    IN  /\ At(p, "route")
        /\ \/ /\ t.left > 1
              /\ Become(p, [t EXCEPT !.left = @ - 1])
              /\ UNCHANGED done
           \/ /\ t.left = 1
              /\ done' = done \cup {Head(t.fresh)}
              /\ Become(p, NextItem(t))
        /\ UNCHANGED <<published, disk, locks, collected, bounds>>

\* Mutant: a processing error is swallowed and the next item has its turn.
ParkNowhere(p) ==
    /\ task[p].step \in {"process", "route"}
    /\ Become(p, NextItem(task[p]))
    /\ UNCHANGED <<published, disk, locks, collected, done, bounds>>

\* Offline, or a language model call out of retries, or a routing that failed.
Park(p) ==
    /\ task[p].step \in {"process", "route"}
    /\ Become(p, [task[p] EXCEPT !.step = "push"])
    /\ UNCHANGED <<published, disk, locks, collected, done, bounds>>

\* PendingQueue.push reads the entry it may replace.
Push(p) ==
    LET i == Head(task[p].fresh)
    IN  /\ At(p, "push") /\ pending[i] # "torn"
        /\ pending' = [pending EXCEPT ![i] = "whole"]
        /\ Become(p, NextItem(task[p]))
        /\ UNCHANGED <<published, cursor, seen, locks, collected, done, bounds>>
-----------------------------------------------------------------------------
\* resume_pending, unless offline: drain lists the keys, then reads and deletes them
\* one by one, and only then is what it has read processed.
Drained(t) ==
    IF t.batch # <<>> THEN [t EXCEPT !.step = "drain"]
    ELSE IF t.fresh # <<>> THEN [t EXCEPT !.step = "process"] ELSE Idle

Offline(p) ==
    /\ At(p, "list")
    /\ Become(p, Idle)
    /\ UNCHANGED <<published, disk, locks, collected, done, bounds>>

ListPending(p) ==
    /\ At(p, "list")
    /\ \E keys \in SetToSeqs({i \in Items : pending[i] # "none"}) :
          Become(p, Drained([task[p] EXCEPT !.batch = keys]))
    /\ UNCHANGED <<published, disk, locks, collected, done, bounds>>

DrainGet(p) ==
    LET t == task[p]
        i == Head(t.batch)
    IN  /\ At(p, "drain") /\ pending[i] # "torn"
        /\ Become(p, [t EXCEPT !.step = "erase",
                               !.fresh = IF pending[i] = "whole" THEN Append(@, i) ELSE @])
        /\ UNCHANGED <<published, disk, locks, collected, done, bounds>>

Erase(p) ==
    LET t == task[p]
    IN  /\ At(p, "erase")
        /\ pending' = [pending EXCEPT ![Head(t.batch)] = "none"]
        /\ Become(p, Drained([t EXCEPT !.batch = Tail(@)]))
        /\ UNCHANGED <<published, cursor, seen, locks, collected, done, bounds>>
-----------------------------------------------------------------------------
\* Mutant: the cursor is saved after an error too.
AbortSaving(p) ==
    /\ UNCHANGED running
    /\ Become(p, IF Resumes(task[p]) THEN Idle ELSE [task[p] EXCEPT !.step = "save"])

\* An error of a store call ends the run of the source, or the resumption.
Abort(p) == IF Resumes(task[p]) THEN Become(p, Idle) /\ UNCHANGED running ELSE Finish(p)

Unreadable(p) ==
    LET t == task[p]
    IN  \/ At(p, "load") /\ cursor[Head(t.targets)] = Torn
        \/ At(p, "seen") /\ seen[Head(t.batch)] = "torn"
        \/ At(p, "push") /\ pending[Head(t.fresh)] = "torn"
        \/ At(p, "drain") /\ pending[Head(t.batch)] = "torn"

ReadFails(p) ==
    /\ Unreadable(p)
    /\ Abort(p)
    /\ UNCHANGED <<published, disk, session, collected, done, bounds>>

\* A write that does not complete leaves a document that cannot be decrypted.
Tear(p) ==
    LET t == task[p]
    IN  \/ /\ At(p, "mark")
           /\ seen' = [seen EXCEPT ![Head(t.batch)] = "torn"]
           /\ UNCHANGED <<cursor, pending>>
        \/ /\ At(p, "push")
           /\ pending' = [pending EXCEPT ![Head(t.fresh)] = "torn"]
           /\ UNCHANGED <<cursor, seen>>
        \/ /\ At(p, "save")
           /\ cursor' = [cursor EXCEPT ![Head(t.targets)] = Torn]
           /\ UNCHANGED <<seen, pending>>

StoreFails(p) ==
    /\ task[p].step \in {"load", "seen", "mark", "push", "save", "list", "drain", "erase"}
    /\ faults < MaxFaults
    /\ faults' = faults + 1
    /\ UNCHANGED disk \/ Tear(p)
    /\ Abort(p)
    /\ UNCHANGED <<published, session, collected, done, calls>>

Crash ==
    /\ faults < MaxFaults
    /\ faults' = faults + 1
    /\ UNCHANGED disk \/ \E p \in Runners : Tear(p)
    /\ running' = [h \in Sessions |-> {}]
    /\ task' = [p \in Runners |-> Idle]
    /\ UNCHANGED <<published, session, collected, done, calls>>

\* The owner locks the vault and unlocks it: activate builds new services, while a
\* call that holds the old ones goes on (Services::with drops its guard first).
Relock ==
    /\ session <= MaxRelocks
    /\ session' = session + 1
    /\ UNCHANGED <<published, disk, running, task, collected, done, bounds>>

Publish ==
    \E s \in Sources :
        /\ published[s] < MaxItems
        /\ published' = [published EXCEPT ![s] = @ + 1]
        /\ UNCHANGED <<disk, locks, task, collected, done, bounds>>

Work(p) ==
    \/ TryLock(p) \/ LoadCursor(p) \/ Sync(p) \/ SyncFails(p)
    \/ CheckSeen(p) \/ MarkSeen(p) \/ SaveCursor(p)
    \/ Summarize(p) \/ Route(p) \/ Park(p) \/ Push(p)
    \/ Offline(p) \/ ListPending(p) \/ DrainGet(p) \/ Erase(p)
    \/ ReadFails(p)

Next ==
    \/ \E p \in Runners : BeginTrigger(p) \/ BeginResume(p) \/ Work(p) \/ StoreFails(p)
    \/ Crash \/ Relock \/ Publish

Spec == Init /\ [][Next]_vars

\* The call of p waits for a server: the source, or the language model.
Awaits(p) == task[p].step \in {"sync", "process", "route"}

\* The runtime polls every task that can run. A step that only reads or writes local
\* files ends; a server need not answer, for the clients of Notion and of the HTTP
\* language models are built without a timeout.
FairSpec == Spec /\ \A p \in Runners : WF_vars(~Awaits(p) /\ Work(p))
-----------------------------------------------------------------------------
\* Every variable holds a value of its type.
TypeOK ==
    /\ published \in [Sources -> 0..MaxItems]
    /\ cursor \in [Sources -> (0..MaxItems) \cup {Torn}]
    /\ seen \in [Items -> Doc] /\ pending \in [Items -> Doc]
    /\ session \in Sessions
    /\ running \in [Sessions -> SUBSET Sources]
    /\ task \in [Runners -> Task]
    /\ collected \in [Items -> Nat]
    /\ done \subseteq Items
    /\ calls \in Nat /\ faults \in Nat

\* BR-I1, BR-M2: an item passes the seen-set once: neither overlapping triggers nor
\* windows that overlap, failures or crashes collect it a second time. A run that
\* outlives its service set has a run-lock of its own, and there the promise ends.
CollectedOnce == session = 1 => \A i \in Items : collected[i] <= 1

\* BR-I3: the cursor never covers an item that was not at least marked, so that no
\* failed, cut short or concurrent pass makes the source skip an item.
CursorCoversSeen ==
    \A s \in Sources : cursor[s] # Torn => \A n \in 1..cursor[s] : seen[<<s, n>>] # "none"

InHand(i) == \E p \in Runners : i \in ToSet(task[p].fresh)

\* pending.rs:3: the item "is parked here instead of being dropped"; BR-I2: what was
\* not processed is not recorded as seen and comes again. Whatever the seen-set holds
\* back is processed, parked, or in the hands of a call that is still running.
NothingLost ==
    \A i \in Items : seen[i] = "whole" => i \in done \/ pending[i] = "whole" \/ InHand(i)

\* The same while no store call failed and the process did not end: overlapping runs,
\* an unreachable model, a resumption and a relock lose nothing.
NothingLostUnfailing == faults = 0 => NothingLost

Runs(p, h, s) ==
    task[p].home = h /\ ~At(p, "lock") /\ ~Resumes(task[p]) /\ Head(task[p].targets) = s

\* The run-lock of a source is released by the run that took it, at whatever step it
\* fails and whatever the other calls do or wait for, unless that run itself waits for
\* ever for a server.
RunLockReleased ==
    \A p \in Runners, h \in Sessions, s \in Sources :
        []<>~Awaits(p) => (Runs(p, h, s) ~> s \notin running[h])
=============================================================================
