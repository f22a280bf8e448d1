-------------------------- MODULE KnowledgeProofs ---------------------------
(***************************************************************************)
(* Theorems about what is known, for every value of the constants.         *)
(*                                                                         *)
(* Knowledge: any number of callers and facts, any number of calls, store  *)
(* failures and crashes.                                                   *)
(*                                                                         *)
(* Recall: any number of facts, any texts and topics, and any interleaving *)
(* of edits with questions: the index kept up in place is the one a        *)
(* rebuild would make, phrases find their facts, and what an answer and    *)
(* the mini-home rest on are the best of the facts.                        *)
(***************************************************************************)
EXTENDS Knowledge, Recall, FiniteSetTheorems, WellFoundedInduction, TLAPS

-----------------------------------------------------------------------------
(***************************************************************************)
(* Part one: Knowledge.                                                    *)
(***************************************************************************)

Steps == Critical \cup {"idle", "ensure", "lock", "query"}

\* What a caller's locals are while it is at a step.
TaskFits(t) ==
    /\ t.call = "upsert" => t.arg \in Fact /\ t.key \in FactIds
    /\ t.call = "share" => t.arg \in Shares /\ t.key \in FactIds
    /\ t.call = "purge" => t.arg \in Sources
    /\ t.step = "ensure" => t.call \in {"upsert", "share", "query"}
    /\ t.step = "lock" => t.call \in {"upsert", "share", "purge", "build"}
    /\ t.step = "load" => t.call # "none"
    /\ t.step \in {"get", "put", "index"} => t.call \in {"upsert", "share"}
    /\ t.step \in {"put", "index"} /\ t.call = "share" => t.prev \in Fact
    /\ t.step \in {"log_get", "log_put"} =>
          t.call = "upsert" /\ t.prev \in Fact /\ t.prev.body # t.arg.body
    /\ t.step \in {"scan", "delete"} => t.call = "purge"

TasksFit == \A p \in Callers : TaskFits(task[p])

\* The write lock is held by exactly the caller that is at a critical step.
LockHeld == \A p \in Callers : task[p].step \in Critical <=> writeLock = p

\* The call in progress that will index the fact id, or rebuild the index.
Covers(t, id) ==
    \/ t.step \in {"log_get", "log_put", "index"} /\ t.key = id
    \/ t.step \in {"delete", "load"} /\ t.call = "purge"

DriftIsCovered ==
    Intact => \A id \in drift : writeLock \in Callers /\ Covers(task[writeLock], id)

\* What one caller relies on at its step.
CallerSafe(p) ==
    /\ At(p, "put") => task[p].prev = facts[task[p].key]
    /\ At(p, "log_put") => task[p].log = history[task[p].key]
    /\ task[p].step \in {"log_get", "log_put", "index"} =>
          facts[task[p].key] = Written(task[p]) /\ task[p].key \in drift
    /\ At(p, "delete") =>
          \A id \in task[p].todo : facts[id] \in Fact /\ facts[id].source = task[p].arg
    /\ At(p, "query") => initialized

CallersSafe == \A p \in Callers : CallerSafe(p)

IInv ==
    /\ TypeOK /\ TasksFit /\ LockHeld
    /\ CallersSafe /\ IndexMatchesStore /\ DriftIsCovered
-----------------------------------------------------------------------------
(***************************************************************************)
(* Types.                                                                  *)
(***************************************************************************)

LEMMA IdleFits == Idle \in Task /\ TaskFits(Idle)
  BY DEF Idle, Task, TaskFits

\* Replacing one caller's task by one that fits keeps the tasks' type.
LEMMA TaskUpdate ==
  ASSUME task \in [Callers -> Task], TasksFit, NEW p \in Callers,
         NEW t \in Task, TaskFits(t), task' = [task EXCEPT ![p] = t]
  PROVE  task' \in [Callers -> Task] /\ TasksFit'
  BY DEF TasksFit

LEMMA ReturnFits ==
  ASSUME task \in [Callers -> Task], TasksFit, NEW p \in Callers, Return(p)
  PROVE  task' \in [Callers -> Task] /\ TasksFit' /\ writeLock' = Free
  BY IdleFits, TaskUpdate DEF Return

LEMMA WrittenIsFact ==
  ASSUME NEW t \in Task, TaskFits(t), t.step \in {"put", "log_put", "log_get", "index"}
  PROVE  Written(t) \in Fact
  <1>1. CASE t.call = "share"
    <2>1. t.prev \in Fact /\ t.arg \in Shares
      BY <1>1 DEF TaskFits
    <2>. QED
      BY <1>1, <2>1 DEF Written, Fact
  <1>2. CASE t.call # "share"
    BY <1>2 DEF Written, TaskFits
  <1>. QED
    BY <1>1, <1>2

\* One call begins: the task it starts with fits.
LEMMA BeginFits ==
  ASSUME TypeOK, TasksFit, NEW p \in Callers, BeginCall(p)
  PROVE  /\ task' \in [Callers -> Task] /\ TasksFit'
         /\ UNCHANGED <<disk, memory, faults, crashes>> /\ calls' \in Nat
  <1>1. ASSUME NEW c, NEW k, NEW x, NEW st, Begin(p, c, k, x, st),
               c \in {"upsert", "share", "purge", "build", "query"},
               k \in FactIds \cup {Absent},
               x \in Fact \cup Shares \cup Sources \cup {Absent},
               st \in {"ensure", "lock", "query"},
               c = "upsert" => x \in Fact /\ k \in FactIds,
               c = "share" => x \in Shares /\ k \in FactIds,
               c = "purge" => x \in Sources,
               st = "ensure" => c \in {"upsert", "share", "query"},
               st = "lock" => c \in {"upsert", "share", "purge", "build"}
        PROVE  /\ task' \in [Callers -> Task] /\ TasksFit'
               /\ UNCHANGED <<disk, memory, faults, crashes>> /\ calls' \in Nat
    <2>. DEFINE t == [Idle EXCEPT !.step = st, !.call = c, !.key = k, !.arg = x]
    <2>1. t \in Task
      BY <1>1, IdleFits DEF Task
    <2>2. TaskFits(t)
      <3>1. t.step = st /\ t.call = c /\ t.key = k /\ t.arg = x
        BY DEF Idle
      <3>. QED
        BY <1>1, <3>1 DEF TaskFits
    <2>3. task' = [task EXCEPT ![p] = t]
      BY <1>1 DEF Begin
    <2>4. task' \in [Callers -> Task] /\ TasksFit'
      BY <2>1, <2>2, <2>3, TaskUpdate DEF TypeOK
    <2>. QED
      BY <1>1, <2>4 DEF Begin, TypeOK
  <1>2. CASE BeginUpsert(p)
    BY <1>1, <1>2 DEF BeginUpsert, EnsureFor, AfterEnsure
  <1>3. CASE BeginShare(p)
    BY <1>1, <1>3 DEF BeginShare, EnsureFor, AfterEnsure
  <1>4. CASE BeginQuery(p)
    BY <1>1, <1>4 DEF BeginQuery, EnsureFor, AfterEnsure
  <1>5. CASE BeginPurge(p)
    BY <1>1, <1>5, KnowledgeAssumption DEF BeginPurge
  <1>6. CASE BeginBuild(p)
    BY <1>1, <1>6 DEF BeginBuild
  <1>. QED
    BY <1>2, <1>3, <1>4, <1>5, <1>6 DEF BeginCall

\* A step that only moves the caller on keeps the tasks' type.
LEMMA GotoFits ==
  ASSUME task \in [Callers -> Task], TasksFit, NEW p \in Callers, NEW s \in Steps,
         Goto(p, s), TaskFits([task[p] EXCEPT !.step = s])
  PROVE  task' \in [Callers -> Task] /\ TasksFit'
  <1>. DEFINE t == [task[p] EXCEPT !.step = s]
  <1>1. t \in Task
    BY DEF Task, Steps
  <1>2. task' = [task EXCEPT ![p] = t]
    BY DEF Goto
  <1>. QED
    BY <1>1, <1>2, TaskUpdate

LEMMA WaitTypes ==
  ASSUME TypeOK, TasksFit, NEW p \in Callers, WaitForLock(p)
  PROVE  TypeOK' /\ TasksFit'
  <1>. task[p] \in Task /\ TaskFits(task[p])
    BY DEF TypeOK, TasksFit
  <1>1. CASE EnsureBuilt(p)
    <2>. DEFINE s == AfterEnsure(task[p].call)
                t == [task[p] EXCEPT !.step = s]
    <2>1. s \in {"query", "lock"} /\ (s = "lock" => task[p].call \in {"upsert", "share"})
      BY <1>1 DEF AfterEnsure, EnsureBuilt, At, TaskFits
    <2>2. TaskFits(t)
      BY <2>1 DEF TaskFits, Task
    <2>3. task' \in [Callers -> Task] /\ TasksFit'
      BY <1>1, <2>1, <2>2, GotoFits DEF EnsureBuilt, Steps, TypeOK
    <2>. QED
      BY <1>1, <2>3 DEF EnsureBuilt, TypeOK, disk, memory, bounds
  <1>2. CASE EnsureLock(p)
    <2>1. TaskFits([task[p] EXCEPT !.step = "load"])
      BY <1>2 DEF EnsureLock, At, TaskFits, Task
    <2>2. task' \in [Callers -> Task] /\ TasksFit'
      BY <1>2, <2>1, GotoFits DEF EnsureLock, Steps, Critical, TypeOK
    <2>. QED
      BY <1>2, <2>2 DEF EnsureLock, TypeOK, disk, bounds
  <1>3. CASE Acquire(p)
    <2>. DEFINE s == FirstStep(task[p].call)
                t == [task[p] EXCEPT !.step = s]
    <2>1. /\ s \in {"scan", "load", "get"} /\ task[p].call # "none"
          /\ s = "scan" => task[p].call = "purge"
          /\ s = "get" => task[p].call \in {"upsert", "share"}
      BY <1>3 DEF FirstStep, Acquire, At, TaskFits
    <2>2. TaskFits(t)
      BY <2>1 DEF TaskFits, Task
    <2>3. task' \in [Callers -> Task] /\ TasksFit'
      BY <1>3, <2>1, <2>2, GotoFits DEF Acquire, Steps, Critical, TypeOK
    <2>. QED
      BY <1>3, <2>3 DEF Acquire, TypeOK, disk, bounds
  <1>. QED
    BY <1>1, <1>2, <1>3 DEF WaitForLock

LEMMA WorkTypes ==
  ASSUME TypeOK, TasksFit, NEW p \in Callers, Work(p)
  PROVE  TypeOK' /\ TasksFit'
  <1>. task[p] \in Task /\ TaskFits(task[p]) /\ task \in [Callers -> Task]
    BY DEF TypeOK, TasksFit
  <1>1. CASE Load(p)
    <2>1. facts \in [FactIds -> Fact \cup {Absent}]
      BY <1>1 DEF Load, Readable, TypeOK, Slot
    <2>2. task' \in [Callers -> Task] /\ TasksFit'
      <3>1. CASE task[p].call \in {"build", "purge"}
        BY <1>1, <3>1, IdleFits, TaskUpdate DEF Load
      <3>2. CASE task[p].call \notin {"build", "purge"}
        <4>1. task[p].call \in {"upsert", "share", "query"}
          BY <1>1, <3>2 DEF Task, TaskFits, Load, At
        <4>. DEFINE s == AfterEnsure(task[p].call)
                    t == [task[p] EXCEPT !.step = s]
        <4>2. s \in {"query", "lock"} /\ (s = "lock" => task[p].call \in {"upsert", "share"})
          BY <4>1 DEF AfterEnsure
        <4>3. TaskFits(t)
          BY <4>2 DEF TaskFits, Task
        <4>. QED
          BY <1>1, <3>2, <4>2, <4>3, GotoFits DEF Load, Steps
      <3>. QED
        BY <3>1, <3>2
    <2>. QED
      BY <1>1, <2>1, <2>2 DEF Load, TypeOK, disk, bounds
  <1>2. CASE Query(p)
    BY <1>2, IdleFits, TaskUpdate DEF Query, TypeOK, disk, memory, bounds
  <1>3. CASE ReadFact(p)
    <2>. DEFINE t == [task[p] EXCEPT !.prev = facts[task[p].key], !.step = "put"]
    <2>1. task[p].call \in {"upsert", "share"} /\ task[p].key \in FactIds
      BY <1>3 DEF ReadFact, At, TaskFits
    <2>2. /\ facts[task[p].key] \in Fact \cup {Absent}
          /\ task[p].call = "share" => facts[task[p].key] \in Fact
      BY <1>3, <2>1 DEF ReadFact, TypeOK, Slot
    <2>3. t \in Task
      BY <2>2 DEF Task, Critical
    <2>4. TaskFits(t)
      BY <2>1, <2>2 DEF TaskFits, Task
    <2>5. task' = [task EXCEPT ![p] = t]
      BY <1>3 DEF ReadFact
    <2>6. task' \in [Callers -> Task] /\ TasksFit'
      BY <2>3, <2>4, <2>5, TaskUpdate
    <2>. QED
      BY <1>3, <2>6 DEF ReadFact, TypeOK, disk, memory, bounds
  <1>4. CASE ShareNotFound(p)
    BY <1>4, ReturnFits DEF ShareNotFound, TypeOK, disk, bounds
  <1>5. CASE PutFact(p)
    <2>. DEFINE s == IF ChangesBody(task[p]) THEN "log_get" ELSE "index"
                t == [task[p] EXCEPT !.step = s]
    <2>1. /\ task[p].call \in {"upsert", "share"} /\ task[p].key \in FactIds
          /\ Written(task[p]) \in Fact
      BY <1>5, WrittenIsFact DEF PutFact, At, TaskFits
    <2>2. s = "log_get" =>
             /\ task[p].call = "upsert" /\ task[p].prev \in Fact
             /\ task[p].prev.body # task[p].arg.body
      BY DEF ChangesBody, Task
    <2>3. task[p].call = "share" => task[p].prev \in Fact
      BY <1>5 DEF PutFact, At, TaskFits
    <2>4. TaskFits(t)
      BY <2>1, <2>2, <2>3 DEF TaskFits, Task
    <2>5. task' \in [Callers -> Task] /\ TasksFit'
      BY <1>5, <2>4, GotoFits DEF PutFact, Steps, Critical
    <2>. QED
      BY <1>5, <2>1, <2>5 DEF PutFact, TypeOK, Slot, bounds
  <1>6. CASE ReadLog(p)
    <2>. DEFINE t == [task[p] EXCEPT !.log = history[task[p].key], !.step = "log_put"]
    <2>1. /\ task[p].call = "upsert" /\ task[p].key \in FactIds
          /\ task[p].prev \in Fact /\ task[p].prev.body # task[p].arg.body
      BY <1>6 DEF ReadLog, At, TaskFits
    <2>2. history[task[p].key] \in Seq(FactChange)
      BY <1>6, <2>1 DEF ReadLog, TypeOK
    <2>3. t \in Task
      BY <2>2 DEF Task, Critical
    <2>4. TaskFits(t)
      BY <2>1 DEF TaskFits, Task
    <2>5. task' = [task EXCEPT ![p] = t]
      BY <1>6 DEF ReadLog
    <2>6. task' \in [Callers -> Task] /\ TasksFit'
      BY <2>3, <2>4, <2>5, TaskUpdate
    <2>. QED
      BY <1>6, <2>6 DEF ReadLog, TypeOK, disk, memory, bounds
  <1>7. CASE PutLog(p)
    <2>. DEFINE entry == [before |-> task[p].prev.body, after |-> task[p].arg.body]
    <2>1. /\ task[p].call = "upsert" /\ task[p].key \in FactIds
          /\ task[p].prev \in Fact /\ task[p].arg \in Fact
      BY <1>7 DEF PutLog, At, TaskFits
    <2>2. entry \in FactChange
      BY <2>1 DEF Fact, FactChange
    <2>3. Append(task[p].log, entry) \in Seq(FactChange)
      BY <2>2 DEF Task
    <2>4. TaskFits([task[p] EXCEPT !.step = "index"])
      BY <2>1 DEF TaskFits, Task
    <2>5. task' \in [Callers -> Task] /\ TasksFit'
      BY <1>7, <2>4, GotoFits DEF PutLog, Steps, Critical
    <2>. QED
      BY <1>7, <2>1, <2>3, <2>5 DEF PutLog, TypeOK, memory, bounds
  <1>8. CASE IndexFact(p)
    <2>1. task[p].key \in FactIds /\ Written(task[p]) \in Fact
      BY <1>8, WrittenIsFact DEF IndexFact, At, TaskFits
    <2>. QED
      BY <1>8, <2>1, ReturnFits DEF IndexFact, TypeOK, disk, bounds
  <1>9. CASE Scan(p)
    <2>. DEFINE found == OfSource(task[p].arg)
                t == [task[p] EXCEPT !.todo = found, !.step = "delete"]
    <2>1. task[p].call = "purge"
      BY <1>9 DEF Scan, At, TaskFits
    <2>2. t \in Task
      BY DEF Task, Critical, OfSource
    <2>3. TaskFits(t)
      BY <2>1 DEF TaskFits, Task
    <2>4. /\ task' \in [Callers -> Task] /\ TasksFit'
          /\ writeLock' \in Callers \cup {Free}
      <3>1. CASE task' = [task EXCEPT ![p].todo = found, ![p].step = "delete"] /\ UNCHANGED writeLock
        <4>1. task' = [task EXCEPT ![p] = t]
          BY <3>1
        <4>. QED
          BY <2>2, <2>3, <3>1, <4>1, TaskUpdate DEF TypeOK
      <3>2. CASE Return(p)
        BY <3>2, ReturnFits
      <3>. QED
        BY <1>9, <3>1, <3>2 DEF Scan
    <2>. QED
      BY <1>9, <2>4 DEF Scan, TypeOK, disk, bounds
  <1>10. CASE Delete(p)
    <2>1. PICK id \in task[p].todo :
            /\ facts' = [facts EXCEPT ![id] = Absent]
            /\ drift' = drift \cup {id}
            /\ task' = [task EXCEPT ![p].todo = @ \ {id},
                          ![p].step = IF task[p].todo = {id} THEN "load" ELSE "delete"]
      BY <1>10 DEF Delete
    <2>. DEFINE t == [task[p] EXCEPT !.todo = @ \ {id},
                        !.step = IF task[p].todo = {id} THEN "load" ELSE "delete"]
    <2>2. id \in FactIds /\ task[p].call = "purge"
      BY <1>10 DEF Delete, At, TaskFits, Task
    <2>3. t \in Task
      BY DEF Task, Critical
    <2>4. TaskFits(t)
      BY <2>2 DEF TaskFits, Task
    <2>5. task' = [task EXCEPT ![p] = t]
      BY <2>1
    <2>6. task' \in [Callers -> Task] /\ TasksFit'
      BY <2>3, <2>4, <2>5, TaskUpdate
    <2>. QED
      BY <1>10, <2>1, <2>2, <2>6 DEF Delete, TypeOK, Slot, bounds
  <1>11. CASE ReadFails(p)
    BY <1>11, ReturnFits DEF ReadFails, TypeOK, disk, bounds
  <1>. QED
    BY <1>1, <1>2, <1>3, <1>4, <1>5, <1>6, <1>7, <1>8, <1>9, <1>10, <1>11 DEF Work

LEMMA FailureTypes ==
  ASSUME TypeOK, TasksFit, NEW p \in Callers, StoreFails(p)
  PROVE  TypeOK' /\ TasksFit'
  <1>1. task' \in [Callers -> Task] /\ TasksFit' /\ writeLock' = Free
    BY ReturnFits DEF StoreFails, TypeOK
  <1>2. /\ task[p] \in Task /\ TaskFits(task[p])
        /\ task[p].step \in {"put", "log_put"} => task[p].key \in FactIds
    BY DEF TypeOK, TasksFit, TaskFits
  <1>3. /\ facts' \in [FactIds -> Slot]
        /\ history' \in [FactIds -> Seq(FactChange) \cup {Torn}]
        /\ drift' \in SUBSET FactIds
    <2>1. CASE UNCHANGED <<disk, drift>>
      BY <2>1 DEF TypeOK, disk
    <2>2. CASE TearFact(p) /\ drift' = drift \cup {task[p].key}
      BY <1>2, <2>2 DEF TearFact, At, TypeOK, Slot
    <2>3. CASE TearLog(p) /\ UNCHANGED drift
      BY <1>2, <2>3 DEF TearLog, At, TypeOK
    <2>. QED
      BY <2>1, <2>2, <2>3 DEF StoreFails
  <1>. QED
    BY <1>1, <1>3 DEF StoreFails, TypeOK

LEMMA NoFactType == NoFact \in [FactIds -> Fact \cup {Absent}]
  BY DEF NoFact

LEMMA CrashTypes ==
  ASSUME TypeOK, TasksFit, Crash
  PROVE  TypeOK' /\ TasksFit'
  <1>1. \A p \in Callers :
          task[p].step \in {"put", "log_put"} => task[p].key \in FactIds
    BY DEF TypeOK, TasksFit, TaskFits
  <1>2. facts' \in [FactIds -> Slot] /\ history' \in [FactIds -> Seq(FactChange) \cup {Torn}]
    <2>1. CASE UNCHANGED disk
      BY <2>1 DEF TypeOK, disk
    <2>2. ASSUME NEW p \in Callers, TearFact(p) \/ TearLog(p)
          PROVE  /\ facts' \in [FactIds -> Slot]
                 /\ history' \in [FactIds -> Seq(FactChange) \cup {Torn}]
      BY <1>1, <2>2 DEF TearFact, TearLog, At, TypeOK, Slot
    <2>. QED
      BY <2>1, <2>2 DEF Crash
  <1>3. task' \in [Callers -> Task] /\ TasksFit'
    BY IdleFits DEF Crash, TasksFit
  <1>4. index' \in [FactIds -> Fact \cup {Absent}]
    BY NoFactType DEF Crash
  <1>5. initialized' \in BOOLEAN /\ writeLock' \in Callers \cup {Free} /\ drift' \in SUBSET FactIds
    BY DEF Crash
  <1>6. calls' \in Nat /\ faults' \in Nat /\ crashes' \in Nat
    BY DEF Crash, TypeOK
  <1>. QED
    BY <1>2, <1>3, <1>4, <1>5, <1>6 DEF TypeOK

LEMMA TypeInit == Init => TypeOK /\ TasksFit
  <1>. SUFFICES ASSUME Init
                PROVE  TypeOK /\ TasksFit
    OBVIOUS
  <1>1. task \in [Callers -> Task] /\ TasksFit
    BY IdleFits DEF Init, TasksFit
  <1>2. facts \in [FactIds -> Slot] /\ index \in [FactIds -> Fact \cup {Absent}]
    BY NoFactType DEF Init, Slot
  <1>3. history \in [FactIds -> Seq(FactChange) \cup {Torn}]
    BY DEF Init
  <1>. QED
    BY <1>1, <1>2, <1>3 DEF Init, TypeOK

LEMMA TypeStep == TypeOK /\ TasksFit /\ [Next]_vars => TypeOK' /\ TasksFit'
  <1>. SUFFICES ASSUME TypeOK, TasksFit, [Next]_vars
                PROVE  TypeOK' /\ TasksFit'
    OBVIOUS
  <1>1. ASSUME NEW p \in Callers, BeginCall(p)
        PROVE  TypeOK' /\ TasksFit'
    BY <1>1, BeginFits DEF TypeOK, disk, memory
  <1>2. CASE UNCHANGED vars
    BY <1>2 DEF vars, disk, memory, bounds, TypeOK, TasksFit, TaskFits
  <1>. QED
    BY <1>1, <1>2, WaitTypes, WorkTypes, FailureTypes, CrashTypes DEF Next

\* Type correctness: every variable keeps its type in every reachable state, and
\* every call in progress has the arguments and locals its next step uses.
THEOREM TypeCorrect == Spec => []TypeOK
  <1>1. Spec => [](TypeOK /\ TasksFit)
    BY TypeInit, TypeStep, PTL DEF Spec
  <1>. QED
    BY <1>1, PTL
-----------------------------------------------------------------------------
(***************************************************************************)
(* Mutual exclusion.                                                       *)
(***************************************************************************)

\* A step of p either keeps the lock as it is and p inside or outside, or takes
\* a free lock, or gives it up.
LEMMA LockUpdate ==
  ASSUME TypeOK, LockHeld, NEW p \in Callers, NEW t,
         task' = [task EXCEPT ![p] = t],
         \/ writeLock' = writeLock /\ (t.step \in Critical <=> task[p].step \in Critical)
         \/ writeLock = Free /\ writeLock' = p /\ t.step \in Critical
         \/ writeLock' = Free /\ writeLock = p /\ t.step \notin Critical
  PROVE  LockHeld'
  <1>1. \A q \in Callers : task'[q] = IF q = p THEN t ELSE task[q]
    BY DEF TypeOK
  <1>. QED
    BY <1>1, KnowledgeAssumption DEF LockHeld

LEMMA IdleStep == Idle.step = "idle" /\ "idle" \notin Critical
  BY DEF Idle, Critical

LEMMA ReturnUnlocks ==
  ASSUME TypeOK, LockHeld, NEW p \in Callers, task[p].step \in Critical, Return(p)
  PROVE  LockHeld'
  BY LockUpdate, IdleStep DEF Return, LockHeld

LEMMA GotoLock ==
  ASSUME TypeOK, LockHeld, NEW p \in Callers, NEW s, Goto(p, s),
         \/ writeLock' = writeLock /\ (s \in Critical <=> task[p].step \in Critical)
         \/ writeLock = Free /\ writeLock' = p /\ s \in Critical
         \/ writeLock' = Free /\ writeLock = p /\ s \notin Critical
  PROVE  LockHeld'
  <1>. DEFINE t == [task[p] EXCEPT !.step = s]
  <1>1. t.step = s /\ task' = [task EXCEPT ![p] = t]
    BY DEF Goto, TypeOK, Task
  <1>. QED
    BY <1>1, LockUpdate

LEMMA LockStep ==
  ASSUME TypeOK, TasksFit, LockHeld, [Next]_vars
  PROVE  LockHeld'
  <1>1. ASSUME NEW p \in Callers, BeginCall(p)
        PROVE  LockHeld'
    <2>1. ASSUME NEW c, NEW k, NEW x, NEW st, st \in {"ensure", "lock", "query"},
                 Begin(p, c, k, x, st)
          PROVE  LockHeld'
      <3>. DEFINE t == [Idle EXCEPT !.step = st, !.call = c, !.key = k, !.arg = x]
      <3>1. t.step = st /\ st \notin Critical /\ task[p].step \notin Critical
        BY <2>1 DEF Idle, Critical, Begin, At
      <3>2. task' = [task EXCEPT ![p] = t] /\ writeLock' = writeLock
        BY <2>1 DEF Begin, memory
      <3>. QED
        BY <3>1, <3>2, LockUpdate
    <2>. QED
      BY <1>1, <2>1 DEF BeginCall, BeginUpsert, BeginShare, BeginQuery, BeginPurge,
         BeginBuild, EnsureFor, AfterEnsure
  <1>2. ASSUME NEW p \in Callers, WaitForLock(p)
        PROVE  LockHeld'
    <2>1. CASE EnsureBuilt(p)
      BY <2>1, GotoLock DEF EnsureBuilt, AfterEnsure, At, Critical, memory
    <2>2. CASE EnsureLock(p)
      BY <2>2, GotoLock DEF EnsureLock, Critical
    <2>3. CASE Acquire(p)
      BY <2>3, GotoLock DEF Acquire, FirstStep, Critical
    <2>. QED
      BY <1>2, <2>1, <2>2, <2>3 DEF WaitForLock
  <1>3. ASSUME NEW p \in Callers, Work(p)
        PROVE  LockHeld'
    <2>. task[p] \in Task
      BY DEF TypeOK
    <2>1. CASE Load(p)
      <3>1. task[p].step \in Critical /\ writeLock = p /\ writeLock' = Free
        BY <2>1 DEF Load, At, Critical, LockHeld
      <3>2. CASE task' = [task EXCEPT ![p] = Idle]
        BY <3>1, <3>2, LockUpdate, IdleStep
      <3>3. CASE Goto(p, AfterEnsure(task[p].call))
        BY <3>1, <3>3, GotoLock DEF AfterEnsure, Critical
      <3>. QED
        BY <2>1, <3>2, <3>3 DEF Load
    <2>2. CASE Query(p)
      BY <2>2, LockUpdate, IdleStep DEF Query, memory, At, Critical
    <2>3. CASE ReadFact(p)
      <3>. DEFINE t == [task[p] EXCEPT !.prev = facts[task[p].key], !.step = "put"]
      <3>1. t.step = "put" /\ task' = [task EXCEPT ![p] = t]
        BY <2>3 DEF ReadFact, Task
      <3>. QED
        BY <2>3, <3>1, LockUpdate DEF ReadFact, memory, At, Critical
    <2>4. CASE ShareNotFound(p)
      BY <2>4, ReturnUnlocks DEF ShareNotFound, At, Critical
    <2>5. CASE PutFact(p)
      BY <2>5, GotoLock DEF PutFact, At, Critical
    <2>6. CASE ReadLog(p)
      <3>. DEFINE t == [task[p] EXCEPT !.log = history[task[p].key], !.step = "log_put"]
      <3>1. t.step = "log_put" /\ task' = [task EXCEPT ![p] = t]
        BY <2>6 DEF ReadLog, Task
      <3>. QED
        BY <2>6, <3>1, LockUpdate DEF ReadLog, memory, At, Critical
    <2>7. CASE PutLog(p)
      BY <2>7, GotoLock DEF PutLog, memory, At, Critical
    <2>8. CASE IndexFact(p)
      BY <2>8, ReturnUnlocks DEF IndexFact, At, Critical
    <2>9. CASE Scan(p)
      <3>. DEFINE found == OfSource(task[p].arg)
                  t == [task[p] EXCEPT !.todo = found, !.step = "delete"]
      <3>1. CASE /\ task' = [task EXCEPT ![p].todo = found, ![p].step = "delete"]
                 /\ UNCHANGED writeLock
        <4>1. t.step = "delete" /\ task' = [task EXCEPT ![p] = t]
          BY <3>1 DEF Task
        <4>. QED
          BY <2>9, <3>1, <4>1, LockUpdate DEF Scan, At, Critical
      <3>2. CASE Return(p)
        BY <2>9, <3>2, ReturnUnlocks DEF Scan, At, Critical
      <3>. QED
        BY <2>9, <3>1, <3>2 DEF Scan
    <2>10. CASE Delete(p)
      <3>1. PICK id \in task[p].todo :
              task' = [task EXCEPT ![p].todo = @ \ {id},
                          ![p].step = IF task[p].todo = {id} THEN "load" ELSE "delete"]
        BY <2>10 DEF Delete
      <3>. DEFINE s == IF task[p].todo = {id} THEN "load" ELSE "delete"
                  t == [task[p] EXCEPT !.todo = @ \ {id}, !.step = s]
      <3>2. t.step = s /\ task' = [task EXCEPT ![p] = t]
        BY <3>1 DEF Task
      <3>. QED
        BY <2>10, <3>2, LockUpdate DEF Delete, At, Critical
    <2>11. CASE ReadFails(p)
      BY <2>11, ReturnUnlocks DEF ReadFails, Unreadable, At, Critical
    <2>. QED
      BY <1>3, <2>1, <2>2, <2>3, <2>4, <2>5, <2>6, <2>7, <2>8, <2>9, <2>10, <2>11 DEF Work
  <1>4. ASSUME NEW p \in Callers, StoreFails(p)
        PROVE  LockHeld'
    BY <1>4, ReturnUnlocks DEF StoreFails
  <1>5. CASE Crash
    BY <1>5, IdleStep, KnowledgeAssumption DEF Crash, LockHeld
  <1>6. CASE UNCHANGED vars
    BY <1>6 DEF vars, memory, LockHeld
  <1>. QED
    BY <1>1, <1>2, <1>3, <1>4, <1>5, <1>6 DEF Next
-----------------------------------------------------------------------------
(***************************************************************************)
(* The safety invariant.                                                   *)
(***************************************************************************)

\* Only the holder of the lock is at a step whose locals depend on the disk.
LEMMA OthersSafe ==
  ASSUME TypeOK, LockHeld, CallersSafe, NEW p \in Callers, NEW t,
         task[p].step \in Critical, task' = [task EXCEPT ![p] = t],
         initialized' = initialized \/ initialized' = TRUE
  PROVE  \A q \in Callers \ {p} : CallerSafe(q)'
  <1>. SUFFICES ASSUME NEW q \in Callers \ {p}
                PROVE  CallerSafe(q)'
    OBVIOUS
  <1>1. task'[q] = task[q] /\ task[q].step \notin Critical
    BY DEF TypeOK, LockHeld
  <1>2. At(q, "query") => initialized
    BY DEF CallersSafe, CallerSafe
  <1>. QED
    BY <1>1, <1>2 DEF CallerSafe, At, Critical

\* A step that leaves the store, the index and the other callers alone.
LEMMA QuietStep ==
  ASSUME TypeOK, CallersSafe, IndexMatchesStore,
         NEW p \in Callers, NEW t, task' = [task EXCEPT ![p] = t], CallerSafe(p)',
         UNCHANGED <<facts, history, index, initialized, drift>>
  PROVE  CallersSafe' /\ IndexMatchesStore'
  <1>1. ASSUME NEW q \in Callers, q # p
        PROVE  CallerSafe(q)'
    <2>1. task'[q] = task[q] /\ CallerSafe(q)
      BY <1>1 DEF TypeOK, CallersSafe
    <2>. QED
      BY <2>1 DEF CallerSafe, At, Written
  <1>. QED
    BY <1>1 DEF CallersSafe, IndexMatchesStore

LEMMA IdleSafe ==
  ASSUME NEW p \in Callers, task \in [Callers -> Task], task' = [task EXCEPT ![p] = Idle]
  PROVE  CallerSafe(p)'
  BY DEF CallerSafe, At, Idle

\* Outside the steps that cover it, there is no drift to account for.
LEMMA NoDrift ==
  ASSUME DriftIsCovered, Intact,
         \/ writeLock \notin Callers
         \/ task[writeLock].step \in {"get", "put", "scan"}
         \/ task[writeLock].step = "load" /\ task[writeLock].call # "purge"
  PROVE  drift = {}
  BY DEF DriftIsCovered, Covers

Safe == CallersSafe /\ IndexMatchesStore /\ DriftIsCovered

LEMMA BeginSafe ==
  ASSUME IInv, NEW p \in Callers, BeginCall(p)
  PROVE  Safe'
  <1>1. ASSUME NEW c, NEW k, NEW x, NEW st, st \in {"ensure", "lock", "query"},
               st = "query" => initialized, Begin(p, c, k, x, st)
        PROVE  Safe'
    <2>. DEFINE t == [Idle EXCEPT !.step = st, !.call = c, !.key = k, !.arg = x]
    <2>1. t.step = st /\ task' = [task EXCEPT ![p] = t] /\ task'[p] = t
      BY <1>1 DEF Begin, Idle, IInv, TypeOK
    <2>2. UNCHANGED <<facts, history, index, initialized, drift, writeLock, faults>>
      BY <1>1 DEF Begin, disk, memory
    <2>3. CallerSafe(p)'
      BY <1>1, <2>1, <2>2 DEF CallerSafe, At
    <2>4. CallersSafe' /\ IndexMatchesStore'
      BY <2>1, <2>2, <2>3, QuietStep DEF IInv
    <2>5. writeLock # p
      BY <1>1 DEF Begin, At, IInv, LockHeld, Critical
    <2>6. writeLock \in Callers => task'[writeLock] = task[writeLock]
      BY <2>1, <2>5 DEF IInv, TypeOK
    <2>7. DriftIsCovered'
      BY <2>2, <2>6 DEF IInv, DriftIsCovered, Intact, Covers
    <2>. QED
      BY <2>4, <2>7 DEF Safe
  <1>. QED
    BY <1>1 DEF BeginCall, BeginUpsert, BeginShare, BeginQuery, BeginPurge,
       BeginBuild, EnsureFor, AfterEnsure

LEMMA WaitSafe ==
  ASSUME IInv, NEW p \in Callers, WaitForLock(p)
  PROVE  Safe'
  <1>1. ASSUME NEW st, st \in {"lock", "load", "scan", "get"} \/ (st = "query" /\ initialized),
               Goto(p, st), writeLock = Free, writeLock' \in {p, Free},
               UNCHANGED <<facts, history, index, initialized, drift, faults>>
        PROVE  Safe'
    <2>. DEFINE t == [task[p] EXCEPT !.step = st]
    <2>1. t.step = st /\ task' = [task EXCEPT ![p] = t] /\ task'[p] = t
      BY <1>1 DEF Goto, IInv, TypeOK, Task
    <2>2. CallerSafe(p)'
      BY <1>1, <2>1 DEF CallerSafe, At
    <2>3. CallersSafe' /\ IndexMatchesStore'
      BY <1>1, <2>1, <2>2, QuietStep DEF IInv
    <2>4. Intact => drift = {}
      BY <1>1, NoDrift, KnowledgeAssumption DEF IInv
    <2>5. DriftIsCovered'
      BY <1>1, <2>4 DEF DriftIsCovered, Intact
    <2>. QED
      BY <2>3, <2>5 DEF Safe
  <1>2. CASE EnsureBuilt(p)
    BY <1>1, <1>2 DEF EnsureBuilt, AfterEnsure, disk, memory, bounds
  <1>3. CASE EnsureLock(p)
    BY <1>1, <1>3 DEF EnsureLock, disk, bounds
  <1>4. CASE Acquire(p)
    BY <1>1, <1>4 DEF Acquire, FirstStep, disk, bounds
  <1>. QED
    BY <1>2, <1>3, <1>4 DEF WaitForLock

\* The caller at a critical step holds the lock, and its step fits its call.
LEMMA Holder ==
  ASSUME IInv, NEW p \in Callers, task[p].step \in Critical
  PROVE  /\ writeLock = p /\ task[p] \in Task /\ TaskFits(task[p]) /\ CallerSafe(p)
         /\ task \in [Callers -> Task]
  BY DEF IInv, LockHeld, TypeOK, TasksFit, CallersSafe

LEMMA PutFactSafe ==
  ASSUME IInv, NEW p \in Callers, PutFact(p)
  PROVE  Safe'
  <1>. DEFINE s == IF ChangesBody(task[p]) THEN "log_get" ELSE "index"
              t == [task[p] EXCEPT !.step = s]
              id == task[p].key
  <1>1. /\ At(p, "put") /\ task[p].step \in Critical /\ writeLock = p
        /\ task[p] \in Task /\ TaskFits(task[p]) /\ CallerSafe(p) /\ task \in [Callers -> Task]
    BY Holder DEF PutFact, At, Critical
  <1>2. id \in FactIds /\ Written(task[p]) \in Fact /\ task[p].prev = facts[id]
    BY <1>1, WrittenIsFact DEF TaskFits, CallerSafe, At
  <1>3. task' = [task EXCEPT ![p] = t] /\ task'[p] = t /\ t.step = s /\ t.key = id
    BY <1>1 DEF PutFact, Goto, Task
  <1>4. Written(t) = Written(task[p])
    BY <1>1 DEF Written, Task
  <1>5. facts' = [facts EXCEPT ![id] = Written(task[p])] /\ facts'[id] = Written(task[p])
    BY <1>2 DEF PutFact, IInv, TypeOK
  <1>6. CallerSafe(p)'
    <2>1. facts'[t.key] = Written(t) /\ t.key \in drift' /\ t.step \in {"log_get", "index"}
      BY <1>3, <1>4, <1>5 DEF PutFact
    <2>. QED
      BY <1>3, <2>1 DEF CallerSafe, At
  <1>7. CallersSafe'
    BY <1>1, <1>3, <1>6, OthersSafe DEF IInv, CallersSafe, PutFact
  <1>8. IndexMatchesStore'
    BY <1>2, <1>5 DEF IInv, IndexMatchesStore, PutFact, TypeOK
  <1>9. Intact' => Intact
    <2>1. facts[id] # Torn
      BY <1>1, <1>2, AbsentAssumption DEF Task
    <2>2. \A i \in FactIds \ {id} : facts'[i] = facts[i]
      BY <1>5 DEF IInv, TypeOK
    <2>. QED
      BY <2>1, <2>2 DEF Intact, PutFact, bounds
  <1>10. DriftIsCovered'
    <2>1. Intact => drift = {}
      BY <1>1, NoDrift DEF IInv, At
    <2>2. writeLock' = p /\ (Intact' => drift' = {id})
      BY <1>1, <1>9, <2>1 DEF PutFact
    <2>3. Covers(task'[p], id)
      BY <1>3 DEF Covers
    <2>. QED
      BY <2>2, <2>3 DEF DriftIsCovered, Covers
  <1>. QED
    BY <1>7, <1>8, <1>10 DEF Safe

LEMMA PutLogSafe ==
  ASSUME IInv, NEW p \in Callers, PutLog(p)
  PROVE  Safe'
  <1>. DEFINE t == [task[p] EXCEPT !.step = "index"]
              id == task[p].key
  <1>1. /\ At(p, "log_put") /\ task[p].step \in Critical /\ writeLock = p
        /\ task[p] \in Task /\ TaskFits(task[p]) /\ CallerSafe(p) /\ task \in [Callers -> Task]
    BY Holder DEF PutLog, At, Critical
  <1>2. id \in FactIds /\ task[p].log = history[id] /\ facts[id] = Written(task[p]) /\ id \in drift
    BY <1>1 DEF TaskFits, CallerSafe, At
  <1>3. task' = [task EXCEPT ![p] = t] /\ task'[p] = t /\ t.step = "index" /\ t.key = id
    BY <1>1 DEF PutLog, Goto, Task
  <1>4. Written(t) = Written(task[p])
    BY <1>1 DEF Written, Task
  <1>5. CallerSafe(p)'
    <2>1. facts'[t.key] = Written(t) /\ t.key \in drift'
      BY <1>2, <1>3, <1>4 DEF PutLog, memory
    <2>. QED
      BY <1>3, <2>1 DEF CallerSafe, At
  <1>6. CallersSafe'
    BY <1>1, <1>3, <1>5, OthersSafe DEF IInv, CallersSafe, PutLog, memory
  <1>7. IndexMatchesStore'
    BY DEF IInv, IndexMatchesStore, PutLog, memory
  <1>8. Intact' => Intact
    <2>1. history[id] # Torn
      BY <1>1, <1>2, AbsentAssumption DEF Task
    <2>2. \A i \in FactIds \ {id} : history'[i] = history[i]
      BY DEF PutLog, IInv, TypeOK
    <2>. QED
      BY <2>1, <2>2 DEF Intact, PutLog, bounds
  <1>9. DriftIsCovered'
    BY <1>1, <1>3, <1>8 DEF IInv, DriftIsCovered, Covers, PutLog, memory, At
  <1>. QED
    BY <1>6, <1>7, <1>9 DEF Safe

LEMMA IndexFactSafe ==
  ASSUME IInv, NEW p \in Callers, IndexFact(p)
  PROVE  Safe'
  <1>. DEFINE id == task[p].key
  <1>1. /\ At(p, "index") /\ task[p].step \in Critical /\ writeLock = p
        /\ task[p] \in Task /\ TaskFits(task[p]) /\ CallerSafe(p) /\ task \in [Callers -> Task]
    BY Holder DEF IndexFact, At, Critical
  <1>2. id \in FactIds /\ facts[id] = Written(task[p])
    BY <1>1 DEF TaskFits, CallerSafe, At
  <1>3. task' = [task EXCEPT ![p] = Idle] /\ CallerSafe(p)'
    BY <1>1, IdleSafe DEF IndexFact, Return
  <1>4. CallersSafe'
    BY <1>1, <1>3, OthersSafe DEF IInv, CallersSafe, IndexFact
  <1>5. IndexMatchesStore'
    BY <1>2 DEF IInv, IndexMatchesStore, IndexFact, disk, TypeOK
  <1>6. Intact' => Intact
    BY DEF Intact, IndexFact, disk, bounds
  <1>7. Intact => drift \subseteq {id}
    BY <1>1 DEF IInv, DriftIsCovered, Covers, At, TypeOK
  <1>8. DriftIsCovered'
    BY <1>6, <1>7 DEF DriftIsCovered, IndexFact
  <1>. QED
    BY <1>4, <1>5, <1>8 DEF Safe

LEMMA DeleteSafe ==
  ASSUME IInv, NEW p \in Callers, Delete(p)
  PROVE  Safe'
  <1>1. /\ At(p, "delete") /\ task[p].step \in Critical /\ writeLock = p
        /\ task[p] \in Task /\ TaskFits(task[p]) /\ CallerSafe(p) /\ task \in [Callers -> Task]
    BY Holder DEF Delete, At, Critical
  <1>2. PICK id \in task[p].todo :
          /\ facts' = [facts EXCEPT ![id] = Absent]
          /\ drift' = drift \cup {id}
          /\ task' = [task EXCEPT ![p].todo = @ \ {id},
                        ![p].step = IF task[p].todo = {id} THEN "load" ELSE "delete"]
    BY DEF Delete
  <1>. DEFINE s == IF task[p].todo = {id} THEN "load" ELSE "delete"
              t == [task[p] EXCEPT !.todo = @ \ {id}, !.step = s]
  <1>3. /\ task' = [task EXCEPT ![p] = t] /\ task'[p] = t
        /\ t.step = s /\ t.call = "purge" /\ t.todo = task[p].todo \ {id} /\ t.arg = task[p].arg
    BY <1>1, <1>2 DEF Task, TaskFits, At
  <1>4. id \in FactIds /\ facts[id] \in Fact
    BY <1>1 DEF Task, CallerSafe
  <1>5. \A i \in FactIds \ {id} : facts'[i] = facts[i]
    BY <1>2 DEF IInv, TypeOK
  <1>6. CallerSafe(p)'
    BY <1>1, <1>3, <1>5 DEF CallerSafe, At, Task
  <1>7. CallersSafe'
    BY <1>1, <1>3, <1>6, OthersSafe DEF IInv, CallersSafe, Delete
  <1>8. IndexMatchesStore'
    BY <1>2, <1>5 DEF IInv, IndexMatchesStore, Delete
  <1>9. Intact' => Intact
    BY <1>4, <1>5, AbsentAssumption DEF Intact, Delete, bounds
  <1>10. DriftIsCovered'
    BY <1>1, <1>3 DEF DriftIsCovered, Covers, Delete
  <1>. QED
    BY <1>7, <1>8, <1>10 DEF Safe

LEMMA LoadSafe ==
  ASSUME IInv, NEW p \in Callers, Load(p)
  PROVE  Safe'
  <1>1. /\ At(p, "load") /\ task[p].step \in Critical /\ writeLock = p
        /\ task[p] \in Task /\ TaskFits(task[p]) /\ task \in [Callers -> Task]
    BY Holder DEF Load, At, Critical
  <1>2. /\ TypeOK /\ LockHeld /\ CallersSafe
        /\ initialized' = initialized \/ initialized' = TRUE
    BY DEF Load, IInv
  <1>3. IndexMatchesStore' /\ DriftIsCovered'
    BY DEF Load, disk, IndexMatchesStore, DriftIsCovered
  <1>4. CASE task' = [task EXCEPT ![p] = Idle]
    <2>1. CallerSafe(p)'
      BY <1>1, <1>4, IdleSafe
    <2>2. ASSUME NEW q \in Callers, q # p
          PROVE  CallerSafe(q)'
      BY <1>1, <1>2, <1>4, <2>2, OthersSafe
    <2>. QED
      BY <1>3, <2>1, <2>2 DEF CallersSafe, Safe
  <1>5. CASE Goto(p, AfterEnsure(task[p].call))
    <2>. DEFINE t == [task[p] EXCEPT !.step = AfterEnsure(task[p].call)]
    <2>1. task' = [task EXCEPT ![p] = t] /\ task'[p] = t /\ t.step \in {"query", "lock"}
      BY <1>1, <1>5 DEF Goto, AfterEnsure, Task
    <2>2. CallerSafe(p)'
      BY <2>1 DEF CallerSafe, At, Load
    <2>3. ASSUME NEW q \in Callers, q # p
          PROVE  CallerSafe(q)'
      BY <1>1, <1>2, <2>1, <2>3, OthersSafe
    <2>. QED
      BY <1>3, <2>2, <2>3 DEF CallersSafe, Safe
  <1>. QED
    BY <1>4, <1>5 DEF Load

\* The steps of Work that write neither the store nor the index.
LEMMA ReadSafe ==
  ASSUME IInv, NEW p \in Callers,
         ReadFact(p) \/ ReadLog(p) \/ Scan(p) \/ Query(p) \/ ShareNotFound(p) \/ ReadFails(p)
  PROVE  Safe'
  <1>1. task \in [Callers -> Task] /\ task[p] \in Task /\ TaskFits(task[p])
    BY DEF IInv, TypeOK, TasksFit
  <1>2. UNCHANGED <<facts, history, index, initialized, drift, faults>>
    BY DEF ReadFact, ReadLog, Scan, Query, ShareNotFound, ReadFails, disk, memory, bounds
  <1>3. ASSUME NEW t, task' = [task EXCEPT ![p] = t], CallerSafe(p)'
        PROVE  CallersSafe' /\ IndexMatchesStore'
    BY <1>2, <1>3, QuietStep DEF IInv
  <1>4. ASSUME Intact => drift = {}
        PROVE  DriftIsCovered'
    BY <1>2, <1>4 DEF DriftIsCovered, Intact
  <1>5. CASE ReadFact(p)
    <2>. DEFINE t == [task[p] EXCEPT !.prev = facts[task[p].key], !.step = "put"]
    <2>1. /\ task' = [task EXCEPT ![p] = t] /\ task'[p] = t
          /\ t.step = "put" /\ t.key = task[p].key /\ t.prev = facts[task[p].key]
      BY <1>1, <1>5 DEF ReadFact, Task
    <2>2. CallerSafe(p)'
      BY <1>2, <2>1 DEF CallerSafe, At
    <2>3. Intact => drift = {}
      BY <1>5, Holder, NoDrift DEF IInv, ReadFact, At, Critical
    <2>. QED
      BY <1>3, <1>4, <2>1, <2>2, <2>3 DEF Safe
  <1>6. CASE ReadLog(p)
    <2>. DEFINE t == [task[p] EXCEPT !.log = history[task[p].key], !.step = "log_put"]
    <2>1. writeLock = p /\ CallerSafe(p)
      BY <1>6, Holder DEF ReadLog, At, Critical
    <2>2. /\ task' = [task EXCEPT ![p] = t] /\ task'[p] = t
          /\ t.step = "log_put" /\ t.key = task[p].key /\ t.log = history[task[p].key]
          /\ Written(t) = Written(task[p])
      BY <1>1, <1>6 DEF ReadLog, Task, Written
    <2>3. facts[task[p].key] = Written(task[p]) /\ task[p].key \in drift
      BY <1>6, <2>1 DEF CallerSafe, ReadLog, At
    <2>4. CallerSafe(p)'
      <3>1. facts'[t.key] = Written(t) /\ t.key \in drift' /\ t.log = history'[t.key]
        BY <1>2, <2>2, <2>3
      <3>. QED
        BY <2>2, <3>1 DEF CallerSafe, At
    <2>5. DriftIsCovered'
      BY <1>2, <1>6, <2>1, <2>2 DEF IInv, DriftIsCovered, Intact, Covers, ReadLog, memory, At
    <2>. QED
      BY <1>3, <2>2, <2>4, <2>5 DEF Safe
  <1>7. CASE Scan(p)
    <2>. DEFINE found == OfSource(task[p].arg)
                t == [task[p] EXCEPT !.todo = found, !.step = "delete"]
    <2>1. Intact => drift = {}
      BY <1>7, Holder, NoDrift DEF IInv, Scan, At, Critical
    <2>2. CASE task' = [task EXCEPT ![p].todo = found, ![p].step = "delete"]
      <3>1. /\ task' = [task EXCEPT ![p] = t] /\ task'[p] = t
            /\ t.step = "delete" /\ t.todo = found /\ t.arg = task[p].arg
        BY <1>1, <2>2 DEF Task
      <3>2. \A id \in found : facts[id] \in Fact /\ facts[id].source = task[p].arg
        BY <1>7 DEF Scan, OfSource, Readable, IInv, TypeOK, Slot
      <3>3. CallerSafe(p)'
        BY <1>2, <3>1, <3>2 DEF CallerSafe, At
      <3>. QED
        BY <1>3, <1>4, <2>1, <3>1, <3>3 DEF Safe
    <2>3. CASE Return(p)
      BY <1>1, <1>3, <1>4, <2>1, <2>3, IdleSafe DEF Safe, Return
    <2>. QED
      BY <1>7, <2>2, <2>3 DEF Scan
  <1>8. CASE Query(p)
    <2>1. task' = [task EXCEPT ![p] = Idle] /\ writeLock' = writeLock /\ writeLock # p
      BY <1>8 DEF Query, memory, IInv, LockHeld, At, Critical
    <2>2. writeLock \in Callers => task'[writeLock] = task[writeLock]
      BY <1>1, <2>1
    <2>3. DriftIsCovered'
      BY <1>2, <2>1, <2>2 DEF IInv, DriftIsCovered, Intact, Covers
    <2>. QED
      BY <1>1, <1>3, <2>1, <2>3, IdleSafe DEF Safe
  <1>9. CASE ShareNotFound(p)
    <2>1. Intact => drift = {}
      BY <1>9, Holder, NoDrift DEF IInv, ShareNotFound, At, Critical
    <2>. QED
      BY <1>1, <1>3, <1>4, <1>9, <2>1, IdleSafe DEF Safe, ShareNotFound, Return
  <1>10. CASE ReadFails(p)
    <2>1. ~Intact
      BY <1>1, <1>10 DEF ReadFails, Unreadable, Readable, Intact, At, TaskFits
    <2>. QED
      BY <1>1, <1>3, <1>4, <1>10, <2>1, IdleSafe DEF Safe, ReadFails, Return
  <1>. QED
    BY <1>5, <1>6, <1>7, <1>8, <1>9, <1>10

LEMMA FailureSafe ==
  ASSUME IInv, NEW p \in Callers, StoreFails(p)
  PROVE  Safe'
  <1>1. /\ task[p].step \in Critical /\ task \in [Callers -> Task]
        /\ task' = [task EXCEPT ![p] = Idle] /\ CallerSafe(p)'
    BY IdleSafe DEF StoreFails, Return, IInv, TypeOK
  <1>2. CallersSafe'
    BY <1>1, OthersSafe DEF IInv, CallersSafe, StoreFails
  <1>3. IndexMatchesStore'
    BY DEF IInv, TypeOK, IndexMatchesStore, StoreFails, TearFact, TearLog, disk
  <1>4. faults' # 0
    BY DEF StoreFails, IInv, TypeOK
  <1>. QED
    BY <1>2, <1>3, <1>4 DEF Safe, DriftIsCovered, Intact

LEMMA CrashSafe == Crash => Safe'
  BY DEF Crash, Safe, CallersSafe, CallerSafe, At, Idle, IndexMatchesStore, DriftIsCovered

LEMMA SafeStep == IInv /\ [Next]_vars => Safe'
  <1>. SUFFICES ASSUME IInv, [Next]_vars
                PROVE  Safe'
    OBVIOUS
  <1>1. ASSUME NEW p \in Callers, Work(p)
        PROVE  Safe'
    BY <1>1, LoadSafe, ReadSafe, PutFactSafe, PutLogSafe, IndexFactSafe, DeleteSafe DEF Work
  <1>2. CASE UNCHANGED vars
    BY <1>2 DEF vars, disk, memory, bounds, IInv, Safe, CallersSafe, CallerSafe, At,
       Written, IndexMatchesStore, DriftIsCovered, Intact, Covers
  <1>. QED
    BY <1>1, <1>2, BeginSafe, WaitSafe, FailureSafe, CrashSafe DEF Next

LEMMA SafeInit == Init => IInv
  <1>. SUFFICES ASSUME Init
                PROVE  IInv
    OBVIOUS
  <1>1. LockHeld
    BY IdleStep, KnowledgeAssumption DEF Init, LockHeld
  <1>2. CallersSafe
    BY DEF Init, CallersSafe, CallerSafe, At, Idle
  <1>3. IndexMatchesStore /\ DriftIsCovered
    BY DEF Init, IndexMatchesStore, DriftIsCovered
  <1>. QED
    BY <1>1, <1>2, <1>3, TypeInit DEF IInv

THEOREM InductiveInvariant == Spec => []IInv
  <1>1. IInv /\ [Next]_vars => IInv'
    BY TypeStep, LockStep, SafeStep DEF IInv, Safe
  <1>. QED
    BY SafeInit, <1>1, PTL DEF Spec

\* The search index never publishes a stale entry, for any number of callers,
\* failures and crashes (ensure_index, build_index, upsert, set_sharing, purge).
THEOREM IndexCorrect == Spec => []IndexMatchesStore
  <1>1. IInv => IndexMatchesStore
    BY DEF IInv
  <1>. QED
    BY <1>1, InductiveInvariant, PTL

\* Every completed write is indexed: with the lock free and no failed store call,
\* store and index agree everywhere (upsert, set_sharing, delete_facts_from_source).
THEOREM NothingLeftBehind == Spec => []NoDriftAtRest
  <1>1. IInv => NoDriftAtRest
    BY KnowledgeAssumption DEF IInv, NoDriftAtRest, DriftIsCovered
  <1>. QED
    BY <1>1, InductiveInvariant, PTL

\* upsert, set_sharing and append are atomic read-modify-writes under the lock.
THEOREM ReadsStayCurrent == Spec => []ReadStillCurrent
  <1>1. IInv => ReadStillCurrent
    BY DEF IInv, CallersSafe, CallerSafe, ReadStillCurrent
  <1>. QED
    BY <1>1, InductiveInvariant, PTL

\* A purge deletes only facts that still belong to its source.
THEOREM PurgeIsSelective == Spec => []PurgeKeepsOtherSources
  <1>1. IInv => PurgeKeepsOtherSources
    BY DEF IInv, CallersSafe, CallerSafe, PurgeKeepsOtherSources
  <1>. QED
    BY <1>1, InductiveInvariant, PTL

\* No query is answered from an index that was never built.
THEOREM QueriesWaitForBuild == Spec => []QueryAfterBuild
  <1>1. IInv => QueryAfterBuild
    BY DEF IInv, CallersSafe, CallerSafe, QueryAfterBuild
  <1>. QED
    BY <1>1, InductiveInvariant, PTL
-----------------------------------------------------------------------------
(***************************************************************************)
(* The history. Only the caller that writes a log, or a write of a log     *)
(* that breaks off, changes it.                                            *)
(***************************************************************************)

LEMMA HistoryWriters ==
  ASSUME IInv, [Next]_vars, history' # history
  PROVE  \E p \in Callers : PutLog(p) \/ TearLog(p)
  <1>1. ASSUME NEW p \in Callers, BeginCall(p) \/ WaitForLock(p)
        PROVE  UNCHANGED history
    BY <1>1 DEF BeginCall, BeginUpsert, BeginShare, BeginQuery, BeginPurge, BeginBuild, Begin,
       WaitForLock, EnsureBuilt, EnsureLock, Acquire, disk
  <1>2. ASSUME NEW p \in Callers, Work(p), ~PutLog(p)
        PROVE  UNCHANGED history
    BY <1>2 DEF Work, Load, Query, ReadFact, ShareNotFound, PutFact, ReadLog, IndexFact,
       Scan, Delete, ReadFails, disk
  <1>3. ASSUME NEW p \in Callers, StoreFails(p), ~TearLog(p)
        PROVE  UNCHANGED history
    BY <1>3 DEF StoreFails, TearFact, disk
  <1>4. CASE Crash
    BY <1>4 DEF Crash, TearFact, disk
  <1>. QED
    BY <1>1, <1>2, <1>3, <1>4 DEF Next, vars, disk

\* What the caller that writes a log knows: its fact is stored, the log it read
\* is the log on disk, and the body it replaced is another one.
LEMMA LogWriter ==
  ASSUME IInv, NEW p \in Callers, At(p, "log_put")
  PROVE  /\ task[p].key \in FactIds /\ task[p].call = "upsert" /\ task[p].arg \in Fact
         /\ task[p].log = history[task[p].key] /\ task[p].log \in Seq(FactChange)
         /\ facts[task[p].key] = task[p].arg
         /\ task[p].prev \in Fact /\ task[p].prev.body # task[p].arg.body
  <1>1. task[p] \in Task /\ TaskFits(task[p]) /\ CallerSafe(p)
    BY DEF IInv, TypeOK, TasksFit, CallersSafe
  <1>. QED
    BY <1>1 DEF At, TaskFits, CallerSafe, Written, Task

LEMMA AppendOnlyStep ==
  ASSUME IInv, [Next]_vars, NEW id \in FactIds, history'[id] # history[id]
  PROVE  \/ history'[id] = Torn
         \/ /\ history[id] # Torn
            /\ Len(history'[id]) = Len(history[id]) + 1
            /\ SubSeq(history'[id], 1, Len(history[id])) = history[id]
  <1>1. PICK p \in Callers : PutLog(p) \/ TearLog(p)
    BY HistoryWriters
  <1>2. At(p, "log_put") /\ history \in [FactIds -> Seq(FactChange) \cup {Torn}]
    BY <1>1 DEF PutLog, TearLog, IInv, TypeOK
  <1>3. CASE TearLog(p)
    BY <1>2, <1>3 DEF TearLog
  <1>4. CASE PutLog(p)
    <2>. DEFINE log == history[id]
                entry == [before |-> task[p].prev.body, after |-> task[p].arg.body]
    <2>1. id = task[p].key /\ history'[id] = Append(log, entry) /\ log \in Seq(FactChange)
      BY <1>2, <1>4, LogWriter DEF PutLog
    <2>2. log # Torn
      BY <2>1, AbsentAssumption
    <2>3. entry \in FactChange
      BY <1>2, LogWriter DEF Fact, FactChange
    <2>4. Len(Append(log, entry)) = Len(log) + 1 /\ SubSeq(Append(log, entry), 1, Len(log)) = log
      BY <2>1, <2>3
    <2>. QED
      BY <2>1, <2>2, <2>4
  <1>. QED
    BY <1>1, <1>3, <1>4

LEMMA FollowsFactStep ==
  ASSUME IInv, [Next]_vars, NEW id \in FactIds,
         history'[id] # history[id], history'[id] # Torn
  PROVE  LET entry == history'[id][Len(history'[id])]
         IN  /\ facts[id] \in Fact
             /\ entry.after = facts[id].body
             /\ entry.before # entry.after
  <1>1. PICK p \in Callers : PutLog(p)
    <2>1. PICK p \in Callers : PutLog(p) \/ TearLog(p)
      BY HistoryWriters
    <2>2. history \in [FactIds -> Seq(FactChange) \cup {Torn}]
      BY DEF IInv, TypeOK
    <2>3. ~TearLog(p)
      BY <2>2 DEF TearLog
    <2>. QED
      BY <2>1, <2>3
  <1>. DEFINE log == history[id]
              new == [before |-> task[p].prev.body, after |-> task[p].arg.body]
  <1>2. At(p, "log_put") /\ history \in [FactIds -> Seq(FactChange) \cup {Torn}]
    BY <1>1 DEF PutLog, IInv, TypeOK
  <1>3. /\ id = task[p].key /\ history'[id] = Append(log, new) /\ log \in Seq(FactChange)
        /\ facts[id] = task[p].arg /\ facts[id] \in Fact /\ new.before # new.after
    BY <1>1, <1>2, LogWriter DEF PutLog
  <1>4. new \in FactChange
    BY <1>2, LogWriter DEF Fact, FactChange
  <1>5. Append(log, new)[Len(Append(log, new))] = new
    BY <1>3, <1>4
  <1>. QED
    BY <1>3, <1>5

\* A recorded change is never rewritten or dropped: a log only grows at its end,
\* or becomes unreadable when its write breaks off (history.rs, append).
THEOREM HistoryGrows == Spec => HistoryAppendOnly
  <1>1. IInv /\ [Next]_vars =>
           [\A id \in FactIds :
              history'[id] # history[id] =>
                 \/ history'[id] = Torn
                 \/ /\ history[id] # Torn
                    /\ Len(history'[id]) = Len(history[id]) + 1
                    /\ SubSeq(history'[id], 1, Len(history[id])) = history[id]]_vars
    BY AppendOnlyStep
  <1>. QED
    BY <1>1, InductiveInvariant, PTL DEF Spec, HistoryAppendOnly

\* No log entry is orphaned: what is logged is stored already, and is a body
\* that differs from the one it replaced (service.rs, upsert).
THEOREM NoOrphanedEntry == Spec => HistoryFollowsFact
  <1>1. IInv /\ [Next]_vars =>
           [\A id \in FactIds :
              history'[id] # history[id] /\ history'[id] # Torn =>
                 LET entry == history'[id][Len(history'[id])]
                 IN  /\ facts[id] \in Fact
                     /\ entry.after = facts[id].body
                     /\ entry.before # entry.after]_vars
    BY FollowsFactStep
  <1>. QED
    BY <1>1, InductiveInvariant, PTL DEF Spec, HistoryFollowsFact

-----------------------------------------------------------------------------
(***************************************************************************)
(* Knowledge implements KnowledgeBase: the steps of any number of calls    *)
(* amount to atomic edits of a map with a log, for every value of the      *)
(* constants. Each step of Knowledge is one edit, half of one, or nothing, *)
(* seen through the map of Knowledge!Promise.                              *)
(***************************************************************************)

\* upsert rejects an unconfirmed fact before it touches anything.
ArgsConfirmed == \A p \in Callers : task[p].call = "upsert" => task[p].arg.confirmed

\* Only a failure or a crash leaves a document that cannot be read.
HarmIsCounted ==
    \A id \in FactIds : facts[id] = Torn \/ history[id] = Torn => faults + crashes > 0

RInv == IInv /\ ArgsConfirmed /\ HarmIsCounted

InLog(p) == task[p].step \in {"log_get", "log_put"}

\* The abstract map, and whether anything has gone wrong.
Base == [id \in FactIds |-> Effective(id)]
Harmed == faults + crashes > 0
-----------------------------------------------------------------------------
LEMMA TypesOf ==
  ASSUME IInv, NEW p \in Callers
  PROVE  /\ task[p] \in Task /\ TaskFits(task[p])
         /\ task[p].step \in Critical <=> writeLock = p
         /\ facts \in [FactIds -> Slot] /\ history \in [FactIds -> Seq(FactChange) \cup {Torn}]
  BY DEF IInv, TypeOK, TasksFit, LockHeld

\* Every action leaves the arguments of a call alone until the call is over.
LEMMA ArgsStep == IInv /\ ArgsConfirmed /\ [Next]_vars => ArgsConfirmed'
  <1>. SUFFICES ASSUME IInv, ArgsConfirmed, [Next]_vars
                PROVE  ArgsConfirmed'
    OBVIOUS
  <1>. task \in [Callers -> Task]
    BY DEF IInv, TypeOK
  <1>1. ASSUME NEW p \in Callers, NEW t, task' = [task EXCEPT ![p] = t],
               t.call = "upsert" => t.arg.confirmed
        PROVE  ArgsConfirmed'
    BY <1>1 DEF ArgsConfirmed
  <1>2. ASSUME NEW p \in Callers, NEW s, Goto(p, s)
        PROVE  ArgsConfirmed'
    <2>. DEFINE t == [task[p] EXCEPT !.step = s]
    <2>1. task' = [task EXCEPT ![p] = t] /\ t.call = task[p].call /\ t.arg = task[p].arg
      BY <1>2 DEF Goto, Task
    <2>. QED
      BY <1>1, <2>1 DEF ArgsConfirmed
  <1>3. ASSUME NEW p \in Callers, task' = [task EXCEPT ![p] = Idle]
        PROVE  ArgsConfirmed'
    BY <1>1, <1>3 DEF Idle
  <1>4. ASSUME NEW p \in Callers, BeginCall(p)
        PROVE  ArgsConfirmed'
    <2>1. ASSUME NEW c, NEW k, NEW x, NEW st, Begin(p, c, k, x, st), c = "upsert" => x.confirmed
          PROVE  ArgsConfirmed'
      BY <1>1, <2>1 DEF Begin, Idle
    <2>2. CASE BeginUpsert(p)
      BY <2>1, <2>2 DEF BeginUpsert
    <2>3. CASE BeginShare(p) \/ BeginQuery(p) \/ BeginPurge(p) \/ BeginBuild(p)
      BY <2>1, <2>3 DEF BeginShare, BeginQuery, BeginPurge, BeginBuild
    <2>. QED
      BY <1>4, <2>2, <2>3 DEF BeginCall
  <1>5. ASSUME NEW p \in Callers, WaitForLock(p)
        PROVE  ArgsConfirmed'
    BY <1>2, <1>5 DEF WaitForLock, EnsureBuilt, EnsureLock, Acquire
  <1>6. ASSUME NEW p \in Callers, Work(p)
        PROVE  ArgsConfirmed'
    <2>1. CASE Load(p) \/ Query(p) \/ ShareNotFound(p) \/ IndexFact(p) \/ ReadFails(p)
      BY <1>2, <1>3, <2>1 DEF Load, Query, ShareNotFound, IndexFact, ReadFails, Return
    <2>2. CASE PutFact(p) \/ PutLog(p)
      BY <1>2, <2>2 DEF PutFact, PutLog
    <2>3. CASE ReadFact(p)
      <3>. DEFINE t == [task[p] EXCEPT !.prev = facts[task[p].key], !.step = "put"]
      <3>1. task' = [task EXCEPT ![p] = t] /\ t.call = task[p].call /\ t.arg = task[p].arg
        BY <2>3 DEF ReadFact, Task
      <3>. QED
        BY <1>1, <3>1 DEF ArgsConfirmed
    <2>4. CASE ReadLog(p)
      <3>. DEFINE t == [task[p] EXCEPT !.log = history[task[p].key], !.step = "log_put"]
      <3>1. task' = [task EXCEPT ![p] = t] /\ t.call = task[p].call /\ t.arg = task[p].arg
        BY <2>4 DEF ReadLog, Task
      <3>. QED
        BY <1>1, <3>1 DEF ArgsConfirmed
    <2>5. CASE Scan(p)
      <3>. DEFINE t == [task[p] EXCEPT !.todo = OfSource(task[p].arg), !.step = "delete"]
      <3>1. t.call = task[p].call /\ t.arg = task[p].arg
        BY DEF Task
      <3>2. task' = [task EXCEPT ![p] = t] \/ Return(p)
        BY <2>5 DEF Scan
      <3>. QED
        BY <1>1, <1>3, <3>1, <3>2 DEF ArgsConfirmed, Return
    <2>6. CASE Delete(p)
      <3>1. PICK id \in task[p].todo :
              task' = [task EXCEPT ![p].todo = @ \ {id},
                         ![p].step = IF task[p].todo = {id} THEN "load" ELSE "delete"]
        BY <2>6 DEF Delete
      <3>. DEFINE t == [task[p] EXCEPT !.todo = @ \ {id},
                          !.step = IF task[p].todo = {id} THEN "load" ELSE "delete"]
      <3>2. task' = [task EXCEPT ![p] = t] /\ t.call = task[p].call /\ t.arg = task[p].arg
        BY <3>1 DEF Task
      <3>. QED
        BY <1>1, <3>2 DEF ArgsConfirmed
    <2>. QED
      BY <1>6, <2>1, <2>2, <2>3, <2>4, <2>5, <2>6 DEF Work
  <1>7. ASSUME NEW p \in Callers, StoreFails(p)
        PROVE  ArgsConfirmed'
    BY <1>3, <1>7 DEF StoreFails, Return
  <1>8. CASE Crash
    BY <1>8 DEF Crash, ArgsConfirmed, Idle
  <1>9. CASE UNCHANGED vars
    BY <1>9 DEF vars, ArgsConfirmed
  <1>. QED
    BY <1>4, <1>5, <1>6, <1>7, <1>8, <1>9 DEF Next

\* Documents become unreadable in StoreFails and in Crash only, and both are counted.
LEMMA HarmStep == IInv /\ HarmIsCounted /\ [Next]_vars => HarmIsCounted'
  <1>. SUFFICES ASSUME IInv, HarmIsCounted, [Next]_vars
                PROVE  HarmIsCounted'
    OBVIOUS
  <1>. /\ facts \in [FactIds -> Slot] /\ history \in [FactIds -> Seq(FactChange) \cup {Torn}]
       /\ calls \in Nat /\ faults \in Nat /\ crashes \in Nat
    BY DEF IInv, TypeOK
  <1>1. CASE UNCHANGED <<disk, faults, crashes>>
    BY <1>1 DEF HarmIsCounted, disk
  <1>2. ASSUME NEW p \in Callers, BeginCall(p) \/ WaitForLock(p)
        PROVE  UNCHANGED <<disk, faults, crashes>>
    BY <1>2 DEF BeginCall, BeginUpsert, BeginShare, BeginQuery, BeginPurge, BeginBuild, Begin,
       WaitForLock, EnsureBuilt, EnsureLock, Acquire, bounds
  <1>3. ASSUME NEW p \in Callers, Work(p), ~PutFact(p), ~PutLog(p), ~Delete(p)
        PROVE  UNCHANGED <<disk, faults, crashes>>
    BY <1>3 DEF Work, Load, Query, ReadFact, ShareNotFound, ReadLog, IndexFact, Scan,
       ReadFails, bounds
  <1>4. ASSUME NEW p \in Callers, PutFact(p)
        PROVE  HarmIsCounted'
    <2>1. Written(task[p]) \in Fact
      BY <1>4, TypesOf, WrittenIsFact DEF PutFact, At
    <2>2. Written(task[p]) # Torn
      BY <2>1, AbsentAssumption
    <2>. QED
      BY <1>4, <2>2 DEF PutFact, HarmIsCounted, bounds
  <1>5. ASSUME NEW p \in Callers, PutLog(p)
        PROVE  HarmIsCounted'
    <2>. DEFINE entry == [before |-> task[p].prev.body, after |-> task[p].arg.body]
    <2>1. entry \in FactChange /\ task[p].log \in Seq(FactChange)
      BY <1>5, LogWriter DEF PutLog, Fact, FactChange
    <2>2. Append(task[p].log, entry) \in Seq(FactChange)
      BY <2>1
    <2>3. Append(task[p].log, entry) # Torn
      BY <2>2, AbsentAssumption
    <2>. QED
      BY <1>5, <2>3 DEF PutLog, HarmIsCounted, bounds
  <1>6. ASSUME NEW p \in Callers, Delete(p)
        PROVE  HarmIsCounted'
    BY <1>6, AbsentAssumption DEF Delete, HarmIsCounted, bounds
  <1>7. ASSUME NEW p \in Callers, StoreFails(p)
        PROVE  HarmIsCounted'
    BY <1>7 DEF StoreFails, HarmIsCounted
  <1>8. CASE Crash
    BY <1>8 DEF Crash, HarmIsCounted
  <1>. QED
    BY <1>1, <1>2, <1>3, <1>4, <1>5, <1>6, <1>7, <1>8 DEF Next, vars, bounds

LEMMA RInvInit == Init => RInv
  <1>. SUFFICES ASSUME Init
                PROVE  RInv
    OBVIOUS
  <1>1. ArgsConfirmed
    BY DEF Init, Idle, ArgsConfirmed
  <1>2. HarmIsCounted
    <2>1. <<>> \in Seq(FactChange)
      OBVIOUS
    <2>2. <<>> # Torn
      BY <2>1, AbsentAssumption
    <2>. QED
      BY <2>2, AbsentAssumption DEF Init, NoFact, HarmIsCounted
  <1>. QED
    BY <1>1, <1>2, SafeInit DEF RInv

\* What the refinement rests on: the invariant of Knowledge, that what is being stored was
\* confirmed, and that nothing is unreadable unless something failed.
LEMMA RefinementInvariant == Spec => []RInv
  <1>1. RInv /\ [Next]_vars => ArgsConfirmed' /\ HarmIsCounted'
    BY ArgsStep, HarmStep DEF RInv
  <1>. QED
    BY <1>1, RInvInit, InductiveInvariant, PTL DEF Spec, RInv
-----------------------------------------------------------------------------
(***************************************************************************)
(* The abstract map. Only the holder of the lock can be between the write  *)
(* of a fact and that of its log, so at most one fact still counts as it   *)
(* was read.                                                               *)
(***************************************************************************)

LEMMA BaseAtRest ==
  IInv /\ (\A p \in Callers : ~InLog(p)) => Base = facts
  BY DEF IInv, TypeOK, Base, Effective, InLog

LEMMA BaseInLog ==
  \A p \in Callers :
     IInv /\ InLog(p) => /\ Base = [facts EXCEPT ![task[p].key] = task[p].prev]
                        /\ task[p].key \in FactIds /\ writeLock = p
  <1>. SUFFICES ASSUME NEW p \in Callers, IInv, InLog(p)
                PROVE  /\ Base = [facts EXCEPT ![task[p].key] = task[p].prev]
                       /\ task[p].key \in FactIds /\ writeLock = p
    OBVIOUS
  <1>1. task[p].key \in FactIds /\ writeLock = p
    BY TypesOf DEF InLog, TaskFits, Critical
  <1>2. \A q \in Callers : InLog(q) => q = p
    BY <1>1, TypesOf DEF InLog, Critical
  <1>3. \A id \in FactIds : Effective(id) = IF id = task[p].key THEN task[p].prev ELSE facts[id]
    BY <1>1, <1>2 DEF Effective, InLog
  <1>. QED
    BY <1>1, <1>3, TypesOf DEF Base

\* The same two facts of the next state.
LEMMA BaseAtRestNext ==
  (IInv /\ (\A p \in Callers : ~InLog(p)) => Base = facts)'
  BY BaseAtRest, PTL

LEMMA BaseInLogNext ==
  (\A p \in Callers :
     IInv /\ InLog(p) => /\ Base = [facts EXCEPT ![task[p].key] = task[p].prev]
                        /\ task[p].key \in FactIds /\ writeLock = p)'
  BY BaseInLog, PTL
-----------------------------------------------------------------------------
(***************************************************************************)
(* The steps.                                                              *)
(***************************************************************************)

LEMMA IInvStep == IInv /\ [Next]_vars => IInv'
  BY TypeStep, LockStep, SafeStep DEF IInv, Safe

\* While a caller holds the lock and is not between the two writes, nobody is.
LEMMA HolderAlone ==
  \A p \in Callers : IInv /\ task[p].step \in Critical /\ ~InLog(p) => Base = facts
  BY BaseAtRest, TypesOf DEF InLog, Critical

LEMMA HolderAloneNext ==
  (\A p \in Callers : IInv /\ task[p].step \in Critical /\ ~InLog(p) => Base = facts)'
  BY HolderAlone, PTL

\* Steps outside the two writes of a log leave the abstract map as it is.
LEMMA SameBase ==
  ASSUME IInv, IInv', UNCHANGED facts, NEW p \in Callers, ~InLog(p), ~InLog(p)',
         \A q \in Callers \ {p} : task'[q] = task[q]
  PROVE  Base' = Base
  <1>1. CASE \E q \in Callers : InLog(q)
    <2>1. PICK q \in Callers \ {p} : InLog(q)
      BY <1>1
    <2>2. InLog(q)' /\ task'[q] = task[q]
      BY <2>1 DEF InLog
    <2>3. Base = [facts EXCEPT ![task[q].key] = task[q].prev]
      BY <2>1, BaseInLog
    <2>4. Base' = [facts EXCEPT ![task[q].key] = task[q].prev]'
      BY <2>1, <2>2, BaseInLogNext
    <2>. QED
      BY <2>2, <2>3, <2>4
  <1>2. CASE \A q \in Callers : ~InLog(q)
    <2>1. \A q \in Callers : ~InLog(q)'
      BY <1>2 DEF InLog
    <2>2. Base' = facts'
      BY <2>1, BaseAtRestNext
    <2>. QED
      BY <1>2, <2>2, BaseAtRest
  <1>. QED
    BY <1>1, <1>2

\* What the concrete step must amount to.
Stutter == UNCHANGED <<Base, history, Harmed>>

AbstractStep == Promise!Next \/ Stutter

LEMMA CountersSame == UNCHANGED <<faults, crashes>> => UNCHANGED Harmed
  BY DEF Harmed

LEMMA BeginAbstract ==
  ASSUME IInv, IInv', NEW p \in Callers, BeginCall(p) \/ WaitForLock(p)
  PROVE  Stutter
  <1>. task \in [Callers -> Task]
    BY DEF IInv, TypeOK
  <1>1. ASSUME NEW c, NEW k, NEW x, NEW st, Begin(p, c, k, x, st),
               st \in {"ensure", "lock", "query"}
        PROVE  Stutter
    <2>1. task' = [task EXCEPT ![p] = [Idle EXCEPT !.step = st, !.call = c, !.key = k, !.arg = x]]
      BY <1>1 DEF Begin
    <2>2. ~InLog(p) /\ ~InLog(p)' /\ \A q \in Callers \ {p} : task'[q] = task[q]
      BY <1>1, <2>1 DEF Begin, InLog, At, Idle
    <2>. QED
      BY <1>1, <2>2, SameBase DEF Begin, Stutter, Harmed, disk
  <1>2. CASE BeginCall(p)
    BY <1>1, <1>2 DEF BeginCall, BeginUpsert, BeginShare, BeginQuery, BeginPurge, BeginBuild,
       EnsureFor, AfterEnsure
  <1>3. CASE WaitForLock(p)
    <2>1. PICK s \in {"query", "lock", "load", "scan", "get"} : Goto(p, s)
      BY <1>3 DEF WaitForLock, EnsureBuilt, EnsureLock, Acquire, AfterEnsure, FirstStep
    <2>2. ~InLog(p) /\ ~InLog(p)' /\ \A q \in Callers \ {p} : task'[q] = task[q]
      BY <1>3, <2>1 DEF WaitForLock, EnsureBuilt, EnsureLock, Acquire, InLog, At, Goto, Task
    <2>. QED
      BY <1>3, <2>2, SameBase
      DEF WaitForLock, EnsureBuilt, EnsureLock, Acquire, Stutter, Harmed, disk, bounds
  <1>. QED
    BY <1>2, <1>3

\* Reads, look-ups and the moves of the lock are not seen.
LEMMA QuietAbstract ==
  ASSUME IInv, IInv', NEW p \in Callers,
         \/ Load(p) \/ Query(p) \/ ReadFact(p) \/ ShareNotFound(p) \/ IndexFact(p) \/ Scan(p)
         \/ ReadFails(p) /\ ~At(p, "log_get")
  PROVE  Stutter
  <1>. task \in [Callers -> Task]
    BY DEF IInv, TypeOK
  <1>1. ~InLog(p)
    BY DEF Load, Query, ReadFact, ShareNotFound, IndexFact, Scan, ReadFails, Unreadable, InLog, At
  <1>2. ~InLog(p)' /\ \A q \in Callers \ {p} : task'[q] = task[q]
    <2>1. CASE task' = [task EXCEPT ![p] = Idle]
      BY <2>1 DEF InLog, Idle
    <2>2. ASSUME NEW s \in {"query", "lock"}, Goto(p, s)
          PROVE  ~InLog(p)' /\ \A q \in Callers \ {p} : task'[q] = task[q]
      BY <2>2 DEF Goto, InLog, Task
    <2>3. CASE ReadFact(p)
      BY <2>3 DEF ReadFact, InLog, Task
    <2>4. CASE Scan(p) /\ ~Return(p)
      <3>1. task' = [task EXCEPT ![p].todo = OfSource(task[p].arg), ![p].step = "delete"]
        BY <2>4 DEF Scan
      <3>. QED
        BY <3>1 DEF InLog, Task
    <2>. QED
      BY <2>1, <2>2, <2>3, <2>4
      DEF Load, Query, ShareNotFound, IndexFact, ReadFails, Return, AfterEnsure
  <1>3. UNCHANGED <<facts, history, faults, crashes>>
    BY DEF Load, Query, ReadFact, ShareNotFound, IndexFact, Scan, ReadFails, disk, bounds
  <1>. QED
    BY <1>1, <1>2, <1>3, SameBase DEF Stutter, Harmed

\* The write of a fact: seen at once, unless its log is to be written too.
LEMMA PutFactAbstract ==
  ASSUME RInv, IInv', NEW p \in Callers, PutFact(p)
  PROVE  AbstractStep
  <1>. DEFINE t == task[p]
  <1>. IInv /\ task \in [Callers -> Task]
    BY DEF RInv, IInv, TypeOK
  <1>1. /\ t \in Task /\ TaskFits(t) /\ t.step = "put" /\ t.key \in FactIds
        /\ t.prev = facts[t.key] /\ t.call \in {"upsert", "share"}
    BY TypesOf DEF PutFact, At, TaskFits, IInv, CallersSafe, CallerSafe
  <1>2. Base = facts /\ facts \in [FactIds -> Slot]
    BY <1>1, HolderAlone, TypesOf DEF InLog, Critical
  <1>3. facts' = [facts EXCEPT ![t.key] = Written(t)] /\ UNCHANGED <<history, faults, crashes>>
    BY DEF PutFact, bounds
  <1>4. CASE ChangesBody(t)
    <2>1. task' = [task EXCEPT ![p].step = "log_get"]
      BY <1>4 DEF PutFact, Goto
    <2>2. InLog(p)' /\ task'[p].key = t.key /\ task'[p].prev = t.prev
      BY <2>1, <1>1 DEF InLog, Task
    <2>3. Base' = [facts' EXCEPT ![t.key] = t.prev]
      BY <2>2, BaseInLogNext
    <2>4. Base' = facts
      BY <1>1, <1>2, <1>3, <2>3
    <2>. QED
      BY <1>2, <1>3, <2>4 DEF AbstractStep, Stutter, Harmed
  <1>5. CASE ~ChangesBody(t)
    <2>1. task' = [task EXCEPT ![p].step = "index"]
      BY <1>5 DEF PutFact, Goto
    <2>2. task'[p].step = "index"
      BY <2>1, <1>1 DEF Task
    <2>3. Base' = facts'
      BY <2>2, HolderAloneNext DEF InLog, Critical
    <2>4. Base' = [Base EXCEPT ![t.key] = Written(t)]
      BY <1>2, <1>3, <2>3
    <2>5. CASE t.call = "upsert"
      <3>1. Written(t) = t.arg /\ t.arg \in Fact /\ t.arg.confirmed
        BY <1>1, <2>5 DEF Written, TaskFits, RInv, ArgsConfirmed
      <3>2. t.prev = Absent \/ t.prev.body = t.arg.body
        BY <1>5, <2>5 DEF ChangesBody
      <3>3. Base[t.key] # Torn
        BY <1>1, <1>2, AbsentAssumption DEF Task
      <3>4. Promise!Upsert(t.key, t.arg)
        BY <1>1, <1>2, <1>3, <2>4, <3>1, <3>2, <3>3 DEF Promise!Upsert, Promise!Replaces, Base
      <3>. QED
        BY <1>1, <1>3, <3>1, <3>4 DEF AbstractStep, Promise!Next, Promise!Edit, Harmed
    <2>6. CASE t.call = "share"
      <3>1. Written(t) = [t.prev EXCEPT !.share = t.arg] /\ t.prev \in Fact /\ t.arg \in Shares
        BY <1>1, <2>6 DEF Written, TaskFits
      <3>2. Base[t.key] \notin {Absent, Torn}
        BY <1>1, <1>2, <3>1, AbsentAssumption
      <3>3. Base' = [Base EXCEPT ![t.key].share = t.arg]
        BY <1>1, <1>2, <2>4, <3>1
      <3>4. Promise!SetSharing(t.key, t.arg)
        BY <1>3, <3>2, <3>3 DEF Promise!SetSharing, Base
      <3>. QED
        BY <1>1, <1>3, <3>1, <3>4 DEF AbstractStep, Promise!Next, Promise!Edit, Harmed
    <2>. QED
      BY <1>1, <2>5, <2>6
  <1>. QED
    BY <1>4, <1>5
\* The write of the log is the edit: from here on the new fact counts.
LEMMA PutLogAbstract ==
  ASSUME RInv, IInv', NEW p \in Callers, PutLog(p)
  PROVE  AbstractStep
  <1>. DEFINE t == task[p]
              log == history[t.key]
              entry == [before |-> t.prev.body, after |-> t.arg.body]
  <1>. IInv /\ task \in [Callers -> Task]
    BY DEF RInv, IInv, TypeOK
  <1>1. /\ t \in Task /\ t.step = "log_put" /\ t.key \in FactIds /\ t.arg \in Fact
        /\ t.call = "upsert" /\ t.log = log /\ log \in Seq(FactChange) /\ facts[t.key] = t.arg
        /\ t.prev \in Fact /\ t.prev.body # t.arg.body
    BY TypesOf, LogWriter DEF PutLog, At
  <1>2. t.arg.confirmed
    BY <1>1 DEF RInv, ArgsConfirmed
  <1>3. Base = [facts EXCEPT ![t.key] = t.prev] /\ facts \in [FactIds -> Slot]
    BY <1>1, BaseInLog, TypesOf DEF InLog
  <1>4. /\ history' = [history EXCEPT ![t.key] = Append(t.log, entry)]
        /\ UNCHANGED <<facts, faults, crashes>>
    BY DEF PutLog, bounds
  <1>5. task'[p].step = "index"
    BY <1>1 DEF PutLog, Goto, Task
  <1>6. Base' = facts
    BY <1>4, <1>5, HolderAloneNext DEF InLog, Critical
  <1>7. Base[t.key] = t.prev /\ Base' = [Base EXCEPT ![t.key] = t.arg]
    BY <1>1, <1>3, <1>6
  <1>8. t.prev \notin {Absent, Torn} /\ log # Torn
    BY <1>1, AbsentAssumption
  <1>9. Promise!Upsert(t.key, t.arg)
    BY <1>1, <1>2, <1>4, <1>7, <1>8 DEF Promise!Upsert, Promise!Replaces, Base
  <1>. QED
    BY <1>1, <1>4, <1>9 DEF AbstractStep, Promise!Next, Promise!Edit, Harmed

LEMMA ReadLogAbstract ==
  ASSUME IInv, IInv', NEW p \in Callers, ReadLog(p)
  PROVE  Stutter
  <1>. task \in [Callers -> Task]
    BY DEF IInv, TypeOK
  <1>1. task' = [task EXCEPT ![p].log = history[task[p].key], ![p].step = "log_put"]
    BY DEF ReadLog
  <1>2. InLog(p) /\ InLog(p)' /\ task'[p].key = task[p].key /\ task'[p].prev = task[p].prev
    BY <1>1 DEF ReadLog, At, InLog, Task
  <1>3. Base = [facts EXCEPT ![task[p].key] = task[p].prev]
    BY <1>2, BaseInLog
  <1>4. Base' = [facts' EXCEPT ![task'[p].key] = task'[p].prev]
    BY <1>2, BaseInLogNext
  <1>. QED
    BY <1>2, <1>3, <1>4 DEF ReadLog, disk, bounds, Stutter, Harmed

LEMMA DeleteAbstract ==
  ASSUME IInv, IInv', NEW p \in Callers, Delete(p)
  PROVE  AbstractStep
  <1>. task \in [Callers -> Task]
    BY DEF IInv, TypeOK
  <1>1. PICK id \in task[p].todo :
           /\ facts' = [facts EXCEPT ![id] = Absent]
           /\ task' = [task EXCEPT ![p].todo = @ \ {id},
                         ![p].step = IF task[p].todo = {id} THEN "load" ELSE "delete"]
    BY DEF Delete
  <1>2. task[p].step = "delete" /\ task[p] \in Task /\ task'[p].step \in {"load", "delete"}
    BY <1>1, TypesOf DEF Delete, At, Task
  <1>3. Base = facts /\ Base' = facts'
    BY <1>2, HolderAlone, HolderAloneNext DEF InLog, Critical
  <1>4. id \in FactIds /\ facts[id] # Torn
    BY <1>1, <1>2, AbsentAssumption DEF Task, IInv, CallersSafe, CallerSafe, At
  <1>5. UNCHANGED <<history, faults, crashes>>
    BY DEF Delete, bounds
  <1>6. Promise!DeleteFact(id)
    BY <1>1, <1>3, <1>4, <1>5 DEF Promise!DeleteFact, Base
  <1>. QED
    BY <1>4, <1>5, <1>6 DEF AbstractStep, Promise!Next, Promise!Edit, Harmed

-----------------------------------------------------------------------------
(***************************************************************************)
(* Failures and crashes. The fact that is being edited may lose its log    *)
(* entry or its readability, and no other fact may.                        *)
(***************************************************************************)

\* What remains of the disk when a write breaks off.
LEMMA TornOrSame ==
  ASSUME IInv, UNCHANGED disk \/ \E p \in Callers : TearFact(p) \/ TearLog(p)
  PROVE  \/ UNCHANGED disk
         \/ \E p \in Callers :
               /\ task[p].step \in Critical /\ task[p].key \in FactIds
               /\ \/ /\ At(p, "put") /\ UNCHANGED history
                     /\ facts' = [facts EXCEPT ![task[p].key] = Torn]
                  \/ /\ At(p, "log_put") /\ UNCHANGED facts
                     /\ history' = [history EXCEPT ![task[p].key] = Torn]
  <1>1. ASSUME NEW p \in Callers, TearFact(p) \/ TearLog(p)
        PROVE  task[p].step \in Critical /\ task[p].key \in FactIds
    BY <1>1, TypesOf DEF TearFact, TearLog, At, TaskFits, Critical
  <1>. QED
    BY <1>1 DEF TearFact, TearLog

\* When nobody is left between the two writes, at most one fact has changed.
LEMMA BreaksOff ==
  ASSUME IInv, Base' = facts', Harmed',
         \/ UNCHANGED disk
         \/ \E p \in Callers : TearFact(p) \/ TearLog(p)
  PROVE  \E id \in FactIds : Promise!HalfEdit(id)
  <1>0. facts \in [FactIds -> Slot] /\ history \in [FactIds -> Seq(FactChange) \cup {Torn}]
    BY DEF IInv, TypeOK
  <1>1. CASE \E p \in Callers : InLog(p)
    <2>1. PICK p \in Callers : InLog(p)
      BY <1>1
    <2>. DEFINE id == task[p].key
    <2>2. Base = [facts EXCEPT ![id] = task[p].prev] /\ id \in FactIds /\ writeLock = p
      BY <2>1, BaseInLog
    <2>3. \A q \in Callers : task[q].step \in Critical => q = p
      BY <2>2, TypesOf
    <2>4. facts[id] \in Fact
      <3>1. Written(task[p]) \in Fact /\ facts[id] = Written(task[p])
        BY <2>1, TypesOf, WrittenIsFact DEF InLog, IInv, CallersSafe, CallerSafe
      <3>. QED
        BY <3>1
    <2>5. /\ UNCHANGED facts
          /\ history' \in {history, [history EXCEPT ![id] = Torn]}
      BY <2>1, <2>3, TornOrSame DEF disk, At, InLog
    <2>6. Base' = [Base EXCEPT ![id] = facts[id]]
      BY <1>0, <2>2, <2>5
    <2>7. Promise!HalfEdit(id)
      BY <2>4, <2>5, <2>6 DEF Promise!HalfEdit, Base, Harmed
    <2>. QED
      BY <2>2, <2>7
  <1>2. CASE \A p \in Callers : ~InLog(p)
    <2>1. Base = facts
      BY <1>2, BaseAtRest
    <2>2. CASE UNCHANGED disk
      <3>1. \A id \in FactIds : Promise!HalfEdit(id)
        BY <2>1, <2>2 DEF Promise!HalfEdit, Base, Harmed, disk
      <3>. QED
        BY <3>1, KnowledgeAssumption
    <2>3. CASE \E p \in Callers : TearFact(p) \/ TearLog(p)
      <3>1. PICK p \in Callers : TearFact(p)
        BY <1>2, <2>3 DEF TearLog, At, InLog
      <3>2. /\ task[p].key \in FactIds /\ UNCHANGED history
            /\ facts' = [facts EXCEPT ![task[p].key] = Torn]
        BY <3>1, TypesOf DEF TearFact, At, TaskFits
      <3>3. Promise!HalfEdit(task[p].key)
        BY <2>1, <3>2 DEF Promise!HalfEdit, Base, Harmed
      <3>. QED
        BY <3>2, <3>3
    <2>. QED
      BY <2>2, <2>3
  <1>. QED
    BY <1>1, <1>2
\* A call that holds the lock ends in an error, which is counted, or which an earlier
\* one has caused.
LEMMA FailureAbstract ==
  ASSUME RInv, IInv', NEW p \in Callers, StoreFails(p) \/ (ReadFails(p) /\ At(p, "log_get"))
  PROVE  AbstractStep
  <1>. /\ IInv /\ task \in [Callers -> Task]
       /\ faults \in Nat /\ crashes \in Nat
    BY DEF RInv, IInv, TypeOK
  <1>1. task' = [task EXCEPT ![p] = Idle] /\ task[p].step \in Critical
    BY DEF StoreFails, ReadFails, Return, At, Critical
  <1>2. \A q \in Callers : ~InLog(q)'
    BY <1>1, TypesOf DEF InLog, Critical, Idle
  <1>3. Base' = facts'
    BY <1>2, BaseAtRestNext
  <1>4. Harmed'
    <2>1. CASE StoreFails(p)
      BY <2>1 DEF StoreFails, Harmed
    <2>2. CASE ReadFails(p) /\ At(p, "log_get")
      <3>1. history[task[p].key] = Torn /\ task[p].key \in FactIds
        BY <2>2, TypesOf DEF ReadFails, Unreadable, At, TaskFits
      <3>. QED
        BY <2>2, <3>1 DEF RInv, HarmIsCounted, ReadFails, Harmed, bounds
    <2>. QED
      BY <2>1, <2>2
  <1>5. UNCHANGED disk \/ \E q \in Callers : TearFact(q) \/ TearLog(q)
    BY DEF StoreFails, ReadFails, disk
  <1>. QED
    BY <1>3, <1>4, <1>5, BreaksOff DEF AbstractStep, Promise!Next

LEMMA CrashAbstract ==
  ASSUME RInv, IInv', Crash
  PROVE  AbstractStep
  <1>. IInv /\ faults \in Nat /\ crashes \in Nat
    BY DEF RInv, IInv, TypeOK
  <1>1. \A q \in Callers : ~InLog(q)'
    BY DEF Crash, InLog, Idle
  <1>2. Base' = facts' /\ Harmed'
    BY <1>1, BaseAtRestNext DEF Crash, Harmed
  <1>. QED
    BY <1>2, BreaksOff DEF Crash, AbstractStep, Promise!Next

LEMMA StepAbstract ==
  ASSUME RInv, [Next]_vars
  PROVE  AbstractStep
  <1>. IInv
    BY DEF RInv
  <1>1. IInv'
    BY IInvStep
  <1>2. ASSUME NEW p \in Callers, BeginCall(p) \/ WaitForLock(p)
        PROVE  AbstractStep
    BY <1>1, <1>2, BeginAbstract DEF AbstractStep
  <1>3. ASSUME NEW p \in Callers, Work(p)
        PROVE  AbstractStep
    BY <1>1, <1>3, QuietAbstract, PutFactAbstract, PutLogAbstract, ReadLogAbstract,
       DeleteAbstract, FailureAbstract DEF Work, AbstractStep
  <1>4. ASSUME NEW p \in Callers, StoreFails(p)
        PROVE  AbstractStep
    BY <1>1, <1>4, FailureAbstract
  <1>5. CASE Crash
    BY <1>1, <1>5, CrashAbstract
  <1>6. CASE UNCHANGED vars
    <2>1. Base' = Base
      BY <1>6 DEF vars, disk, memory, Base, Effective
    <2>. QED
      BY <1>6, <2>1 DEF vars, disk, bounds, AbstractStep, Stutter, Harmed
  <1>. QED
    BY <1>2, <1>3, <1>4, <1>5, <1>6 DEF Next

\* The knowledge service keeps what KnowledgeBase promises: any interleaving of edits,
\* purges, index builds, failures and crashes amounts to atomic edits with their log
\* entries, and harm is confined to the fact that was being edited (KR-3, P-6).
THEOREM Refinement == Spec => ActsAtomically
  <1>1. Init => Promise!Init
    <2>. SUFFICES ASSUME Init
                  PROVE  Promise!Init
      OBVIOUS
    <2>1. \A p \in Callers : ~InLog(p)
      BY DEF Init, Idle, InLog
    <2>2. Base = facts
      BY <2>1, SafeInit, BaseAtRest
    <2>. QED
      BY <2>2 DEF Init, NoFact, Promise!Init, Base
  <1>2. RInv /\ [Next]_vars => [Promise!Next]_(Promise!vars)
    <2>1. Stutter => UNCHANGED Promise!vars
      BY DEF Stutter, Promise!vars, Base, Harmed
    <2>. QED
      BY <2>1, StepAbstract DEF AbstractStep
  <1>. QED
    BY <1>1, <1>2, RefinementInvariant, PTL DEF Spec, ActsAtomically, Promise!Spec

-----------------------------------------------------------------------------
(***************************************************************************)
(* Part two: Recall.                                                       *)
(***************************************************************************)

(* Sequences and their orders.                                             *)

\* A set of numbers with 0 that is closed under the successor is all of 0..N.
LEMMA Induction ==
    ASSUME NEW N \in Nat, NEW S, 0 \in S, \A n \in 1..N : n - 1 \in S => n \in S
    PROVE  \A n \in 0..N : n \in S
<1> DEFINE T == (0..N) \ S
<1> SUFFICES ASSUME T # {} PROVE FALSE
  OBVIOUS
<1>1. PICK n \in T : \A k \in T : ~(<<k, n>> \in OpToRel(<, Nat))
  <2>1. T \subseteq Nat
    OBVIOUS
  <2> QED BY <2>1, NatLessThanWellFounded, WFMin
<1>2. n \in 1..N /\ n - 1 \in Nat /\ n - 1 \in 0..N /\ n - 1 < n
  OBVIOUS
<1>3. <<n - 1, n>> \in OpToRel(<, Nat)
  BY <1>2 DEF OpToRel
<1>4. n - 1 \notin T
  BY <1>1, <1>3
<1> QED BY <1>2, <1>4

\* A set of numbers has a least one.
LEMMA Least ==
    ASSUME NEW S \in SUBSET Nat, S # {}
    PROVE  \E k \in S : \A j \in S : k <= j
<1>1. PICK k \in S : \A j \in S : ~(<<j, k>> \in OpToRel(<, Nat))
  BY NatLessThanWellFounded, WFMin
<1>2. ASSUME NEW j \in S PROVE k <= j
  <2> SUFFICES ASSUME ~(k <= j) PROVE FALSE
    OBVIOUS
  <2>1. j \in Nat /\ k \in Nat /\ j < k
    OBVIOUS
  <2>2. <<j, k>> \in OpToRel(<, Nat)
    BY <2>1 DEF OpToRel
  <2> QED BY <1>1, <2>2
<1> QED BY <1>2

LEMMA SeqFacts ==
    ASSUME NEW T, NEW s \in Seq(T)
    PROVE  Len(s) \in Nat /\ DOMAIN s = 1..Len(s) /\ \A i \in 1..Len(s) : s[i] \in T
OBVIOUS

LEMMA TextFacts ==
    ASSUME NEW a \in Text
    PROVE  /\ Len(a) \in Nat /\ DOMAIN a = 1..Len(a)
           /\ \A i \in 1..Len(a) : a[i] \in Nat
BY DEF Text

LEMMA SameText ==
    ASSUME NEW a \in Text, NEW b \in Text, Len(a) = Len(b), \A i \in 1..Len(a) : a[i] = b[i]
    PROVE  a = b
BY DEF Text

\* At i one of two texts has ended, or they differ.
Differ(a, b, i) ==
    \/ i <= Len(a) /\ ~(i <= Len(b))
    \/ i <= Len(b) /\ ~(i <= Len(a))
    \/ i <= Len(a) /\ i <= Len(b) /\ a[i] # b[i]

\* Of two different texts one orders before the other,
LEMMA TextsCompare ==
    ASSUME NEW a \in Text, NEW b \in Text, a # b
    PROVE  TextLess(a, b) \/ TextLess(b, a)
<1>1. PICK m \in Nat, n \in Nat : m = Len(a) /\ n = Len(b)
  BY TextFacts
<1> DEFINE D == {i \in Nat \ {0} : Differ(a, b, i)}
<1>2. \E i \in Nat \ {0} : Differ(a, b, i)
  <2> SUFFICES ASSUME \A i \in Nat \ {0} : ~Differ(a, b, i) PROVE FALSE
    OBVIOUS
  <2>1. CASE m < n
    <3>1. n \in Nat \ {0} /\ Differ(a, b, n)
      BY <1>1, <2>1 DEF Differ
    <3> QED BY <3>1
  <2>2. CASE n < m
    <3>1. m \in Nat \ {0} /\ Differ(a, b, m)
      BY <1>1, <2>2 DEF Differ
    <3> QED BY <3>1
  <2>3. CASE m = n
    <3>1. ASSUME NEW i \in 1..m PROVE a[i] = b[i]
      <4>1. i \in Nat \ {0} /\ i <= m /\ ~Differ(a, b, i)
        OBVIOUS
      <4> QED BY <1>1, <2>3, <4>1 DEF Differ
    <3> QED BY <1>1, <2>3, <3>1, SameText
  <2> QED BY <2>1, <2>2, <2>3
<1>3. PICK i \in D : \A j \in D : i <= j
  <2>1. D \in SUBSET Nat /\ D # {}
    BY <1>2
  <2> HIDE DEF D
  <2> QED BY <2>1, Least
<1>4. ASSUME NEW k \in 1..(i - 1)
      PROVE  k <= m /\ k <= n /\ a[k] = b[k]
  <2>1. i \in Nat /\ Differ(a, b, i)
    OBVIOUS
  <2>2. k \in Nat \ {0} /\ k < i /\ k \notin D
    BY <1>3, <2>1
  <2>3. ~Differ(a, b, k)
    BY <2>2
  <2>4. i <= m \/ i <= n
    BY <1>1, <2>1 DEF Differ
  <2>5. k <= m <=> k <= n
    BY <1>1, <2>2, <2>3 DEF Differ
  <2>6. k <= m
    BY <2>1, <2>2, <2>4, <2>5
  <2> QED BY <1>1, <2>3, <2>5, <2>6 DEF Differ
<1>5. i \in Nat \ {0} /\ (i <= m \/ i <= n) /\ Differ(a, b, i)
  BY <1>1 DEF Differ
<1> HIDE DEF D
<1>6. i <= m + 1 /\ i <= n + 1
  <2>1. CASE i = 1
    BY <2>1
  <2>2. CASE i - 1 \in 1..(i - 1)
    BY <1>4, <1>5, <2>2
  <2> QED BY <1>5, <2>1, <2>2
<1>7. CASE i <= m /\ i <= n
  <2>1. a[i] # b[i]
    BY <1>1, <1>5, <1>7 DEF Differ
  <2>2. i \in 1..m /\ i \in 1..n
    BY <1>5, <1>7
  <2>3. a[i] \in Nat /\ b[i] \in Nat
    BY <1>1, <2>2, TextFacts
  <2>4. a[i] < b[i] \/ b[i] < a[i]
    BY <2>1, <2>3
  <2>5. \A k \in 1..(i - 1) : a[k] = b[k] /\ b[k] = a[k]
    BY <1>4
  <2> QED BY <1>1, <1>6, <2>2, <2>4, <2>5 DEF TextLess
<1>8. CASE ~(i <= m)
  <2>1. i \in 1..n /\ \A k \in 1..(i - 1) : a[k] = b[k]
    BY <1>4, <1>5, <1>8
  <2> QED BY <1>1, <1>6, <1>8, <2>1 DEF TextLess
<1>9. CASE ~(i <= n)
  <2>1. i \in 1..m /\ \A k \in 1..(i - 1) : b[k] = a[k]
    BY <1>4, <1>5, <1>9
  <2> QED BY <1>1, <1>6, <1>9, <2>1 DEF TextLess
<1> QED BY <1>7, <1>8, <1>9

\* and no text orders before itself, nor before one that orders before it.
LEMMA TextsInOrder ==
    ASSUME NEW a \in Text, NEW b \in Text, NEW c \in Text, TextLess(a, b), TextLess(b, c)
    PROVE  TextLess(a, c)
<1>1. PICK i \in 1..Len(b) : /\ i <= Len(a) + 1 /\ \A k \in 1..(i - 1) : a[k] = b[k]
                             /\ i <= Len(a) => a[i] < b[i]
  BY DEF TextLess
<1>2. PICK j \in 1..Len(c) : /\ j <= Len(b) + 1 /\ \A k \in 1..(j - 1) : b[k] = c[k]
                             /\ j <= Len(b) => b[j] < c[j]
  BY DEF TextLess
<1>3. Len(a) \in Nat /\ Len(b) \in Nat /\ Len(c) \in Nat
  BY TextFacts
<1>4. CASE i < j
  <2>1. i \in 1..(j - 1) /\ i \in 1..Len(c) /\ b[i] = c[i] /\ \A k \in 1..(i - 1) : k \in 1..(j - 1)
    BY <1>2, <1>3, <1>4
  <2>2. \A k \in 1..(i - 1) : a[k] = c[k]
    BY <1>1, <1>2, <2>1
  <2> QED BY <1>1, <2>1, <2>2 DEF TextLess
<1>5. CASE i >= j
  <2>1. j \in 1..Len(b) /\ j <= Len(a) + 1 /\ \A k \in 1..(j - 1) : k \in 1..(i - 1)
    BY <1>1, <1>3, <1>5
  <2>2. \A k \in 1..(j - 1) : a[k] = c[k]
    BY <1>1, <1>2, <2>1
  <2>3. j <= Len(a) => a[j] < c[j]
    <3> SUFFICES ASSUME j <= Len(a) PROVE a[j] < c[j]
      OBVIOUS
    <3>1. a[j] \in Nat /\ b[j] \in Nat /\ c[j] \in Nat
      <4>1. j \in 1..Len(a)
        BY <1>3, <2>1
      <4> QED BY <2>1, <4>1, TextFacts
    <3>2. b[j] < c[j]
      BY <1>2, <1>3, <2>1
    <3>3. a[j] <= b[j]
      <4>1. CASE i = j
        BY <1>1, <3>1, <4>1
      <4>2. CASE j \in 1..(i - 1)
        BY <1>1, <3>1, <4>2
      <4> QED BY <1>5, <4>1, <4>2
    <3> QED BY <3>1, <3>2, <3>3
  <2> QED BY <2>1, <2>2, <2>3 DEF TextLess
<1> QED BY <1>4, <1>5

LEMMA TextNotLess == ASSUME NEW a \in Text PROVE ~TextLess(a, a)
<1> SUFFICES ASSUME TextLess(a, a) PROVE FALSE
  OBVIOUS
<1>1. PICK i \in 1..Len(a) : i <= Len(a) => a[i] < a[i]
  BY DEF TextLess
<1>2. a[i] \in Nat /\ Len(a) \in Nat
  BY DEF Text
<1> QED BY <1>1, <1>2

\* How many elements of S come before each in the order R.
Ahead(S, R) == [d \in S |-> Cardinality({e \in S : <<e, d>> \in R})]

StrictOrder(S, R) ==
    /\ \A a \in S : <<a, a>> \notin R
    /\ \A a, b \in S : a # b => <<a, b>> \in R \/ <<b, a>> \in R
    /\ \A a, b, c \in S : <<a, b>> \in R /\ <<b, c>> \in R => <<a, c>> \in R

\* A finite strict order numbers its elements by how many come before.
LEMMA Numbering ==
    ASSUME NEW S, IsFiniteSet(S), NEW R, StrictOrder(S, R)
    PROVE  /\ Cardinality(S) \in Nat
           /\ Ahead(S, R) \in [S -> 0..(Cardinality(S) - 1)]
           /\ \A a, b \in S : <<a, b>> \in R => Ahead(S, R)[a] < Ahead(S, R)[b]
           /\ \A n \in 1..Cardinality(S) : \E d \in S : Ahead(S, R)[d] = n - 1
<1> USE DEF StrictOrder
<1> DEFINE ahead == Ahead(S, R)
           B(d) == {e \in S : <<e, d>> \in R}
<1>1. Cardinality(S) \in Nat
  BY FS_CardinalityType
<1>2. ASSUME NEW d \in S
      PROVE  /\ IsFiniteSet(B(d)) /\ Cardinality(B(d)) \in Nat
             /\ Cardinality(B(d)) <= Cardinality(S) - 1
  <2>1. B(d) \in SUBSET S /\ d \notin B(d)
    OBVIOUS
  <2> HIDE DEF B
  <2>2. IsFiniteSet(B(d)) /\ Cardinality(B(d)) \in Nat
    BY <2>1, FS_Subset, FS_CardinalityType
  <2>3. Cardinality(B(d)) <= Cardinality(S) /\ Cardinality(B(d)) # Cardinality(S)
    BY <2>1, FS_Subset
  <2> QED BY <1>1, <2>2, <2>3
<1>3. ASSUME NEW a \in S, NEW b \in S, <<a, b>> \in R
      PROVE  Cardinality(B(a)) < Cardinality(B(b))
  <2>1. B(a) \in SUBSET B(b) /\ a \in B(b) /\ a \notin B(a)
    BY <1>3
  <2>2. /\ IsFiniteSet(B(b)) /\ Cardinality(B(b)) \in Nat
        /\ Cardinality(B(a)) \in Nat
    BY <1>2
  <2> HIDE DEF B
  <2>3. Cardinality(B(a)) <= Cardinality(B(b)) /\ Cardinality(B(a)) # Cardinality(B(b))
    BY <2>1, <2>2, FS_Subset
  <2> QED BY <2>2, <2>3
<1>4. \A d \in S : ahead[d] = Cardinality(B(d))
  BY DEF Ahead
<1>5. DOMAIN ahead = S /\ ahead = [d \in S |-> ahead[d]]
  BY DEF Ahead
<1> HIDE DEF B
<1>6. \A d \in S : ahead[d] \in 0..(Cardinality(S) - 1)
  BY <1>1, <1>2, <1>4
<1>7. ahead \in [S -> 0..(Cardinality(S) - 1)]
  BY <1>5, <1>6
<1>8. \A a, b \in S : <<a, b>> \in R => ahead[a] < ahead[b]
  BY <1>3, <1>4
<1>9. ahead \in Injection(S, 0..(Cardinality(S) - 1))
  <2>1. ASSUME NEW a \in S, NEW b \in S, ahead[a] = ahead[b], a # b PROVE FALSE
    <3>1. ahead[a] < ahead[b] \/ ahead[b] < ahead[a]
      BY <1>8, <2>1
    <3> QED BY <1>1, <1>6, <2>1, <3>1
  <2>2. DOMAIN ahead = S
    BY <1>5
  <2>3. IsInjective(ahead)
    BY <2>1, <2>2 DEF IsInjective
  <2> QED BY <1>7, <2>3 DEF Injection
<1>10. IsFiniteSet(0..(Cardinality(S) - 1)) /\ Cardinality(0..(Cardinality(S) - 1)) = Cardinality(S)
  <2>1. Cardinality(S) - 1 \in Int
    BY <1>1
  <2> QED BY <1>1, <2>1, FS_Interval
<1>11. ahead \in Surjection(S, 0..(Cardinality(S) - 1))
  BY <1>9, <1>10, FS_Injection
<1>12. ASSUME NEW n \in 1..Cardinality(S) PROVE \E d \in S : ahead[d] = n - 1
  BY <1>1, <1>11 DEF Surjection
<1> QED BY <1>1, <1>7, <1>8, <1>12

\* t begins the elements of S in the order R, and has n of them if there are so many.
Top(S, R, n, t) ==
    /\ t \in Seq(S)
    /\ Len(t) <= n /\ Len(t) <= Cardinality(S)
    /\ \A i, j \in DOMAIN t : i < j => <<t[i], t[j]>> \in R
    /\ \A x \in S : Ahead(S, R)[x] < n => \E i \in DOMAIN t : t[i] = x
    /\ \A x \in S : (\A i \in DOMAIN t : t[i] # x) =>
         Len(t) = n /\ \A i \in DOMAIN t : <<t[i], x>> \in R

LEMMA OrderedFits ==
    ASSUME NEW S, IsFiniteSet(S), NEW R, StrictOrder(S, R)
    PROVE  /\ Ordered(S, R) \in [1..Cardinality(S) -> S]
           /\ \A n \in 1..Cardinality(S) : Ahead(S, R)[Ordered(S, R)[n]] = n - 1
<1>1. Ordered(S, R) = [n \in 1..Cardinality(S) |-> CHOOSE x \in S : Ahead(S, R)[x] = n - 1]
  BY DEF Ordered, Ahead
<1>2. ASSUME NEW n \in 1..Cardinality(S)
      PROVE  /\ (CHOOSE x \in S : Ahead(S, R)[x] = n - 1) \in S
             /\ Ahead(S, R)[CHOOSE x \in S : Ahead(S, R)[x] = n - 1] = n - 1
  <2>1. \E x \in S : Ahead(S, R)[x] = n - 1
    BY Numbering
  <2> QED BY <2>1
<1>3. \A n \in 1..Cardinality(S) :
        Ordered(S, R)[n] \in S /\ Ahead(S, R)[Ordered(S, R)[n]] = n - 1
  BY <1>1, <1>2
<1> QED BY <1>1, <1>3

LEMMA FirstFits ==
    ASSUME NEW T, NEW s \in Seq(T), NEW n \in Nat
    PROVE  /\ First(s, n) \in Seq(T)
           /\ Len(First(s, n)) = (IF Len(s) < n THEN Len(s) ELSE n)
           /\ \A i \in 1..Len(First(s, n)) : i \in 1..Len(s) /\ First(s, n)[i] = s[i]
<1>1. PICK m \in Nat : m = (IF Len(s) < n THEN Len(s) ELSE n)
  OBVIOUS
<1>2. m <= Len(s)
  BY <1>1
<1>3. First(s, n) = SubSeq(s, 1, m)
  BY <1>1 DEF First
<1>4. SubSeq(s, 1, m) \in Seq(T) /\ Len(SubSeq(s, 1, m)) = m
      /\ \A i \in 1..m : i \in 1..Len(s) /\ SubSeq(s, 1, m)[i] = s[i]
  BY <1>2
<1> QED BY <1>1, <1>3, <1>4

LEMMA TopOf ==
    ASSUME NEW S, IsFiniteSet(S), NEW R, StrictOrder(S, R), NEW n \in Nat
    PROVE  Top(S, R, n, First(Ordered(S, R), n))
<1>1. PICK c \in Nat : c = Cardinality(S)
  BY FS_CardinalityType
<1>2. PICK s \in [1..c -> S] : s = Ordered(S, R) /\ \A i \in 1..c : Ahead(S, R)[s[i]] = i - 1
  BY <1>1, OrderedFits
<1>3. s \in Seq(S) /\ Len(s) = c
  OBVIOUS
<1>4. PICK t : t = First(s, n)
  OBVIOUS
<1>5. PICK m \in Nat : m = Len(t) /\ m = (IF c < n THEN c ELSE n)
  BY <1>3, <1>4, FirstFits
<1>6. t \in Seq(S) /\ \A i \in 1..m : i \in 1..c /\ t[i] = s[i]
  BY <1>3, <1>4, <1>5, FirstFits
<1>7. DOMAIN t = 1..m
  <2>1. DOMAIN t = 1..Len(t)
    BY <1>6
  <2> QED BY <1>5, <2>1
<1>8. \A x \in S : Ahead(S, R)[x] \in 0..(c - 1)
  BY <1>1, Numbering
<1>9. \A a, b \in S : <<a, b>> \in R => Ahead(S, R)[a] < Ahead(S, R)[b]
  BY Numbering
<1>10. \A a, b \in S : a # b => <<a, b>> \in R \/ <<b, a>> \in R
  BY DEF StrictOrder
<1>11. ASSUME NEW x \in S, NEW y \in S, Ahead(S, R)[x] < Ahead(S, R)[y] PROVE <<x, y>> \in R
  <2>1. x # y
    BY <1>8, <1>11
  <2>2. ~(<<y, x>> \in R)
    BY <1>8, <1>9, <1>11
  <2> QED BY <1>10, <2>1, <2>2
<1>12. ASSUME NEW x \in S, NEW y \in S, Ahead(S, R)[x] = Ahead(S, R)[y] PROVE x = y
  <2>1. ~(Ahead(S, R)[x] < Ahead(S, R)[y]) /\ ~(Ahead(S, R)[y] < Ahead(S, R)[x])
    BY <1>8, <1>12
  <2> QED BY <1>9, <1>10, <2>1
<1>13. \A i \in 1..m : t[i] \in S /\ Ahead(S, R)[t[i]] = i - 1
  BY <1>2, <1>6
<1>14. ASSUME NEW i \in 1..m, NEW j \in 1..m, i < j PROVE <<t[i], t[j]>> \in R
  <2>1. Ahead(S, R)[t[i]] < Ahead(S, R)[t[j]] /\ t[i] \in S /\ t[j] \in S
    BY <1>13, <1>14
  <2> QED BY <1>11, <2>1
<1>15. ASSUME NEW x \in S, Ahead(S, R)[x] < m PROVE \E i \in 1..m : t[i] = x
  <2>1. Ahead(S, R)[x] + 1 \in 1..m
    BY <1>8, <1>15
  <2>2. PICK i \in 1..m : i = Ahead(S, R)[x] + 1
    BY <2>1
  <2>3. Ahead(S, R)[t[i]] = Ahead(S, R)[x]
    BY <1>8, <1>13, <2>2
  <2> QED BY <1>12, <1>13, <2>3
<1>16. ASSUME NEW x \in S, Ahead(S, R)[x] < n PROVE \E i \in 1..m : t[i] = x
  <2>1. Ahead(S, R)[x] < m
    BY <1>5, <1>8, <1>16
  <2> QED BY <1>15, <2>1
<1>17. ASSUME NEW x \in S, \A i \in 1..m : t[i] # x
       PROVE  m = n /\ \A i \in 1..m : <<t[i], x>> \in R
  <2>1. ~(Ahead(S, R)[x] < m) /\ Ahead(S, R)[x] \in 0..(c - 1)
    BY <1>8, <1>15, <1>17
  <2>2. m = n
    BY <1>5, <2>1
  <2>3. ASSUME NEW i \in 1..m PROVE <<t[i], x>> \in R
    <3>1. Ahead(S, R)[t[i]] < Ahead(S, R)[x]
      BY <1>13, <2>1
    <3> QED BY <1>11, <1>13, <3>1
  <2> QED BY <2>2, <2>3
<1>18. m <= n /\ m <= c
  BY <1>5
<1>19. Top(S, R, n, t)
  BY <1>1, <1>5, <1>6, <1>7, <1>14, <1>16, <1>17, <1>18 DEF Top
<1> QED BY <1>2, <1>4, <1>19

\* next takes the position and what was reached before it; f is what it leads to.
IsLoop(N, T, next) == next \in [(1..N) \X T -> T]

Reaches(N, T, base, next, f) ==
    /\ f \in [0..N -> T]
    /\ f[0] = base
    /\ \A n \in 1..N : f[n] = next[<<n, f[n - 1]>>]

\* Every loop over 1..N runs.
LEMMA Recursion ==
    ASSUME NEW N \in Nat, NEW T, NEW base \in T, NEW next, IsLoop(N, T, next)
    PROVE  \E f : Reaches(N, T, base, next, f)
<1> USE DEF IsLoop
<1> DEFINE Built(n, f) == f[0] = base /\ \A k \in 1..n : f[k] = next[<<k, f[k - 1]>>]
           S == {n \in 0..N : \E f \in [0..N -> T] : Built(n, f)}
<1>1. 0 \in S
  <2> DEFINE g == [k \in 0..N |-> base]
  <2>1. g \in [0..N -> T] /\ g[0] = base
    OBVIOUS
  <2> HIDE DEF g
  <2>2. Built(0, g)
    BY <2>1
  <2> QED BY <2>1, <2>2
<1>2. ASSUME NEW n \in 1..N, n - 1 \in S PROVE n \in S
  <2>1. PICK f \in [0..N -> T] : Built(n - 1, f)
    BY <1>2
  <2> DEFINE g == [f EXCEPT ![n] = next[<<n, f[n - 1]>>]]
  <2>2. n - 1 \in 0..N /\ f[n - 1] \in T /\ n \in 0..N
    OBVIOUS
  <2>3. next[<<n, f[n - 1]>>] \in T
    BY <2>2
  <2>4. g \in [0..N -> T]
    BY <2>3
  <2>5. \A k \in 0..N : k # n => g[k] = f[k]
    OBVIOUS
  <2>6. g[n] = next[<<n, f[n - 1]>>]
    BY <2>2
  <2>7. g[0] = base
    BY <2>1, <2>5
  <2>8. ASSUME NEW k \in 1..n PROVE g[k] = next[<<k, g[k - 1]>>]
    <3>1. k - 1 \in 0..N /\ k - 1 # n /\ k \in 0..N
      OBVIOUS
    <3>2. g[k - 1] = f[k - 1]
      BY <2>5, <3>1
    <3>3. CASE k = n
      BY <2>6, <3>2, <3>3
    <3>4. CASE k # n
      <4>1. k \in 1..(n - 1) /\ g[k] = f[k]
        BY <3>1, <3>4, <2>5
      <4> QED BY <2>1, <3>2, <4>1
    <3> QED BY <3>3, <3>4
  <2> HIDE DEF g
  <2>9. Built(n, g)
    BY <2>7, <2>8
  <2> QED BY <2>4, <2>9
<1>3. N \in S
  <2>1. N \in 0..N
    OBVIOUS
  <2> HIDE DEF S
  <2> QED BY <1>1, <1>2, <2>1, Induction
<1> QED BY <1>3 DEF Reaches

-----------------------------------------------------------------------------
(* What is counted, and what is asked for.                                 *)

LEMMA HitsAreCounted ==
    ASSUME NEW q \in Text, NEW t \in Text
    PROVE  TermHits(q, t) \in Nat
<1> DEFINE H == { p \in TermsAt(q) \X (DOMAIN t) :
                    p[2] \in Matches(Lower(SubSeq(q, p[1][1], p[1][2])), Lower(t)) }
<1>1. IsFiniteSet(DOMAIN q) /\ IsFiniteSet(DOMAIN t)
  <2>1. /\ DOMAIN q = 1..Len(q) /\ DOMAIN t = 1..Len(t)
        /\ Len(q) \in Nat /\ Len(t) \in Nat
    BY TextFacts
  <2> QED BY <2>1, FS_Interval
<1>2. IsFiniteSet(TermsAt(q))
  <2>1. TermsAt(q) \in SUBSET ((DOMAIN q) \X (DOMAIN q))
    BY DEF TermsAt
  <2> QED BY <1>1, <2>1, FS_Product, FS_Subset
<1>3. IsFiniteSet(TermsAt(q) \X (DOMAIN t))
  BY <1>1, <1>2, FS_Product
<1>4. H \in SUBSET (TermsAt(q) \X (DOMAIN t))
  OBVIOUS
<1>5. TermHits(q, t) = Cardinality(H)
  BY DEF TermHits
<1> HIDE DEF H
<1> QED BY <1>3, <1>4, <1>5, FS_Subset, FS_CardinalityType

LEMMA FactFacts ==
    ASSUME NEW f \in Facts
    PROVE  /\ f.title \in Text /\ f.body \in Text /\ f.at \in Nat
           /\ f.topics \in Seq(Text) /\ Len(f.topics) <= MaxTopics
BY RecallAssumption DEF RecallAssumption

LEMMA RelevanceIsCounted ==
    ASSUME NEW q \in Text, NEW f \in Facts
    PROVE  Relevance(q, f) \in Nat /\ TitleRelevance(q, f) \in Nat
<1>1. TermHits(q, f.title) \in Nat /\ TermHits(q, f.body) \in Nat
  BY FactFacts, HitsAreCounted
<1> QED BY <1>1 DEF Relevance, TitleRelevance

LEMMA QueryIsText ==
    ASSUME NEW p \in Prompts
    PROVE  RetrievalQuery(p) \in Text
<1> DEFINE size == Len(p.history)
           owned == { n \in 1..size : p.history[n].owner }
           recent == { n \in owned : Cardinality({ m \in owned : m > n }) < 3 }
           query[k \in 0..size] ==
               IF k = 0 THEN p.text
               ELSE IF size + 1 - k \in recent
                    THEN query[k - 1] \o <<0>> \o p.history[size + 1 - k].text
                    ELSE query[k - 1]
<1>1. p.text \in Text /\ p.history \in Seq([owner : BOOLEAN, text : Text])
  BY RecallAssumption DEF RecallAssumption
<1>2. size \in Nat /\ \A n \in 1..size : p.history[n].text \in Text
  <2>1. PICK h \in Seq([owner : BOOLEAN, text : Text]) : h = p.history
    BY <1>1
  <2>2. Len(h) \in Nat /\ \A n \in 1..Len(h) : h[n] \in [owner : BOOLEAN, text : Text]
    BY SeqFacts
  <2>3. \A n \in 1..Len(h) : h[n].text \in Text
    BY <2>2
  <2> QED BY <2>1, <2>2, <2>3
<1>3. recent \subseteq 1..size
  OBVIOUS
<1>4. RetrievalQuery(p) = query[size]
  BY DEF RetrievalQuery
<1> PICK N \in Nat : N = size
  BY <1>2
<1>5. PICK R \in SUBSET (1..N), text \in [1..N -> Text] :
         N = size /\ R = recent /\ \A n \in 1..N : text[n] = p.history[n].text
  <2>1. [n \in 1..size |-> p.history[n].text] \in [1..size -> Text]
    BY <1>2
  <2> HIDE DEF recent
  <2> QED BY <1>2, <1>3, <2>1
<1> DEFINE more(k, t) == IF N + 1 - k \in R THEN t \o <<0>> \o text[N + 1 - k] ELSE t
           next == [x \in (1..N) \X Text |-> more(x[1], x[2])]
<1>6. IsLoop(N, Text, next)
  <2>1. ASSUME NEW x \in (1..N) \X Text PROVE more(x[1], x[2]) \in Text
    <3>1. N + 1 - x[1] \in 1..N /\ text[N + 1 - x[1]] \in Text /\ x[2] \in Text
      OBVIOUS
    <3>2. \A t \in Text, u \in Text : t \o <<0>> \o u \in Text
      BY DEF Text
    <3> QED BY <3>1, <3>2
  <2> HIDE DEF more
  <2> QED BY <2>1 DEF IsLoop
<1>7. PICK f : Reaches(N, Text, p.text, next, f)
  <2> HIDE DEF next
  <2> QED BY <1>1, <1>6, Recursion
<1>8. f \in [0..N -> Text] /\ f[0] = p.text
      /\ \A k \in 1..N : f[k] = more(k, f[k - 1])
  <2>1. f \in [0..N -> Text] /\ f[0] = p.text /\ \A k \in 1..N : f[k] = next[<<k, f[k - 1]>>]
    BY <1>7 DEF Reaches
  <2>2. ASSUME NEW k \in 1..N PROVE f[k] = more(k, f[k - 1])
    <3>1. f[k - 1] \in Text
      BY <2>1
    <3> HIDE DEF more
    <3> QED BY <2>1, <3>1
  <2> QED BY <2>1, <2>2
<1>9. f = [k \in 0..size |->
             IF k = 0 THEN p.text
             ELSE IF size + 1 - k \in recent
                  THEN f[k - 1] \o <<0>> \o p.history[size + 1 - k].text
                  ELSE f[k - 1]]
  <2>1. ASSUME NEW k \in 1..N
        PROVE  f[k] = IF size + 1 - k \in recent
                      THEN f[k - 1] \o <<0>> \o p.history[size + 1 - k].text
                      ELSE f[k - 1]
    <3>1. N + 1 - k \in 1..N
      OBVIOUS
    <3>2. text[N + 1 - k] = p.history[N + 1 - k].text
      BY <1>5, <3>1
    <3> HIDE DEF size, recent
    <3> QED BY <1>5, <1>8, <3>2
  <2>2. ASSUME NEW k \in 0..N
        PROVE  f[k] = IF k = 0 THEN p.text
                      ELSE IF size + 1 - k \in recent
                           THEN f[k - 1] \o <<0>> \o p.history[size + 1 - k].text
                           ELSE f[k - 1]
    <3>1. k = 0 \/ (k # 0 /\ k \in 1..N)
      OBVIOUS
    <3> HIDE DEF size, recent
    <3> QED BY <1>8, <2>1, <3>1, Zenon
  <2>3. f = [k \in 0..size |-> f[k]]
    <3> HIDE DEF size
    <3> QED BY <1>5, <1>8
  <2> HIDE DEF size, recent
  <2> QED BY <1>5, <2>2, <2>3, Zenon
<1>10. query = [k \in 0..size |->
             IF k = 0 THEN p.text
             ELSE IF size + 1 - k \in recent
                  THEN query[k - 1] \o <<0>> \o p.history[size + 1 - k].text
                  ELSE query[k - 1]]
  <2> HIDE DEF size, recent
  <2> QED BY <1>9
<1> HIDE DEF query
<1> DEFINE S == {k \in 0..N : query[k] \in Text}
<1>11. 0 \in S
  <2> HIDE DEF size, recent
  <2>1. query[0] = p.text
    BY <1>5, <1>10
  <2> QED BY <1>1, <2>1
<1>12. ASSUME NEW k \in 1..N, k - 1 \in S PROVE k \in S
  <2>1. k \in 0..N /\ k # 0 /\ N + 1 - k \in 1..N
    OBVIOUS
  <2>2. query[k] = IF N + 1 - k \in R
                   THEN query[k - 1] \o <<0>> \o text[N + 1 - k]
                   ELSE query[k - 1]
    <3>1. text[N + 1 - k] = p.history[N + 1 - k].text
      BY <1>5, <2>1
    <3> HIDE DEF size, recent
    <3> QED BY <1>5, <1>10, <2>1, <3>1
  <2>3. query[k - 1] \in Text /\ text[N + 1 - k] \in Text
    BY <1>12, <2>1
  <2>4. \A t \in Text, u \in Text : t \o <<0>> \o u \in Text
    BY DEF Text
  <2> QED BY <2>1, <2>2, <2>3, <2>4
<1>13. N \in S
  <2> HIDE DEF S
  <2>1. \A k \in 1..N : k - 1 \in S => k \in S
    BY <1>12
  <2>2. N \in 0..N
    OBVIOUS
  <2> QED BY <1>11, <2>1, <2>2, Induction
<1> QED BY <1>4, <1>5, <1>13

-----------------------------------------------------------------------------
(* The index of a set of facts, told by the facts alone.                   *)

IsFunction(F) == F = [i \in DOMAIN F |-> F[i]]

Toks(f) == Tokenize(f.title \o <<0>> \o f.body)

AllToks(F) == UNION { Toks(F[i]) : i \in DOMAIN F }

Holders(F, t) == { i \in DOMAIN F : t \in Toks(F[i]) }

IndexOf(F) ==
    [postings |-> [t \in AllToks(F) |-> Holders(F, t)],
     tokens |-> [i \in DOMAIN F |-> Toks(F[i])],
     meta |-> F]

With(F, id, f) == [i \in DOMAIN F \cup {id} |-> IF i = id THEN f ELSE F[i]]

LEMMA HeldOrNot ==
    ASSUME NEW F, NEW t
    PROVE  t \in AllToks(F) <=> Holders(F, t) # {}
BY DEF AllToks, Holders

LEMMA HoldersHold ==
    ASSUME NEW F, NEW t, NEW i
    PROVE  i \in Holders(F, t) <=> i \in DOMAIN F /\ t \in Toks(F[i])
BY DEF Holders

\* remove leaves the index of the other facts,
LEMMA RemoveOnIndex ==
    ASSUME NEW F, IsFunction(F), NEW id
    PROVE  IndexRemove(IndexOf(F), id) = IndexOf(Without(F, {id}))
<1> DEFINE ix == IndexOf(F)
           R == Without(F, {id})
           old == IF id \in DOMAIN ix.tokens THEN ix.tokens[id] ELSE {}
           left == [t \in DOMAIN ix.postings |->
                       IF t \in old THEN ix.postings[t] \ {id} ELSE ix.postings[t]]
           drop == { t \in DOMAIN left : left[t] = {} }
<1>1. /\ ix.postings = [t \in AllToks(F) |-> Holders(F, t)]
      /\ ix.tokens = [i \in DOMAIN F |-> Toks(F[i])]
      /\ ix.meta = F
  BY DEF IndexOf
<1>2. R = [i \in DOMAIN F \ {id} |-> F[i]]
  BY DEF Without
<1>3. DOMAIN R = DOMAIN F \ {id} /\ \A i \in DOMAIN R : R[i] = F[i]
  BY <1>2
<1>4. IndexRemove(ix, id) = [postings |-> Without(left, drop),
                             tokens |-> Without(ix.tokens, {id}),
                             meta |-> Without(ix.meta, {id})]
  BY DEF IndexRemove
<1>5. \A t : Holders(R, t) = Holders(F, t) \ {id}
  BY <1>3, HoldersHold
<1>6. \A t : t \in old <=> id \in Holders(F, t)
  <2>1. DOMAIN ix.tokens = DOMAIN F /\ \A i \in DOMAIN F : ix.tokens[i] = Toks(F[i])
    BY <1>1
  <2> HIDE DEF ix
  <2> QED BY <2>1, HoldersHold
<1>7. DOMAIN left = AllToks(F) /\ \A t \in AllToks(F) : left[t] = Holders(R, t)
  <2>1. DOMAIN ix.postings = AllToks(F) /\ \A t \in AllToks(F) : ix.postings[t] = Holders(F, t)
    BY <1>1
  <2> HIDE DEF ix, R, old
  <2> QED BY <2>1, <1>5, <1>6
<1> HIDE DEF left
<1>8. AllToks(F) \ drop = AllToks(R)
  <2>1. \A t : t \in AllToks(R) <=> Holders(R, t) # {}
    BY HeldOrNot
  <2>2. \A t : t \in AllToks(F) <=> Holders(F, t) # {}
    BY HeldOrNot
  <2> HIDE DEF R
  <2> QED BY <2>1, <2>2, <1>5, <1>7
<1>9. Without(left, drop) = [t \in AllToks(R) |-> Holders(R, t)]
  <2>1. Without(left, drop) = [t \in AllToks(R) |-> left[t]]
    BY <1>7, <1>8 DEF Without
  <2>2. \A t \in AllToks(R) : left[t] = Holders(R, t)
    BY <1>7, <1>8
  <2> HIDE DEF R
  <2> QED BY <2>1, <2>2
<1>10. Without(ix.tokens, {id}) = [i \in DOMAIN R |-> Toks(R[i])]
  <2>1. Without(ix.tokens, {id}) = [i \in DOMAIN F \ {id} |-> Toks(F[i])]
    BY <1>1 DEF Without
  <2> HIDE DEF R, ix
  <2> QED BY <2>1, <1>3
<1>11. Without(ix.meta, {id}) = R
  BY <1>1
<1>12. IndexOf(R) = [postings |-> [t \in AllToks(R) |-> Holders(R, t)],
                     tokens |-> [i \in DOMAIN R |-> Toks(R[i])],
                     meta |-> R]
  BY DEF IndexOf
<1> HIDE DEF ix, R, drop
<1>13. IndexRemove(ix, id) = IndexOf(R)
  BY <1>4, <1>9, <1>10, <1>11, <1>12, Zenon
<1> QED BY <1>13 DEF ix, R

\* and upsert the index of the facts with the new one among them.
LEMMA UpsertOnIndex ==
    ASSUME NEW F, IsFunction(F), NEW id, NEW f
    PROVE  IndexUpsert(IndexOf(F), id, f) = IndexOf(With(F, id, f))
<1> DEFINE R == Without(F, {id})
           G == With(F, id, f)
           rest == IndexRemove(IndexOf(F), id)
           toks == Tokenize(f.title \o <<0>> \o f.body)
           held(t) == IF t \in DOMAIN rest.postings THEN rest.postings[t] ELSE {}
           P == [t \in DOMAIN rest.postings \cup toks |->
                     IF t \in toks THEN held(t) \cup {id} ELSE held(t)]
           K == [i \in DOMAIN rest.tokens \cup {id} |->
                     IF i = id THEN toks ELSE rest.tokens[i]]
           M == [i \in DOMAIN rest.meta \cup {id} |->
                     IF i = id THEN f ELSE rest.meta[i]]
<1>1. IndexUpsert(IndexOf(F), id, f) = [postings |-> P, tokens |-> K, meta |-> M]
  BY DEF IndexUpsert
<1>2. rest = IndexOf(R)
  BY RemoveOnIndex
<1>3. /\ rest.postings = [t \in AllToks(R) |-> Holders(R, t)]
      /\ rest.tokens = [i \in DOMAIN R |-> Toks(R[i])]
      /\ rest.meta = R
  <2> HIDE DEF R, rest
  <2> QED BY <1>2 DEF IndexOf
<1>4. DOMAIN R = DOMAIN F \ {id} /\ \A i \in DOMAIN R : R[i] = F[i]
  BY DEF Without
<1>5. /\ DOMAIN G = DOMAIN R \cup {id} /\ G[id] = f
      /\ \A i \in DOMAIN R : G[i] = R[i] /\ i # id
  <2>1. DOMAIN G = DOMAIN F \cup {id}
        /\ \A i \in DOMAIN G : G[i] = IF i = id THEN f ELSE F[i]
    BY DEF With
  <2> HIDE DEF R, G
  <2> QED BY <1>4, <2>1
<1>6. toks = Toks(f)
  BY DEF Toks
<1>7. G = [i \in DOMAIN G |-> G[i]]
  BY DEF With
<1> HIDE DEF R, G, rest, toks
<1>8. DOMAIN rest.postings = AllToks(R) /\ \A t : held(t) = Holders(R, t)
  <2>1. DOMAIN rest.postings = AllToks(R) /\ \A t \in AllToks(R) : rest.postings[t] = Holders(R, t)
    BY <1>3
  <2>2. \A t : t \in AllToks(R) <=> Holders(R, t) # {}
    BY HeldOrNot
  <2> QED BY <2>1, <2>2
<1> HIDE DEF held
<1>9. \A t : Holders(G, t) = IF t \in toks THEN Holders(R, t) \cup {id} ELSE Holders(R, t)
  <2>1. ASSUME NEW t, t \in toks PROVE Holders(G, t) = Holders(R, t) \cup {id}
    BY <2>1, <1>5, <1>6, HoldersHold
  <2>2. ASSUME NEW t, t \notin toks PROVE Holders(G, t) = Holders(R, t)
    <3>1. ASSUME NEW i PROVE i \in Holders(G, t) <=> i \in Holders(R, t)
      BY <2>2, <1>5, <1>6, HoldersHold
    <3> QED BY <3>1
  <2> QED BY <2>1, <2>2
<1>10. AllToks(G) = AllToks(R) \cup toks
  <2>1. \A t : t \in AllToks(R) <=> Holders(R, t) # {}
    BY HeldOrNot
  <2>2. \A t : t \in AllToks(G) <=> Holders(G, t) # {}
    BY HeldOrNot
  <2>3. \A t : t \in AllToks(G) <=> t \in AllToks(R) \/ t \in toks
    BY <2>1, <2>2, <1>9
  <2> QED BY <2>3
<1>11. P = [t \in AllToks(G) |-> Holders(G, t)]
  BY <1>8, <1>9, <1>10
<1>12. K = [i \in DOMAIN G |-> Toks(G[i])]
  <2>1. DOMAIN rest.tokens = DOMAIN R /\ \A i \in DOMAIN R : rest.tokens[i] = Toks(R[i])
    BY <1>3
  <2> QED BY <2>1, <1>5, <1>6
<1>13. M = G
  BY <1>3, <1>5, <1>7
<1>14. IndexOf(G) = [postings |-> [t \in AllToks(G) |-> Holders(G, t)],
                     tokens |-> [i \in DOMAIN G |-> Toks(G[i])],
                     meta |-> G]
  BY DEF IndexOf
<1>15. IndexUpsert(IndexOf(F), id, f) = IndexOf(G)
  <2> HIDE DEF P, K, M
  <2> QED BY <1>1, <1>11, <1>12, <1>13, <1>14, Zenon
<1> QED BY <1>15 DEF G

\* The ids a list has up to n, and the facts that have them.
Listed(ids, n) == { ids[k] : k \in 1..n }

Part(F, ids, n) == [i \in Listed(ids, n) |-> F[i]]

\* A set has a list of its elements.
LEMMA ListsTheSet ==
    ASSUME NEW S, IsFiniteSet(S)
    PROVE  /\ Cardinality(S) \in Nat
           /\ SetToSeq(S) \in [1..Cardinality(S) -> S]
           /\ Listed(SetToSeq(S), Cardinality(S)) = S
<1>1. Cardinality(S) \in Nat /\ ExistsBijection(1..Cardinality(S), S)
  BY FS_CardinalityType
<1>2. PICK f \in Bijection(1..Cardinality(S), S) : TRUE
  BY <1>1 DEF ExistsBijection
<1>3. f \in [1..Cardinality(S) -> S] /\ IsInjective(f)
  BY <1>2 DEF Bijection, Injection, IsInjective
<1>4. SetToSeq(S) \in [1..Cardinality(S) -> S] /\ IsInjective(SetToSeq(S))
  BY <1>3 DEF SetToSeq
<1>5. PICK g \in [1..Cardinality(S) -> S] : g = SetToSeq(S) /\ IsInjective(g)
  BY <1>4
<1>6. g \in Injection(1..Cardinality(S), S)
  BY <1>5 DEF Injection, IsInjective
<1>7. IsFiniteSet(1..Cardinality(S)) /\ Cardinality(1..Cardinality(S)) = Cardinality(S)
  <2>1. Cardinality(S) \in Int
    BY <1>1
  <2> QED BY <1>1, <2>1, FS_Interval
<1>8. g \in Surjection(1..Cardinality(S), S)
  BY <1>6, <1>7, FS_Injection
<1>9. \A x \in S : \E k \in 1..Cardinality(S) : g[k] = x
  BY <1>8 DEF Surjection
<1>10. Listed(g, Cardinality(S)) = S
  BY <1>9 DEF Listed
<1> QED BY <1>1, <1>4, <1>5, <1>10

\* rebuild leaves the index of the facts.
LEMMA RebuiltIsIndex ==
    ASSUME NEW F, IsFunction(F), IsFiniteSet(DOMAIN F)
    PROVE  Rebuilt(F) = IndexOf(F)
<1> DEFINE ids == SetToSeq(DOMAIN F)
           after[n \in 0..Cardinality(DOMAIN F)] ==
               IF n = 0 THEN EmptyIndex ELSE IndexUpsert(after[n - 1], ids[n], F[ids[n]])
<1>1. PICK N \in Nat : N = Cardinality(DOMAIN F)
  BY FS_CardinalityType
<1>2. ids \in [1..N -> DOMAIN F] /\ Listed(ids, N) = DOMAIN F
  BY <1>1, ListsTheSet
<1>3. Rebuilt(F) = after[Cardinality(DOMAIN F)]
  BY DEF Rebuilt
<1> DEFINE g == [n \in 0..N |-> IndexOf(Part(F, ids, n))]
<1>4. g[0] = EmptyIndex
  <2>1. Listed(ids, 0) = {}
    BY DEF Listed
  <2>2. Part(F, ids, 0) = <<>>
    BY <2>1 DEF Part
  <2>3. AllToks(<<>>) = {}
    BY DEF AllToks
  <2>4. IndexOf(<<>>) = EmptyIndex
    <3>1. DOMAIN <<>> = {}
      OBVIOUS
    <3>2. [t \in AllToks(<<>>) |-> Holders(<<>>, t)] = <<>>
      BY <2>3
    <3>3. [i \in DOMAIN <<>> |-> Toks(<<>>[i])] = <<>>
      BY <3>1
    <3> QED BY <3>2, <3>3, Zenon DEF IndexOf, EmptyIndex
  <2> QED BY <1>1, <2>2, <2>4
<1>5. ASSUME NEW n \in 1..N PROVE g[n] = IndexUpsert(g[n - 1], ids[n], F[ids[n]])
  <2> DEFINE Q == Part(F, ids, n - 1)
  <2>1. n \in 0..N /\ n - 1 \in 0..N /\ n - 1 \in Nat
    OBVIOUS
  <2>2. IsFunction(Q)
    BY DEF Part, IsFunction
  <2>3. Listed(ids, n) = Listed(ids, n - 1) \cup {ids[n]}
    <3>1. \A k : k \in 1..n <=> k \in 1..(n - 1) \/ k = n
      OBVIOUS
    <3> HIDE DEF ids
    <3> QED BY <3>1 DEF Listed
  <2>4. Part(F, ids, n) = With(Q, ids[n], F[ids[n]])
    <3> HIDE DEF ids
    <3> QED BY <2>3 DEF Part, With
  <2>5. g[n] = IndexOf(Part(F, ids, n)) /\ g[n - 1] = IndexOf(Q)
    <3> HIDE DEF ids
    <3> QED BY <2>1
  <2> HIDE DEF Q, g, ids
  <2> QED BY <2>2, <2>4, <2>5, UpsertOnIndex
<1> HIDE DEF g
<1>6. g = [n \in 0..Cardinality(DOMAIN F) |->
             IF n = 0 THEN EmptyIndex ELSE IndexUpsert(g[n - 1], ids[n], F[ids[n]])]
  <2>1. ASSUME NEW n \in 0..N
        PROVE  g[n] = IF n = 0 THEN EmptyIndex ELSE IndexUpsert(g[n - 1], ids[n], F[ids[n]])
    <3>1. n = 0 \/ (n # 0 /\ n \in 1..N)
      OBVIOUS
    <3> HIDE DEF ids
    <3> QED BY <1>4, <1>5, <3>1, Zenon
  <2>2. g = [n \in 0..N |-> g[n]]
    <3> HIDE DEF ids
    <3> QED BY DEF g
  <2> HIDE DEF ids
  <2> QED BY <1>1, <2>1, <2>2, Zenon
<1>7. after = [n \in 0..Cardinality(DOMAIN F) |->
             IF n = 0 THEN EmptyIndex ELSE IndexUpsert(after[n - 1], ids[n], F[ids[n]])]
  <2> HIDE DEF ids
  <2> QED BY <1>6
<1> HIDE DEF after, ids
<1> DEFINE S == {n \in 0..N : after[n] = g[n]}
<1>8. 0 \in S
  <2>1. 0 \in 0..N
    OBVIOUS
  <2>2. after[0] = EmptyIndex
    BY <1>1, <1>7, <2>1
  <2> QED BY <1>4, <2>1, <2>2
<1>9. ASSUME NEW n \in 1..N, n - 1 \in S PROVE n \in S
  <2>1. n \in 0..N /\ n # 0
    OBVIOUS
  <2>2. after[n] = IndexUpsert(after[n - 1], ids[n], F[ids[n]])
    BY <1>1, <1>7, <2>1
  <2> QED BY <1>5, <1>9, <2>1, <2>2
<1>10. N \in S
  <2> HIDE DEF S
  <2>1. \A n \in 1..N : n - 1 \in S => n \in S
    BY <1>9
  <2>2. N \in 0..N
    OBVIOUS
  <2> QED BY <1>8, <2>1, <2>2, Induction
<1>11. Part(F, ids, N) = F
  BY <1>2 DEF Part, IsFunction
<1>12. g[N] = IndexOf(Part(F, ids, N))
  <2>1. N \in 0..N
    OBVIOUS
  <2> QED BY <2>1 DEF g
<1> QED BY <1>1, <1>3, <1>10, <1>11, <1>12

-----------------------------------------------------------------------------
(* The index is the one of the stored facts.                               *)

StoreFits ==
    /\ IsFunction(store) /\ IsFiniteSet(DOMAIN store)
    /\ DOMAIN store \subseteq used /\ used \subseteq Ids
    /\ \A i \in DOMAIN store : store[i] \in Facts
    /\ built \in BOOLEAN

IndexFits == Index = IF built THEN IndexOf(store) ELSE EmptyIndex

IndexInv == StoreFits /\ IndexFits

LEMMA IndexStarts == RecallInit => IndexInv
<1> SUFFICES ASSUME RecallInit PROVE IndexInv
  OBVIOUS
<1>1. DOMAIN store = {}
  BY DEF RecallInit
<1>2. StoreFits
  <2>1. IsFunction(store)
    BY DEF RecallInit, IsFunction
  <2>2. IsFiniteSet(DOMAIN store)
    BY <1>1, FS_EmptySet
  <2> QED BY <1>1, <2>1, <2>2 DEF StoreFits, RecallInit
<1>3. IndexFits
  BY DEF RecallInit, IndexFits, Index, EmptyIndex
<1> QED BY <1>2, <1>3 DEF IndexInv

LEMMA PutKeepsIndex ==
    ASSUME IndexInv, NEW id \in Ids, NEW f \in Facts, Put(id, f)
    PROVE  IndexInv'
<1> USE DEF IndexInv
<1>1. store' = With(store, id, f) /\ used' = used \cup {id} /\ built' = TRUE
  BY DEF Put, With
<1>2. /\ IsFunction(store) /\ IsFiniteSet(DOMAIN store)
      /\ DOMAIN store \subseteq used /\ used \subseteq Ids
      /\ \A i \in DOMAIN store : store[i] \in Facts
  BY DEF StoreFits
<1>3. /\ IsFunction(store') /\ DOMAIN store' = DOMAIN store \cup {id}
      /\ store'[id] = f /\ \A i \in DOMAIN store \ {id} : store'[i] = store[i]
  BY <1>1 DEF With, IsFunction
<1>4. StoreFits'
  <2>1. IsFiniteSet(DOMAIN store')
    BY <1>2, <1>3, FS_AddElement
  <2>2. \A i \in DOMAIN store' : store'[i] \in Facts
    BY <1>2, <1>3
  <2> QED BY <1>1, <1>2, <1>3, <2>1, <2>2 DEF StoreFits
<1>5. SetIndex(IndexUpsert(IndexOf(store), id, f))
  <2>1. CASE built
    <3>1. SetIndex(IndexUpsert(Index, id, f)) /\ Index = IndexOf(store)
      BY <2>1 DEF Put, IndexFits
    <3> QED BY <3>1
  <2>2. CASE ~built
    <3>1. SetIndex(IndexUpsert(Rebuilt(store), id, f)) /\ Rebuilt(store) = IndexOf(store)
      BY <1>2, <2>2, RebuiltIsIndex DEF Put
    <3> QED BY <3>1
  <2> QED BY <2>1, <2>2
<1>6. SetIndex(IndexOf(store'))
  BY <1>1, <1>2, <1>5, UpsertOnIndex
<1>7. Index' = IndexOf(store')
  BY <1>6 DEF SetIndex, Index, IndexOf
<1> QED BY <1>1, <1>4, <1>7 DEF IndexFits

LEMMA PurgeKeepsIndex ==
    ASSUME IndexInv, NEW source, Purge(source)
    PROVE  IndexInv'
<1> USE DEF IndexInv
<1> DEFINE gone == { i \in DOMAIN store : store[i].source = source }
<1>1. /\ store' = Without(store, gone) /\ used' = used /\ built' = TRUE
      /\ SetIndex(Rebuilt(Without(store, gone)))
  BY DEF Purge
<1> HIDE DEF gone
<1>2. /\ IsFunction(store) /\ IsFiniteSet(DOMAIN store)
      /\ DOMAIN store \subseteq used /\ used \subseteq Ids
      /\ \A i \in DOMAIN store : store[i] \in Facts
  BY DEF StoreFits
<1>3. /\ IsFunction(store') /\ DOMAIN store' = DOMAIN store \ gone
      /\ \A i \in DOMAIN store \ gone : store'[i] = store[i]
  BY <1>1 DEF Without, IsFunction
<1>4. IsFiniteSet(DOMAIN store')
  BY <1>2, <1>3, FS_Subset
<1>5. StoreFits'
  BY <1>1, <1>2, <1>3, <1>4 DEF StoreFits
<1>6. SetIndex(IndexOf(store'))
  BY <1>1, <1>3, <1>4, RebuiltIsIndex
<1>7. Index' = IndexOf(store')
  BY <1>6 DEF SetIndex, Index, IndexOf
<1> QED BY <1>1, <1>5, <1>7 DEF IndexFits

LEMMA IndexStep == IndexInv /\ [RecallNext]_recallVars => IndexInv'
<1> SUFFICES ASSUME IndexInv, [RecallNext]_recallVars PROVE IndexInv'
  OBVIOUS
<1> USE DEF IndexInv
<1>1. ASSUME NEW id \in Ids, NEW f \in Facts, Put(id, f) PROVE IndexInv'
  BY <1>1, PutKeepsIndex
<1>2. ASSUME NEW f \in Facts, Purge(f.source) PROVE IndexInv'
  BY <1>2, PurgeKeepsIndex
<1>3. CASE Restart
  <2>1. /\ store' = store /\ used' = used /\ built' = FALSE
        /\ SetIndex(EmptyIndex)
    BY <1>3 DEF Restart
  <2>2. StoreFits'
    BY <2>1 DEF StoreFits
  <2>3. Index' = EmptyIndex
    BY <2>1 DEF SetIndex, Index, EmptyIndex
  <2> QED BY <2>1, <2>2, <2>3 DEF IndexFits
<1>4. CASE Build
  <2>1. /\ store' = store /\ used' = used /\ built' = TRUE
        /\ SetIndex(Rebuilt(store))
    BY <1>4 DEF Build
  <2>2. StoreFits'
    BY <2>1 DEF StoreFits
  <2>3. SetIndex(IndexOf(store'))
    BY <2>1, RebuiltIsIndex DEF StoreFits
  <2>4. Index' = IndexOf(store')
    BY <2>3 DEF SetIndex, Index, IndexOf
  <2> QED BY <2>1, <2>2, <2>4 DEF IndexFits
<1>5. CASE UNCHANGED facts_and_index
  BY <1>5 DEF facts_and_index, StoreFits, IndexFits, Index
<1>6. CASE UNCHANGED recallVars
  BY <1>6 DEF recallVars, StoreFits, IndexFits, Index
<1>7. ASSUME NEW p \in Prompts, AskKeyword(p) \/ AskTopics(p) PROVE UNCHANGED facts_and_index
  BY <1>7 DEF AskKeyword, AskTopics
<1>8. ASSUME AskPopulation \/ AskFetch \/ AskSelect \/ AskHome \/ AskGraph
      PROVE  UNCHANGED facts_and_index
  BY <1>8 DEF AskPopulation, AskFetch, AskSelect, AskHome, AskGraph
<1> QED BY <1>1, <1>2, <1>3, <1>4, <1>5, <1>6, <1>7, <1>8 DEF RecallNext

LEMMA IndexAlways == RecallSpec => []IndexInv
<1>1. RecallSpec => []IndexInv
  BY IndexStarts, IndexStep, PTL DEF RecallSpec
<1> QED BY <1>1

\* Whatever was stored, edited and purged, and whenever the program started
\* anew: the index kept up in place is the one a rebuild would make.
THEOREM IndexAsRebuilt == RecallSpec => []IndexIsRebuild
<1>1. IndexInv => IndexIsRebuild
  <2> SUFFICES ASSUME IndexInv, built PROVE Index = Rebuilt(store)
    BY DEF IndexIsRebuild
  <2>1. Index = IndexOf(store)
    BY DEF IndexInv, IndexFits
  <2> QED BY <2>1, RebuiltIsIndex DEF IndexInv, StoreFits
<1> QED BY <1>1, IndexAlways, PTL

-----------------------------------------------------------------------------
(* What a lookup finds, told by the stored facts alone.                    *)

Blank(q) == \A i \in DOMAIN q : q[i] = 0

Found(F, q) ==
    { i \in DOMAIN F : \/ Blank(q)
                       \/ Tokenize(q) # {} /\ Tokenize(q) \subseteq Toks(F[i]) }

LEMMA IndexHolds ==
    ASSUME IndexInv, built
    PROVE  /\ meta = store
           /\ tokens = [i \in DOMAIN store |-> Toks(store[i])]
           /\ postings = [t \in AllToks(store) |-> Holders(store, t)]
<1>1. Index = IndexOf(store)
  BY DEF IndexInv, IndexFits
<1> QED BY <1>1 DEF Index, IndexOf

LEMMA SearchFinds ==
    ASSUME IndexInv, built, NEW q
    PROVE  Search(q) = Found(store, q)
<1> DEFINE toks == Tokenize(q)
<1>1. meta = store /\ DOMAIN postings = AllToks(store)
      /\ \A t \in AllToks(store) : postings[t] = Holders(store, t)
  BY IndexHolds
<1>2. Search(q) = IF Blank(q) THEN DOMAIN meta
        ELSE IF toks = {} \/ ~(toks \subseteq DOMAIN postings) THEN {}
        ELSE { id \in DOMAIN meta : \A t \in toks : id \in postings[t] }
  BY DEF Search, Blank
<1>3. Found(store, q) = { i \in DOMAIN store :
            Blank(q) \/ (toks # {} /\ toks \subseteq Toks(store[i])) }
  BY DEF Found
<1> HIDE DEF toks
<1>4. CASE Blank(q)
  BY <1>1, <1>2, <1>3, <1>4
<1>5. CASE ~Blank(q) /\ (toks = {} \/ ~(toks \subseteq AllToks(store)))
  <2>1. Search(q) = {}
    BY <1>1, <1>2, <1>5
  <2>2. ASSUME NEW i \in DOMAIN store, toks # {}, toks \subseteq Toks(store[i]) PROVE FALSE
    <3>1. PICK t \in toks : t \notin AllToks(store)
      BY <1>5, <2>2
    <3>2. t \in Toks(store[i])
      BY <2>2
    <3>3. i \in Holders(store, t)
      BY <3>2, HoldersHold
    <3> QED BY <3>1, <3>3, HeldOrNot
  <2> QED BY <1>3, <1>5, <2>1, <2>2
<1>6. CASE ~Blank(q) /\ toks # {} /\ toks \subseteq AllToks(store)
  <2>1. Search(q) = { id \in DOMAIN store : \A t \in toks : id \in Holders(store, t) }
    BY <1>1, <1>2, <1>6
  <2>2. ASSUME NEW i \in DOMAIN store
        PROVE  (\A t \in toks : i \in Holders(store, t)) <=> toks \subseteq Toks(store[i])
    BY HoldersHold
  <2> QED BY <1>3, <1>6, <2>1, <2>2
<1> QED BY <1>4, <1>5, <1>6

-----------------------------------------------------------------------------
(* The orders the candidates and the context are cut by.                   *)

\* Among ids, a greater first key, then a greater second one, then the smaller id.
LEMMA ByTwoKeys ==
    ASSUME NEW S \in SUBSET Nat, NEW k \in [S -> Nat], NEW l \in [S -> Nat], NEW R,
           \A a, b \in S : <<a, b>> \in R <=>
                \/ k[a] > k[b]
                \/ k[a] = k[b] /\ l[a] > l[b]
                \/ k[a] = k[b] /\ l[a] = l[b] /\ a < b
    PROVE  StrictOrder(S, R)
<1>1. \A a \in S : a \in Nat /\ k[a] \in Nat /\ l[a] \in Nat
  OBVIOUS
<1>2. \A a \in S : <<a, a>> \notin R
  BY <1>1
<1>3. \A a, b \in S : a # b => <<a, b>> \in R \/ <<b, a>> \in R
  BY <1>1
<1>4. \A a, b, c \in S : <<a, b>> \in R /\ <<b, c>> \in R => <<a, c>> \in R
  BY <1>1
<1> QED BY <1>2, <1>3, <1>4 DEF StrictOrder

\* Titles by id.
TitlesFit(titles) ==
    /\ DOMAIN titles \in SUBSET Ids /\ IsFiniteSet(DOMAIN titles)
    /\ \A i \in DOMAIN titles : titles[i] \in Text

\* Facts by id.
FactsFit(fs) ==
    /\ DOMAIN fs \in SUBSET Ids /\ IsFiniteSet(DOMAIN fs)
    /\ \A i \in DOMAIN fs : fs[i] \in Facts

\* Candidates by the relevance of their titles.
TitleOrder(q, titles) ==
    { p \in (DOMAIN titles) \X (DOMAIN titles) :
        \/ 3 * TermHits(q, titles[p[1]]) > 3 * TermHits(q, titles[p[2]])
        \/ /\ 3 * TermHits(q, titles[p[1]]) = 3 * TermHits(q, titles[p[2]])
           /\ p[1] < p[2] }

LEMMA RankedFits ==
    ASSUME NEW q \in Text, NEW titles, TitlesFit(titles)
    PROVE  /\ StrictOrder(DOMAIN titles, TitleOrder(q, titles))
           /\ Top(DOMAIN titles, TitleOrder(q, titles), FetchCap, Ranked(q, titles))
<1> DEFINE S == DOMAIN titles
           R == TitleOrder(q, titles)
<1>1. S \in SUBSET Nat /\ IsFiniteSet(S) /\ FetchCap \in Nat
  BY RecallAssumption DEF RecallAssumption, TitlesFit
<1>2. \A i \in S : TermHits(q, titles[i]) \in Nat
  BY HitsAreCounted DEF TitlesFit
<1>3. PICK k \in [S -> Nat] : \A i \in S : k[i] = 3 * TermHits(q, titles[i])
  <2> DEFINE g == [i \in S |-> 3 * TermHits(q, titles[i])]
  <2>1. g \in [S -> Nat] /\ \A i \in S : g[i] = 3 * TermHits(q, titles[i])
    BY <1>2
  <2> HIDE DEF g
  <2> QED BY <2>1
<1>4. PICK l \in [S -> Nat] : \A i \in S : l[i] = 0
  <2>1. [i \in S |-> 0] \in [S -> Nat]
    OBVIOUS
  <2> QED BY <2>1
<1>5. ASSUME NEW a \in S, NEW b \in S
      PROVE  <<a, b>> \in R <=> \/ k[a] > k[b]
                                \/ k[a] = k[b] /\ a < b
  BY <1>3 DEF TitleOrder
<1>6. Ranked(q, titles) = First(Ordered(S, R), FetchCap)
  BY DEF Ranked, TitleOrder
<1> HIDE DEF S, R
<1>7. StrictOrder(S, R)
  <2>1. \A a, b \in S : <<a, b>> \in R <=>
                \/ k[a] > k[b]
                \/ k[a] = k[b] /\ l[a] > l[b]
                \/ k[a] = k[b] /\ l[a] = l[b] /\ a < b
    <3>1. ASSUME NEW a \in S, NEW b \in S PROVE l[a] = l[b] /\ ~(l[a] > l[b])
      BY <1>4
    <3> QED BY <1>5, <3>1, Zenon
  <2> QED BY <1>1, <2>1, ByTwoKeys
<1>8. Top(S, R, FetchCap, Ranked(q, titles))
  BY <1>1, <1>6, <1>7, TopOf
<1> QED BY <1>7, <1>8 DEF S, R

BetterOrder(q, fs) ==
    { p \in (DOMAIN fs) \X (DOMAIN fs) : Better(q, fs, p[1], p[2]) }

LEMMA ContextFits ==
    ASSUME NEW q \in Text, NEW fs, FactsFit(fs)
    PROVE  /\ StrictOrder(DOMAIN fs, BetterOrder(q, fs))
           /\ Top(DOMAIN fs, BetterOrder(q, fs), MaxFacts, SelectContext(q, fs))
<1> DEFINE S == DOMAIN fs
           R == BetterOrder(q, fs)
<1>1. S \in SUBSET Nat /\ IsFiniteSet(S) /\ MaxFacts \in Nat
  BY RecallAssumption DEF RecallAssumption, FactsFit
<1>2. \A i \in S : Relevance(q, fs[i]) \in Nat /\ fs[i].at \in Nat
  BY RelevanceIsCounted, FactFacts DEF FactsFit
<1>3. PICK k \in [S -> Nat] : \A i \in S : k[i] = Relevance(q, fs[i])
  <2> DEFINE g == [i \in S |-> Relevance(q, fs[i])]
  <2>1. g \in [S -> Nat] /\ \A i \in S : g[i] = Relevance(q, fs[i])
    BY <1>2
  <2> HIDE DEF g
  <2> QED BY <2>1
<1>4. PICK l \in [S -> Nat] : \A i \in S : l[i] = fs[i].at
  <2> DEFINE g == [i \in S |-> fs[i].at]
  <2>1. g \in [S -> Nat] /\ \A i \in S : g[i] = fs[i].at
    BY <1>2
  <2> HIDE DEF g
  <2> QED BY <2>1
<1>5. ASSUME NEW a \in S, NEW b \in S
      PROVE  <<a, b>> \in R <=> \/ k[a] > k[b]
                                \/ k[a] = k[b] /\ l[a] > l[b]
                                \/ k[a] = k[b] /\ l[a] = l[b] /\ a < b
  <2>1. <<a, b>> \in R <=> Better(q, fs, a, b)
    BY DEF BetterOrder
  <2> HIDE DEF R
  <2> QED BY <1>3, <1>4, <2>1 DEF Better
<1>6. SelectContext(q, fs) = First(Ordered(S, R), MaxFacts)
  BY DEF SelectContext, BetterOrder
<1> HIDE DEF S, R
<1>7. StrictOrder(S, R)
  BY <1>1, <1>5, ByTwoKeys
<1>8. Top(S, R, MaxFacts, SelectContext(q, fs))
  BY <1>1, <1>6, <1>7, TopOf
<1> QED BY <1>7, <1>8 DEF S, R

-----------------------------------------------------------------------------
(* What a keyword question rests on.                                       *)

TitlesOf(F, S) == [i \in S |-> F[i].title]

Pool(F, q) == IF Cardinality(Found(F, q)) < MaxFacts THEN DOMAIN F ELSE Found(F, q)

\* The facts of the pool that a title alone puts before f.
Shadowing(F, q, f) ==
    { g \in Pool(F, q) :
        \/ TitleRelevance(q, F[g]) > TitleRelevance(q, F[f])
        \/ TitleRelevance(q, F[g]) = TitleRelevance(q, F[f]) /\ g < f }

\* AnswersUseBest, of the facts F and the entries ctx.
Grounded(F, q, ctx) ==
    /\ Cardinality(ToSet(ctx)) = Len(ctx)
    /\ ToSet(ctx) \subseteq Pool(F, q)
    /\ \A f \in Pool(F, q) \ ToSet(ctx) : Cardinality(Shadowing(F, q, f)) < FetchCap =>
          /\ Len(ctx) = MaxFacts
          /\ \A g \in ToSet(ctx) : Better(q, F, g, f)

LEMMA PoolIsStored ==
    ASSUME NEW F, FactsFit(F), NEW q
    PROVE  /\ Pool(F, q) \subseteq DOMAIN F
           /\ TitlesFit(TitlesOf(F, Pool(F, q)))
           /\ DOMAIN TitlesOf(F, Pool(F, q)) = Pool(F, q)
           /\ \A i \in Pool(F, q) : TitlesOf(F, Pool(F, q))[i] = F[i].title
<1>1. Found(F, q) \subseteq DOMAIN F
  BY DEF Found
<1>2. Pool(F, q) \subseteq DOMAIN F
  BY <1>1 DEF Pool
<1>3. PICK P : P = Pool(F, q)
  OBVIOUS
<1>4. IsFiniteSet(P) /\ P \in SUBSET Ids
  BY <1>2, <1>3, FS_Subset DEF FactsFit
<1>5. PICK t : t = TitlesOf(F, P)
  OBVIOUS
<1>6. DOMAIN t = P /\ \A i \in P : t[i] = F[i].title
  BY <1>5 DEF TitlesOf
<1>7. \A i \in P : F[i].title \in Text
  BY <1>2, <1>3, FactFacts DEF FactsFit
<1>8. TitlesFit(t)
  BY <1>4, <1>6, <1>7 DEF TitlesFit
<1> QED BY <1>2, <1>3, <1>5, <1>6, <1>8

\* A list in a strict order names nothing twice.
LEMMA ListedOnce ==
    ASSUME NEW S, NEW R, StrictOrder(S, R), NEW t \in Seq(S),
           \A i, j \in DOMAIN t : i < j => <<t[i], t[j]>> \in R
    PROVE  Cardinality(ToSet(t)) = Len(t) /\ IsFiniteSet(ToSet(t))
<1>1. PICK m \in Nat : m = Len(t) /\ DOMAIN t = 1..m /\ \A i \in 1..m : t[i] \in S
  BY SeqFacts
<1>2. ASSUME NEW i \in 1..m, NEW j \in 1..m, t[i] = t[j] PROVE i = j
  <2>1. ASSUME NEW a \in 1..m, NEW b \in 1..m, a < b, t[a] = t[b] PROVE FALSE
    <3>1. <<t[a], t[b]>> \in R /\ t[a] \in S
      BY <1>1, <2>1
    <3> QED BY <2>1, <3>1 DEF StrictOrder
  <2>2. ~(i < j) /\ ~(j < i)
    BY <1>2, <2>1
  <2> QED BY <2>2
<1>3. t \in Bijection(1..m, ToSet(t))
  <2>1. t = [i \in 1..m |-> t[i]]
    BY <1>1
  <2>2. ToSet(t) = {t[i] : i \in 1..m}
    BY <1>1 DEF ToSet
  <2>3. t \in [1..m -> ToSet(t)]
    BY <2>1, <2>2
  <2>4. \A y \in ToSet(t) : \E i \in 1..m : t[i] = y
    BY <2>2
  <2> QED BY <1>1, <1>2, <2>3, <2>4 DEF Bijection, Injection, Surjection, IsInjective
<1>4. IsFiniteSet(1..m) /\ Cardinality(1..m) = m
  BY FS_Interval
<1>5. ExistsBijection(1..m, ToSet(t))
  BY <1>3 DEF ExistsBijection
<1> QED BY <1>1, <1>4, <1>5, FS_Bijection

\* The best of the best candidates are the best of the pool.
LEMMA SelectionIsGrounded ==
    ASSUME NEW F, FactsFit(F), NEW q \in Text, NEW fs,
           DOMAIN fs = ToSet(Ranked(q, TitlesOf(F, Pool(F, q)))),
           \A i \in DOMAIN fs : fs[i] = F[i]
    PROVE  Grounded(F, q, SelectContext(q, fs))
<1>1. PICK P : P = Pool(F, q)
  OBVIOUS
<1>2. PICK t : t = TitlesOf(F, P)
  OBVIOUS
<1>3. /\ P \subseteq DOMAIN F /\ TitlesFit(t) /\ DOMAIN t = P
      /\ \A i \in P : t[i] = F[i].title
  BY <1>1, <1>2, PoolIsStored
<1>4. PICK r : r = Ranked(q, t)
  OBVIOUS
<1>5. PICK T : T = TitleOrder(q, t)
  OBVIOUS
<1>6. StrictOrder(P, T) /\ Top(P, T, FetchCap, r)
  BY <1>3, <1>4, <1>5, RankedFits
<1>7. r \in Seq(P) /\ (\A i, j \in DOMAIN r : i < j => <<r[i], r[j]>> \in T)
      /\ \A x \in P : Ahead(P, T)[x] < FetchCap => x \in ToSet(r)
  BY <1>6 DEF Top, ToSet
<1>8. DOMAIN fs = ToSet(r) /\ ToSet(r) \subseteq P
  <2>1. ToSet(r) \subseteq P
    BY <1>7, SeqFacts DEF ToSet
  <2> QED BY <1>1, <1>2, <1>4, <2>1
<1>9. FactsFit(fs)
  <2>1. IsFiniteSet(DOMAIN fs)
    BY <1>6, <1>7, <1>8, ListedOnce
  <2> QED BY <1>3, <1>8, <2>1 DEF FactsFit
<1>10. PICK ctx : ctx = SelectContext(q, fs)
  OBVIOUS
<1>11. PICK B : B = BetterOrder(q, fs)
  OBVIOUS
<1>12. StrictOrder(DOMAIN fs, B) /\ Top(DOMAIN fs, B, MaxFacts, ctx)
  BY <1>9, <1>10, <1>11, ContextFits
<1>13. ctx \in Seq(DOMAIN fs) /\ (\A i, j \in DOMAIN ctx : i < j => <<ctx[i], ctx[j]>> \in B)
       /\ \A x \in DOMAIN fs : x \notin ToSet(ctx) =>
            Len(ctx) = MaxFacts /\ \A y \in ToSet(ctx) : <<y, x>> \in B
  BY <1>12 DEF Top, ToSet
<1>14. Cardinality(ToSet(ctx)) = Len(ctx)
  BY <1>12, <1>13, ListedOnce
<1>15. ToSet(ctx) \subseteq DOMAIN fs
  BY <1>13, SeqFacts DEF ToSet
<1>16. ASSUME NEW f \in P \ ToSet(ctx), Cardinality(Shadowing(F, q, f)) < FetchCap
       PROVE  /\ Len(ctx) = MaxFacts
              /\ \A g \in ToSet(ctx) : Better(q, F, g, f)
  <2>1. Ahead(P, T)[f] = Cardinality({g \in P : <<g, f>> \in T})
    BY DEF Ahead
  <2>2. ASSUME NEW g \in P
        PROVE  <<g, f>> \in T <=>
                 \/ TitleRelevance(q, F[g]) > TitleRelevance(q, F[f])
                 \/ TitleRelevance(q, F[g]) = TitleRelevance(q, F[f]) /\ g < f
    BY <1>3, <1>5 DEF TitleOrder, TitleRelevance
  <2>3. {g \in P : <<g, f>> \in T} = Shadowing(F, q, f)
    BY <1>1, <2>2 DEF Shadowing
  <2>4. f \in DOMAIN fs
    BY <1>7, <1>8, <1>16, <2>1, <2>3
  <2>5. Len(ctx) = MaxFacts /\ \A g \in ToSet(ctx) : <<g, f>> \in B
    BY <1>13, <2>4
  <2>6. ASSUME NEW g \in ToSet(ctx) PROVE Better(q, F, g, f)
    <3>1. g \in DOMAIN fs /\ <<g, f>> \in B
      BY <1>15, <2>5
    <3>2. Better(q, fs, g, f)
      BY <1>11, <3>1 DEF BetterOrder
    <3>3. fs[g] = F[g] /\ fs[f] = F[f]
      BY <2>4, <3>1
    <3> QED BY <3>2, <3>3 DEF Better
  <2> QED BY <2>5, <2>6
<1>17. Grounded(F, q, ctx)
  BY <1>1, <1>8, <1>14, <1>15, <1>16 DEF Grounded
<1> QED BY <1>10, <1>17

-----------------------------------------------------------------------------
(* The graph: one hub for each topic that two facts share.                 *)

\* Fact f is about the topic key.
About(f, key) == \E n \in DOMAIN f.topics : TopicKey(f.topics[n]) = key

\* The topics fact i of F shares with another one.
SharedTopics(F, i) ==
    { k \in { TopicKey(F[i].topics[n]) : n \in DOMAIN F[i].topics } \ {<<>>} :
        \E j \in DOMAIN F \ {i} : \E n \in DOMAIN F[j].topics :
            TopicKey(F[j].topics[n]) = k }

LEMMA SharedTopic ==
    ASSUME NEW F, NEW i, NEW k
    PROVE  k \in SharedTopics(F, i) <=>
             /\ About(F[i], k) /\ k # <<>>
             /\ \E j \in DOMAIN F \ {i} : About(F[j], k)
BY DEF SharedTopics, About

LEMMA TopicsFit ==
    ASSUME NEW f \in Facts, NEW n \in DOMAIN f.topics
    PROVE  n \in 1..MaxTopics /\ f.topics[n] \in Text
<1>1. PICK t \in Seq(Text) : t = f.topics /\ Len(t) <= MaxTopics
  BY FactFacts
<1>2. Len(t) \in Nat /\ DOMAIN t = 1..Len(t) /\ \A i \in 1..Len(t) : t[i] \in Text
  BY SeqFacts
<1>3. n \in 1..Len(t)
  BY <1>1, <1>2
<1>4. n \in 1..MaxTopics
  BY <1>1, <1>2, <1>3, RecallAssumption DEF RecallAssumption
<1> QED BY <1>1, <1>2, <1>3, <1>4

\* The elements a function takes on a finite set are finitely many.
LEMMA FiniteImage ==
    ASSUME NEW S, IsFiniteSet(S), NEW f, DOMAIN f = S, f = [x \in S |-> f[x]],
           NEW T, T = {f[x] : x \in S}
    PROVE  IsFiniteSet(T)
<1>1. f \in [S -> T] /\ \A y \in T : \E x \in S : f[x] = y
  OBVIOUS
<1>2. f \in Surjection(S, T)
  BY <1>1 DEF Surjection
<1> QED BY <1>2, FS_Surjection

LEMMA SharedTopicsAreFew ==
    ASSUME NEW F, FactsFit(F), NEW i \in DOMAIN F
    PROVE  IsFiniteSet(SharedTopics(F, i)) /\ Cardinality(SharedTopics(F, i)) \in Nat
<1>1. PICK t \in Seq(Text) : t = F[i].topics /\ Len(t) <= MaxTopics
  BY FactFacts DEF FactsFit
<1>2. Len(t) \in Nat /\ DOMAIN t = 1..Len(t)
  BY SeqFacts
<1>3. IsFiniteSet(DOMAIN t)
  BY <1>2, FS_Interval
<1>4. PICK g : g = [n \in DOMAIN t |-> TopicKey(t[n])]
  OBVIOUS
<1>5. PICK T : T = {g[n] : n \in DOMAIN t}
  OBVIOUS
<1>6. IsFiniteSet(T)
  <2>1. DOMAIN g = DOMAIN t /\ g = [n \in DOMAIN t |-> g[n]]
    BY <1>4
  <2> QED BY <1>3, <1>5, <2>1, FiniteImage
<1>7. SharedTopics(F, i) \subseteq T
  <2>1. \A n \in DOMAIN t : g[n] = TopicKey(t[n])
    BY <1>4
  <2>2. ASSUME NEW k \in SharedTopics(F, i) PROVE k \in T
    <3>1. About(F[i], k)
      BY SharedTopic
    <3>2. PICK n \in DOMAIN t : TopicKey(t[n]) = k
      BY <1>1, <3>1 DEF About
    <3> QED BY <1>5, <2>1, <3>2
  <2> QED BY <2>2
<1> QED BY <1>6, <1>7, FS_Subset, FS_CardinalityType

LEMMA MembersAreAbout ==
    ASSUME FactsFit(meta), NEW key
    PROVE  Members(DOMAIN meta, key) = { i \in DOMAIN meta : About(meta[i], key) }
<1>1. ASSUME NEW i \in Members(DOMAIN meta, key)
      PROVE  i \in DOMAIN meta /\ About(meta[i], key)
  <2>1. PICK p \in Surfaces(DOMAIN meta, key) : p[1] = i
    BY DEF Members
  <2>2. /\ p \in (DOMAIN meta) \X (1..MaxTopics) /\ p[2] \in DOMAIN meta[p[1]].topics
        /\ TopicKey(meta[p[1]].topics[p[2]]) = key
    BY <2>1 DEF Surfaces
  <2> QED BY <2>1, <2>2 DEF About
<1>2. ASSUME NEW i \in DOMAIN meta, About(meta[i], key)
      PROVE  i \in Members(DOMAIN meta, key)
  <2>1. PICK n \in DOMAIN meta[i].topics : TopicKey(meta[i].topics[n]) = key
    BY <1>2 DEF About
  <2>2. n \in 1..MaxTopics
    BY <2>1, TopicsFit DEF FactsFit
  <2>3. <<i, n>> \in Surfaces(DOMAIN meta, key)
    BY <2>1, <2>2 DEF Surfaces
  <2>4. <<i, n>>[1] = i
    OBVIOUS
  <2> QED BY <2>3, <2>4 DEF Members
<1> QED BY <1>1, <1>2

\* A topic some fact is about has a spelling of its own.
LEMMA SpellingIsSeen ==
    ASSUME FactsFit(meta), NEW key, NEW i \in DOMAIN meta, About(meta[i], key)
    PROVE  TopicKey(Spelling(DOMAIN meta, key)) = key
<1> DEFINE U == Surfaces(DOMAIN meta, key)
           at(p) == meta[p[1]].topics[p[2]]
           count(s) == Cardinality({ p \in U : at(p) = s })
           seen == { at(p) : p \in U }
           best(s) == \A u \in seen \ {s} :
                          \/ count(s) > count(u)
                          \/ count(s) = count(u) /\ TextLess(s, u)
<1>1. Spelling(DOMAIN meta, key) = CHOOSE s \in seen : best(s)
  BY DEF Spelling
<1>2. U \in SUBSET ((DOMAIN meta) \X (1..MaxTopics))
      /\ \A p \in U : at(p) \in Text /\ TopicKey(at(p)) = key
  <2>1. U \in SUBSET ((DOMAIN meta) \X (1..MaxTopics))
    BY DEF Surfaces
  <2>2. ASSUME NEW p \in U PROVE at(p) \in Text /\ TopicKey(at(p)) = key
    <3>1. p[1] \in DOMAIN meta /\ p[2] \in DOMAIN meta[p[1]].topics /\ TopicKey(at(p)) = key
      BY DEF Surfaces
    <3>2. meta[p[1]] \in Facts
      BY <3>1 DEF FactsFit
    <3> QED BY <3>1, <3>2, TopicsFit
  <2> QED BY <2>1, <2>2
<1>3. U # {}
  <2>1. i \in Members(DOMAIN meta, key)
    BY MembersAreAbout
  <2> QED BY <2>1 DEF Members
<1>4. IsFiniteSet(U)
  <2>1. IsFiniteSet(DOMAIN meta)
    BY DEF FactsFit
  <2>2. IsFiniteSet(1..MaxTopics)
    <3>1. PICK n \in Nat : n = MaxTopics
      BY RecallAssumption DEF RecallAssumption
    <3>2. IsFiniteSet(1..n)
      BY FS_Interval
    <3> QED BY <3>1, <3>2
  <2>3. IsFiniteSet((DOMAIN meta) \X (1..MaxTopics))
    BY <2>1, <2>2, FS_Product
  <2> QED BY <1>2, <2>3, FS_Subset
<1> HIDE DEF U
<1>5. seen \subseteq Text /\ \A s \in seen : TopicKey(s) = key
  BY <1>2
<1>6. seen # {}
  BY <1>3
<1>7. IsFiniteSet(seen)
  <2>1. PICK g : g = [p \in U |-> at(p)]
    OBVIOUS
  <2>2. DOMAIN g = U /\ g = [p \in U |-> g[p]] /\ \A p \in U : g[p] = at(p)
    BY <2>1
  <2>3. seen = {g[p] : p \in U}
    BY <2>2
  <2> HIDE DEF seen
  <2> QED BY <1>4, <2>2, <2>3, FiniteImage
<1>8. \A s : count(s) \in Nat
  <2>1. ASSUME NEW s PROVE count(s) \in Nat
    <3>1. PICK V : V = { p \in U : at(p) = s }
      OBVIOUS
    <3>2. V \in SUBSET U
      BY <3>1
    <3>3. Cardinality(V) \in Nat
      BY <1>4, <3>2, FS_Subset, FS_CardinalityType
    <3> QED BY <3>1, <3>3
  <2> HIDE DEF count
  <2> QED BY <2>1
<1> HIDE DEF count, seen
<1> DEFINE R == { p \in seen \X seen :
                    \/ count(p[1]) > count(p[2])
                    \/ count(p[1]) = count(p[2]) /\ TextLess(p[1], p[2]) }
<1>9. \A s, u \in seen : <<s, u>> \in R <=>
         count(s) > count(u) \/ (count(s) = count(u) /\ TextLess(s, u))
  OBVIOUS
<1> HIDE DEF R
<1>10. StrictOrder(seen, R)
  <2>1. \A s \in seen : <<s, s>> \notin R
    BY <1>5, <1>8, <1>9, TextNotLess
  <2>2. ASSUME NEW s \in seen, NEW u \in seen, s # u PROVE <<s, u>> \in R \/ <<u, s>> \in R
    <3>1. TextLess(s, u) \/ TextLess(u, s)
      BY <1>5, <2>2, TextsCompare
    <3>2. count(s) > count(u) \/ count(u) > count(s) \/ count(s) = count(u)
      BY <1>8
    <3> QED BY <1>9, <3>1, <3>2
  <2>3. ASSUME NEW s \in seen, NEW u \in seen, NEW v \in seen, <<s, u>> \in R, <<u, v>> \in R
        PROVE  <<s, v>> \in R
    <3>1. TextLess(s, u) /\ TextLess(u, v) => TextLess(s, v)
      BY <1>5, TextsInOrder
    <3>2. count(s) \in Nat /\ count(u) \in Nat /\ count(v) \in Nat
      BY <1>8
    <3> QED BY <1>9, <2>3, <3>1, <3>2
  <2> QED BY <2>1, <2>2, <2>3 DEF StrictOrder
<1>11. \E s \in seen : best(s)
  <2>1. PICK c \in Nat : c = Cardinality(seen)
    BY <1>7, FS_CardinalityType
  <2>2. c # 0
    BY <1>6, <1>7, <2>1, FS_EmptySet
  <2>3. 1 \in 1..c
    BY <2>2
  <2>4. PICK s \in seen : Ahead(seen, R)[s] = 1 - 1
    BY <1>7, <1>10, <2>1, <2>3, Numbering
  <2>5. Ahead(seen, R)[s] = 0
    BY <2>4
  <2>6. ASSUME NEW u \in seen \ {s} PROVE <<s, u>> \in R
    <3>1. <<u, s>> \in R => Ahead(seen, R)[u] < Ahead(seen, R)[s]
      BY <1>7, <1>10, Numbering
    <3>2. Ahead(seen, R)[u] \in 0..(c - 1)
      BY <1>7, <1>10, <2>1, Numbering
    <3>3. <<u, s>> \notin R
      BY <2>5, <3>1, <3>2
    <3> QED BY <1>10, <3>3 DEF StrictOrder
  <2>7. best(s)
    BY <1>9, <2>6
  <2> QED BY <2>7
<1>12. (CHOOSE s \in seen : best(s)) \in seen
  <2> HIDE DEF best
  <2> QED BY <1>11
<1> QED BY <1>1, <1>5, <1>12

\* A set has two elements once it holds two different ones, and then only.
LEMMA TwoOrMore ==
    ASSUME NEW S, IsFiniteSet(S), NEW i \in S
    PROVE  Cardinality(S) >= 2 <=> \E j \in S : j # i
<1>1. IsFiniteSet(S \ {i}) /\ Cardinality(S \ {i}) = Cardinality(S) - 1
  BY FS_RemoveElement
<1>2. Cardinality(S \ {i}) = 0 <=> S \ {i} = {}
  BY <1>1, FS_EmptySet
<1>3. Cardinality(S) \in Nat /\ Cardinality(S \ {i}) \in Nat
  BY <1>1, FS_CardinalityType
<1>4. Cardinality(S) >= 2 <=> S \ {i} # {}
  BY <1>1, <1>2, <1>3
<1> QED BY <1>4

\* An id has as many edges as its fact shares topics.
LEMMA DegreeIsShared ==
    ASSUME FactsFit(meta), NEW i \in DOMAIN meta
    PROVE  Degree(Graph(DOMAIN meta), i) = Cardinality(SharedTopics(meta, i))
<1> DEFINE D == DOMAIN meta
           hub(k) == [label |-> Spelling(D, k), members |-> Members(D, k)]
           K == { k \in Keys(D) : Cardinality(Members(D, k)) >= 2 }
           H == { h \in Graph(D) : i \in h.members }
<1>1. PICK T : T = SharedTopics(meta, i)
  OBVIOUS
<1>2. \A k : Members(D, k) = { j \in D : About(meta[j], k) }
  BY MembersAreAbout
<1>3. \A k : \A j : j \in Members(D, k) <=> j \in D /\ About(meta[j], k)
  BY <1>2
<1>4. \A k : IsFiniteSet(Members(D, k))
  <2>1. ASSUME NEW k PROVE IsFiniteSet(Members(D, k))
    <3>1. Members(D, k) \in SUBSET D /\ IsFiniteSet(D)
      BY <1>3 DEF FactsFit
    <3> QED BY <3>1, FS_Subset
  <2> QED BY <2>1
<1>5. \A k : k \in T <=> k \in K /\ i \in Members(D, k)
  <2>1. ASSUME NEW k \in T PROVE k \in K /\ i \in Members(D, k)
    <3>1. /\ About(meta[i], k) /\ k # <<>>
          /\ \E j \in D \ {i} : About(meta[j], k)
      BY <1>1, SharedTopic
    <3>2. i \in Members(D, k) /\ \E j \in Members(D, k) : j # i
      BY <1>3, <3>1
    <3>3. Cardinality(Members(D, k)) >= 2
      BY <1>4, <3>2, TwoOrMore
    <3>4. k \in Keys(D)
      <4>1. PICK n \in DOMAIN meta[i].topics : TopicKey(meta[i].topics[n]) = k
        BY <3>1 DEF About
      <4>2. n \in 1..MaxTopics
        BY <4>1, TopicsFit DEF FactsFit
      <4>3. PICK p : p = <<i, n>>
        OBVIOUS
      <4>4. /\ p \in D \X (1..MaxTopics) /\ p[2] \in DOMAIN meta[p[1]].topics
            /\ TopicKey(meta[p[1]].topics[p[2]]) = k
        BY <4>1, <4>2, <4>3
      <4> QED BY <3>1, <4>4 DEF Keys
    <3> QED BY <3>2, <3>3, <3>4
  <2>2. ASSUME NEW k \in K, i \in Members(D, k) PROVE k \in T
    <3>1. k # <<>>
      BY DEF Keys
    <3>2. \E j \in Members(D, k) : j # i
      BY <1>4, <2>2, TwoOrMore
    <3>3. About(meta[i], k) /\ \E j \in D \ {i} : About(meta[j], k)
      BY <1>3, <2>2, <3>2
    <3> QED BY <1>1, <3>1, <3>3, SharedTopic
  <2> QED BY <2>1, <2>2
<1>6. Graph(D) = { hub(k) : k \in K }
  BY DEF Graph
<1>7. \A k \in K : hub(k).label = Spelling(D, k) /\ hub(k).members = Members(D, k)
  OBVIOUS
<1>8. \A k \in T : TopicKey(Spelling(D, k)) = k
  BY <1>3, <1>5, SpellingIsSeen
<1> HIDE DEF K, hub
<1>9. H = { hub(k) : k \in T }
  BY <1>5, <1>6, <1>7
<1>10. PICK f : f = [k \in T |-> hub(k)]
  OBVIOUS
<1>11. DOMAIN f = T /\ f = [k \in T |-> f[k]] /\ \A k \in T : f[k] = hub(k)
  BY <1>10
<1>12. \A k \in T : f[k].label = Spelling(D, k)
  BY <1>5, <1>7, <1>11
<1> HIDE DEF H, D
<1>13. f \in Bijection(T, H)
  <2>1. f \in [T -> H]
    BY <1>9, <1>11
  <2>2. \A y \in H : \E k \in T : f[k] = y
    BY <1>9, <1>11
  <2>3. ASSUME NEW k \in T, NEW l \in T, f[k] = f[l] PROVE k = l
    <3>1. Spelling(D, k) = Spelling(D, l)
      BY <1>12, <2>3
    <3> QED BY <1>8, <3>1
  <2> QED BY <1>11, <2>1, <2>2, <2>3 DEF Bijection, Injection, Surjection, IsInjective
<1>14. IsFiniteSet(T)
  BY <1>1, SharedTopicsAreFew
<1>15. ExistsBijection(T, H)
  BY <1>13 DEF ExistsBijection
<1>16. Cardinality(H) = Cardinality(T)
  BY <1>14, <1>15, FS_Bijection
<1>17. Degree(Graph(D), i) = Cardinality(H)
  BY DEF Degree, H
<1> QED BY <1>1, <1>16, <1>17 DEF D

\* HighlightsAreShared, of the facts F and the cards ctx.
Home(F, ctx) ==
    \A f \in DOMAIN F \ ToSet(ctx) :
        /\ Len(ctx) = Highlights
        /\ \A g \in ToSet(ctx) :
             Cardinality(SharedTopics(F, g)) >= Cardinality(SharedTopics(F, f))

HomeOrder(fs, graph) ==
    { p \in (DOMAIN fs) \X (DOMAIN fs) : HighlightBefore(fs, graph, p[1], p[2]) }

LEMMA HighlightsFit ==
    ASSUME FactsFit(meta)
    PROVE  Home(meta, RankHighlights(meta, Graph(DOMAIN meta)))
<1> DEFINE S == DOMAIN meta
           G == Graph(S)
           R == HomeOrder(meta, G)
           ctx == RankHighlights(meta, G)
<1>1. S \in SUBSET Nat /\ IsFiniteSet(S) /\ Highlights \in Nat
  BY RecallAssumption DEF RecallAssumption, FactsFit
<1>2. PICK d \in [S -> Nat] : \A i \in S : d[i] = Degree(G, i)
                                          /\ d[i] = Cardinality(SharedTopics(meta, i))
  <2> DEFINE g == [i \in S |-> Cardinality(SharedTopics(meta, i))]
  <2>1. \A i \in S : Cardinality(SharedTopics(meta, i)) \in Nat
    BY SharedTopicsAreFew
  <2>2. g \in [S -> Nat] /\ \A i \in S : g[i] = Cardinality(SharedTopics(meta, i))
    BY <2>1
  <2>3. \A i \in S : Degree(G, i) = Cardinality(SharedTopics(meta, i))
    BY DegreeIsShared
  <2> HIDE DEF g, G
  <2> QED BY <2>2, <2>3
<1>3. PICK t \in [S -> Text] : \A i \in S : t[i] = meta[i].title
  <2> DEFINE g == [i \in S |-> meta[i].title]
  <2>1. \A i \in S : meta[i].title \in Text
    BY FactFacts DEF FactsFit
  <2>2. g \in [S -> Text] /\ \A i \in S : g[i] = meta[i].title
    BY <2>1
  <2> HIDE DEF g
  <2> QED BY <2>2
<1>4. ASSUME NEW a \in S, NEW b \in S
      PROVE  <<a, b>> \in R <=>
               \/ d[a] > d[b]
               \/ d[a] = d[b] /\ (TextLess(t[a], t[b]) \/ (t[a] = t[b] /\ a < b))
  <2>1. <<a, b>> \in R <=> HighlightBefore(meta, G, a, b)
    BY DEF HomeOrder
  <2> HIDE DEF G, R
  <2> QED BY <1>2, <1>3, <2>1 DEF HighlightBefore
<1>5. ctx = First(Ordered(S, R), Highlights)
  BY DEF RankHighlights, HomeOrder
<1> HIDE DEF S, G, R
<1>6. StrictOrder(S, R)
  <2>1. ASSUME NEW a \in S PROVE a \in Nat /\ d[a] \in Nat /\ t[a] \in Text /\ ~TextLess(t[a], t[a])
    BY <1>1, TextNotLess
  <2>2. ASSUME NEW a \in S PROVE <<a, a>> \notin R
    BY <1>4, <2>1
  <2>3. ASSUME NEW a \in S, NEW b \in S, a # b PROVE <<a, b>> \in R \/ <<b, a>> \in R
    <3>1. t[a] = t[b] \/ TextLess(t[a], t[b]) \/ TextLess(t[b], t[a])
      BY <2>1, TextsCompare
    <3>2. a \in Nat /\ b \in Nat /\ d[a] \in Nat /\ d[b] \in Nat
      BY <2>1
    <3> QED BY <1>4, <2>3, <3>1, <3>2
  <2>4. ASSUME NEW a \in S, NEW b \in S, NEW c \in S, <<a, b>> \in R, <<b, c>> \in R
        PROVE  <<a, c>> \in R
    <3>1. TextLess(t[a], t[b]) /\ TextLess(t[b], t[c]) => TextLess(t[a], t[c])
      BY <2>1, TextsInOrder
    <3>2. /\ a \in Nat /\ b \in Nat /\ c \in Nat
          /\ d[a] \in Nat /\ d[b] \in Nat /\ d[c] \in Nat
      BY <2>1
    <3> QED BY <1>4, <2>4, <3>1, <3>2
  <2> QED BY <2>2, <2>3, <2>4 DEF StrictOrder
<1>7. Top(S, R, Highlights, ctx)
  <2> HIDE DEF ctx
  <2> QED BY <1>1, <1>5, <1>6, TopOf
<1> HIDE DEF ctx
<1>8. ctx \in Seq(S) /\ \A x \in S : x \notin ToSet(ctx) =>
         Len(ctx) = Highlights /\ \A y \in ToSet(ctx) : <<y, x>> \in R
  BY <1>7 DEF Top, ToSet
<1>9. ToSet(ctx) \subseteq S
  BY <1>8, SeqFacts DEF ToSet
<1>10. ASSUME NEW f \in S \ ToSet(ctx), NEW g \in ToSet(ctx)
       PROVE  Cardinality(SharedTopics(meta, g)) >= Cardinality(SharedTopics(meta, f))
  <2>1. <<g, f>> \in R /\ g \in S
    BY <1>8, <1>9
  <2>2. d[g] \in Nat /\ d[f] \in Nat /\ d[g] >= d[f]
    BY <1>4, <2>1
  <2> QED BY <1>2, <2>1, <2>2
<1>11. Home(meta, ctx)
  BY <1>8, <1>10 DEF Home, S
<1> QED BY <1>11 DEF ctx, G, S

-----------------------------------------------------------------------------
(* The inductive invariant of a question a, over the stored facts F and the *)
(* ids U that were given out.  What an answer is worth is kept only while   *)
(* nothing changes; how much it may hold, always: an id that is gone never  *)
(* comes back, so what is still to be fetched and found was counted.        *)

IsAsk(a) ==
    a = [pc |-> a.pc, kind |-> a.kind, prompt |-> a.prompt, hits |-> a.hits,
         queue |-> a.queue, facts |-> a.facts, total |-> a.total, quiet |-> a.quiet,
         ctx |-> a.ctx]

Bounded(a) ==
    /\ a.pc \in {"idle", "population", "fetch", "graph", "done"}
    /\ Len(a.queue) <= FetchCap
    /\ a.kind # "home" => Len(a.ctx) <= MaxFacts

QueryOf(a) == RetrievalQuery(a.prompt)

\* The facts fetched and those still to be found are among the counted ones.
Counted(total, fs, queue, F) ==
    \E P : /\ IsFiniteSet(P) /\ Cardinality(P) = total
           /\ DOMAIN fs \subseteq P
           /\ \A i \in ToSet(queue) : i \in DOMAIN F => i \in P

Targeted(a, F, U) ==
    a.pc = "population" =>
        /\ a.kind = "keyword" /\ a.prompt \in Prompts
        /\ TitlesFit(a.hits) /\ DOMAIN a.hits \subseteq U /\ a.facts = <<>>
        /\ a.quiet => a.hits = TitlesOf(F, Found(F, QueryOf(a)))

Fetching(a, F, U) ==
    a.pc = "fetch" =>
        /\ a.kind = "keyword" /\ a.prompt \in Prompts
        /\ a.queue \in Seq(U)
        /\ FactsFit(a.facts)
        /\ Counted(a.total, a.facts, a.queue, F)
        /\ a.quiet =>
             /\ ToSet(Ranked(QueryOf(a), TitlesOf(F, Pool(F, QueryOf(a)))))
                  = DOMAIN a.facts \cup ToSet(a.queue)
             /\ \A i \in DOMAIN a.facts : a.facts[i] = F[i]

Answered(a, F) ==
    a.pc = "done" /\ a.kind = "keyword" =>
        /\ Len(a.ctx) <= a.total
        /\ a.quiet => Grounded(F, QueryOf(a), a.ctx)

Projected(a, F) == a.pc = "graph" => a.kind = "home" /\ (a.quiet => a.facts = F)

Shown(a, F) == a.pc = "done" /\ a.kind = "home" /\ a.quiet => Home(F, a.ctx)

AskFits(a, F, U) ==
    /\ IsAsk(a) /\ Bounded(a)
    /\ Targeted(a, F, U) /\ Fetching(a, F, U) /\ Answered(a, F)
    /\ Projected(a, F) /\ Shown(a, F)

AskInv == AskFits(ask, store, used)

LEMMA UnaskedFits ==
    ASSUME NEW F, NEW U
    PROVE  AskFits(Unasked, F, U)
<1>1. IsAsk(Unasked)
  BY DEF IsAsk, Unasked
<1>2. /\ Unasked.pc = "idle" /\ Unasked.queue = <<>> /\ Unasked.ctx = <<>>
  BY DEF Unasked
<1>3. Len(<<>>) = 0 /\ FetchCap \in Nat /\ MaxFacts \in Nat
  BY RecallAssumption DEF RecallAssumption
<1>4. Bounded(Unasked)
  BY <1>2, <1>3 DEF Bounded
<1> QED BY <1>1, <1>2, <1>4 DEF AskFits, Targeted, Fetching, Answered, Projected, Shown

\* Facts come and go: the question is no longer quiet, its counts still hold.
LEMMA UnquietFits ==
    ASSUME NEW a, NEW F, NEW U, AskFits(a, F, U), NEW G, NEW V, U \subseteq V,
           \A i \in U : i \in DOMAIN G => i \in DOMAIN F
    PROVE  AskFits([a EXCEPT !.quiet = FALSE], G, V)
<1> PICK b : b = [a EXCEPT !.quiet = FALSE]
  OBVIOUS
<1>1. IsAsk(a) /\ Bounded(a)
  BY DEF AskFits
<1>2. /\ b = [pc |-> a.pc, kind |-> a.kind, prompt |-> a.prompt, hits |-> a.hits,
              queue |-> a.queue, facts |-> a.facts, total |-> a.total, quiet |-> FALSE,
              ctx |-> a.ctx]
  BY <1>1 DEF IsAsk
<1>3. /\ b.pc = a.pc /\ b.kind = a.kind /\ b.prompt = a.prompt /\ b.hits = a.hits
      /\ b.queue = a.queue /\ b.facts = a.facts /\ b.total = a.total /\ ~b.quiet
      /\ b.ctx = a.ctx
  BY <1>2
<1>4. IsAsk(b)
  BY <1>2 DEF IsAsk
<1>5. Bounded(b)
  BY <1>1, <1>3 DEF Bounded
<1>6. Targeted(b, G, V)
  BY <1>3 DEF AskFits, Targeted
<1>7. Fetching(b, G, V)
  <2> SUFFICES ASSUME a.pc = "fetch"
               PROVE  /\ b.kind = "keyword" /\ b.prompt \in Prompts
                      /\ b.queue \in Seq(V) /\ FactsFit(b.facts)
                      /\ Counted(b.total, b.facts, b.queue, G)
    BY <1>3 DEF Fetching
  <2>1. /\ a.kind = "keyword" /\ a.prompt \in Prompts
        /\ a.queue \in Seq(U) /\ FactsFit(a.facts)
        /\ Counted(a.total, a.facts, a.queue, F)
    BY DEF AskFits, Fetching
  <2>2. a.queue \in Seq(V)
    <3>1. PICK q \in Seq(U) : q = a.queue
      BY <2>1
    <3>2. q \in Seq(V)
      OBVIOUS
    <3> QED BY <3>1, <3>2
  <2>3. ToSet(a.queue) \subseteq U
    BY <2>1, SeqFacts DEF ToSet
  <2>4. Counted(a.total, a.facts, a.queue, G)
    BY <2>1, <2>3 DEF Counted
  <2> QED BY <1>3, <2>1, <2>2, <2>4
<1>8. Answered(b, G) /\ Projected(b, G) /\ Shown(b, G)
  BY <1>3 DEF AskFits, Answered, Projected, Shown
<1> QED BY <1>4, <1>5, <1>6, <1>7, <1>8 DEF AskFits

LEMMA PutKeepsAsk ==
    ASSUME IndexInv, AskInv, NEW id \in Ids, NEW f \in Facts, Put(id, f)
    PROVE  AskInv'
<1>1. /\ store' = With(store, id, f) /\ used' = used \cup {id}
      /\ id \in DOMAIN store \/ id \notin used
      /\ ask' = [ask EXCEPT !.quiet = FALSE]
  BY DEF Put, With
<1>2. DOMAIN store' = DOMAIN store \cup {id}
  BY <1>1 DEF With
<1>3. \A i \in used : i \in DOMAIN store' => i \in DOMAIN store
  BY <1>1, <1>2
<1>4. AskFits([ask EXCEPT !.quiet = FALSE], store', used')
  BY <1>1, <1>3, UnquietFits DEF AskInv
<1> QED BY <1>1, <1>4 DEF AskInv

LEMMA PurgeKeepsAsk ==
    ASSUME AskInv, NEW source, Purge(source)
    PROVE  AskInv'
<1>1. PICK gone : /\ store' = Without(store, gone) /\ used' = used
                  /\ ask' = [ask EXCEPT !.quiet = FALSE]
  BY DEF Purge
<1>2. DOMAIN store' = DOMAIN store \ gone
  BY <1>1 DEF Without
<1>3. AskFits([ask EXCEPT !.quiet = FALSE], store', used')
  BY <1>1, <1>2, UnquietFits DEF AskInv
<1> QED BY <1>1, <1>3 DEF AskInv

\* The facts the index knows are the stored ones.
LEMMA StoredFacts ==
    ASSUME IndexInv
    PROVE  /\ FactsFit(store) /\ DOMAIN store \subseteq used
           /\ built => meta = store
           /\ built => \A q : Search(q) = Found(store, q)
           /\ Found(store, <<>>) = DOMAIN store
<1>1. FactsFit(store) /\ DOMAIN store \subseteq used
  BY DEF IndexInv, StoreFits, FactsFit
<1>2. Blank(<<>>)
  BY DEF Blank
<1>3. Found(store, <<>>) = DOMAIN store
  BY <1>2 DEF Found
<1> QED BY <1>1, <1>3, IndexHolds, SearchFinds

LEMMA KeywordKeepsAsk ==
    ASSUME IndexInv, AskInv, NEW p \in Prompts, AskKeyword(p)
    PROVE  AskInv'
<1>1. /\ built /\ store' = store /\ used' = used
      /\ ask' = [Unasked EXCEPT !.pc = "population", !.kind = "keyword", !.prompt = p,
                             !.hits = Titles(Search(RetrievalQuery(p)))]
  BY DEF AskKeyword, facts_and_index
<1>2. PICK h : h = Titles(Search(RetrievalQuery(p)))
  OBVIOUS
<1>3. PICK a : a = ask'
  OBVIOUS
<1>4. a = [pc |-> "population", kind |-> "keyword", prompt |-> p, hits |-> h,
           queue |-> <<>>, facts |-> <<>>, total |-> 0, quiet |-> TRUE, ctx |-> <<>>]
  BY <1>1, <1>2, <1>3 DEF Unasked
<1>5. IsAsk(a)
  BY <1>4 DEF IsAsk
<1>6. Len(<<>>) = 0 /\ FetchCap \in Nat /\ MaxFacts \in Nat
  BY RecallAssumption DEF RecallAssumption
<1>7. Bounded(a)
  BY <1>4, <1>6 DEF Bounded
<1>8. PICK q : q = RetrievalQuery(p)
  OBVIOUS
<1>9. h = [i \in Found(store, q) |-> store[i].title]
  BY <1>1, <1>2, <1>8, StoredFacts DEF Titles
<1>10. Found(store, q) \subseteq DOMAIN store
  BY DEF Found
<1>11. DOMAIN h = Found(store, q) /\ \A i \in DOMAIN h : h[i] = store[i].title
  BY <1>9
<1>12. TitlesFit(h) /\ DOMAIN h \subseteq used
  <2>1. FactsFit(store) /\ DOMAIN store \subseteq used
    BY StoredFacts
  <2>2. IsFiniteSet(DOMAIN h)
    BY <1>10, <1>11, <2>1, FS_Subset DEF FactsFit
  <2>3. \A i \in DOMAIN h : h[i] \in Text
    BY <1>10, <1>11, <2>1, FactFacts DEF FactsFit
  <2> QED BY <1>10, <1>11, <2>1, <2>2, <2>3 DEF TitlesFit, FactsFit
<1>13. QueryOf(a) = q
  BY <1>4, <1>8 DEF QueryOf
<1>14. Targeted(a, store, used)
  <2>1. a.pc = "population" /\ a.kind = "keyword" /\ a.prompt = p /\ a.hits = h
    BY <1>4
  <2>2. a.facts = <<>>
    BY <1>4
  <2>3. h = TitlesOf(store, Found(store, q))
    BY <1>9 DEF TitlesOf
  <2> QED BY <2>1, <2>2, <2>3, <1>12, <1>13 DEF Targeted
<1>15. /\ Fetching(a, store, used) /\ Answered(a, store)
       /\ Projected(a, store) /\ Shown(a, store)
  BY <1>4 DEF Fetching, Answered, Projected, Shown
<1>16. AskFits(a, store, used)
  BY <1>5, <1>7, <1>14, <1>15 DEF AskFits
<1> QED BY <1>1, <1>3, <1>16 DEF AskInv

LEMMA PopulationKeepsAsk ==
    ASSUME IndexInv, AskInv, AskPopulation
    PROVE  AskInv'
<1> DEFINE all == Titles(Search(<<>>))
           hits == ask.hits
           wide == Cardinality(DOMAIN hits) < MaxFacts
           titles == IF ~wide THEN hits
                     ELSE [i \in DOMAIN hits \cup DOMAIN all |->
                              IF i \in DOMAIN hits THEN hits[i] ELSE all[i]]
           q == QueryOf(ask)
           r == Ranked(q, titles)
<1>1. /\ built /\ store' = store /\ used' = used /\ ask.pc = "population"
      /\ ask' = [ask EXCEPT !.pc = "fetch", !.hits = <<>>,
                            !.total = Cardinality(DOMAIN all), !.queue = r]
  BY DEF AskPopulation, facts_and_index, QueryOf
<1>2. IsAsk(ask) /\ Bounded(ask) /\ Targeted(ask, store, used)
  BY DEF AskInv, AskFits
<1>3. /\ ask.kind = "keyword" /\ ask.prompt \in Prompts
      /\ TitlesFit(hits) /\ DOMAIN hits \subseteq used /\ ask.facts = <<>>
      /\ ask.quiet => hits = TitlesOf(store, Found(store, q))
  BY <1>1, <1>2 DEF Targeted
<1>4. FactsFit(store) /\ DOMAIN store \subseteq used
  BY StoredFacts
<1>5. DOMAIN all = DOMAIN store /\ \A i \in DOMAIN store : all[i] = store[i].title
  BY <1>1, StoredFacts DEF Titles
<1> HIDE DEF all, hits
<1>6. TitlesFit(titles) /\ DOMAIN titles \subseteq used
  <2>1. CASE ~wide
    BY <1>3, <2>1
  <2>2. CASE wide
    <3> DEFINE both == [i \in DOMAIN hits \cup DOMAIN all |->
                           IF i \in DOMAIN hits THEN hits[i] ELSE all[i]]
    <3>1. titles = both
      BY <2>2
    <3>2. DOMAIN both = DOMAIN hits \cup DOMAIN store
      BY <1>5
    <3>3. IsFiniteSet(DOMAIN both)
      BY <1>3, <1>4, <3>2, FS_Union DEF TitlesFit, FactsFit
    <3>4. \A i \in DOMAIN store : store[i].title \in Text
      BY <1>4, FactFacts DEF FactsFit
    <3>5. \A i \in DOMAIN both : both[i] \in Text
      BY <1>3, <1>5, <3>4 DEF TitlesFit
    <3>6. DOMAIN both \in SUBSET Ids /\ DOMAIN both \subseteq used
      BY <1>3, <1>4, <3>2 DEF TitlesFit, FactsFit
    <3> HIDE DEF both
    <3>7. TitlesFit(both) /\ DOMAIN both \subseteq used
      BY <3>3, <3>5, <3>6 DEF TitlesFit
    <3> HIDE DEF titles
    <3> QED BY <3>1, <3>7
  <2> QED BY <2>1, <2>2
<1>7. ask.quiet => titles = TitlesOf(store, Pool(store, q))
  <2> SUFFICES ASSUME ask.quiet PROVE titles = TitlesOf(store, Pool(store, q))
    OBVIOUS
  <2>1. DOMAIN hits = Found(store, q) /\ \A i \in DOMAIN hits : hits[i] = store[i].title
    BY <1>3 DEF TitlesOf
  <2>2. Found(store, q) \subseteq DOMAIN store
    BY DEF Found
  <2>3. CASE ~wide
    <3>1. titles = hits /\ Pool(store, q) = Found(store, q)
      BY <2>1, <2>3 DEF Pool
    <3> HIDE DEF titles
    <3> QED BY <1>3, <3>1
  <2>4. CASE wide
    <3>1. Pool(store, q) = DOMAIN store
      BY <2>1, <2>4 DEF Pool
    <3>2. DOMAIN hits \cup DOMAIN all = DOMAIN store
      BY <1>5, <2>1, <2>2
    <3>3. titles = [i \in DOMAIN store |-> IF i \in DOMAIN hits THEN hits[i] ELSE all[i]]
      BY <2>4, <3>2
    <3>4. titles = [i \in DOMAIN store |-> store[i].title]
      BY <1>5, <2>1, <3>3
    <3> QED BY <3>1, <3>4 DEF TitlesOf
  <2> QED BY <2>3, <2>4
<1> HIDE DEF titles
<1>8. q \in Text
  BY <1>3, QueryIsText DEF QueryOf
<1>9. Top(DOMAIN titles, TitleOrder(q, titles), FetchCap, r)
  BY <1>6, <1>8, RankedFits
<1>10. r \in Seq(used) /\ Len(r) <= FetchCap
  <2>1. PICK s \in Seq(DOMAIN titles) : s = r /\ Len(s) <= FetchCap
    BY <1>9 DEF Top
  <2>2. s \in Seq(used)
    BY <1>6
  <2> QED BY <2>1, <2>2
<1> HIDE DEF r, q
<1>11. PICK a : a = ask'
  OBVIOUS
<1>12. a = [pc |-> "fetch", kind |-> ask.kind, prompt |-> ask.prompt, hits |-> <<>>,
            queue |-> r, facts |-> ask.facts, total |-> Cardinality(DOMAIN all),
            quiet |-> ask.quiet, ctx |-> ask.ctx]
  BY <1>1, <1>2, <1>11 DEF IsAsk
<1>13. /\ a.pc = "fetch" /\ a.kind = "keyword" /\ a.prompt = ask.prompt /\ a.queue = r
       /\ a.facts = ask.facts /\ a.total = Cardinality(DOMAIN all) /\ a.quiet = ask.quiet
       /\ a.ctx = ask.ctx
  BY <1>3, <1>12
<1>14. IsAsk(a)
  BY <1>12 DEF IsAsk
<1>15. Bounded(a)
  BY <1>2, <1>3, <1>10, <1>13 DEF Bounded
<1>16. QueryOf(a) = q
  BY <1>13 DEF QueryOf, q
<1>17. Fetching(a, store, used)
  <2>1. FactsFit(<<>>)
    <3>1. DOMAIN <<>> = {}
      OBVIOUS
    <3> QED BY <3>1, FS_EmptySet DEF FactsFit
  <2>2. Counted(Cardinality(DOMAIN all), <<>>, r, store)
    <3>1. IsFiniteSet(DOMAIN store)
      BY <1>4 DEF FactsFit
    <3>2. DOMAIN <<>> \subseteq DOMAIN store
      OBVIOUS
    <3> QED BY <1>5, <3>1, <3>2 DEF Counted
  <2>3. ASSUME a.quiet
        PROVE  ToSet(Ranked(q, TitlesOf(store, Pool(store, q)))) = DOMAIN a.facts \cup ToSet(a.queue)
    <3>1. Ranked(q, TitlesOf(store, Pool(store, q))) = r
      BY <1>7, <1>13, <2>3 DEF r
    <3>2. DOMAIN <<>> = {}
      OBVIOUS
    <3> QED BY <1>3, <1>13, <3>1, <3>2
  <2>4. \A i \in DOMAIN a.facts : a.facts[i] = store[i]
    <3>1. DOMAIN a.facts = {}
      BY <1>3, <1>13
    <3> QED BY <3>1
  <2>5. /\ a.kind = "keyword" /\ a.prompt \in Prompts /\ a.queue \in Seq(used)
        /\ FactsFit(a.facts) /\ Counted(a.total, a.facts, a.queue, store)
    BY <1>3, <1>10, <1>13, <2>1, <2>2
  <2> QED BY <1>16, <2>3, <2>4, <2>5 DEF Fetching
<1>18. /\ Targeted(a, store, used) /\ Answered(a, store)
       /\ Projected(a, store) /\ Shown(a, store)
  BY <1>13 DEF Targeted, Answered, Projected, Shown
<1>19. AskFits(a, store, used)
  BY <1>14, <1>15, <1>17, <1>18 DEF AskFits
<1> QED BY <1>1, <1>11, <1>19 DEF AskInv

LEMMA RankedIsStored ==
    ASSUME NEW F, FactsFit(F), NEW p \in Prompts
    PROVE  ToSet(Ranked(RetrievalQuery(p), TitlesOf(F, Pool(F, RetrievalQuery(p))))) \subseteq DOMAIN F
<1>1. PICK q \in Text : q = RetrievalQuery(p)
  BY QueryIsText
<1>2. PICK P : P = Pool(F, q)
  OBVIOUS
<1>3. PICK t : t = TitlesOf(F, P)
  OBVIOUS
<1>4. P \subseteq DOMAIN F /\ TitlesFit(t) /\ DOMAIN t = P
  BY <1>2, <1>3, PoolIsStored
<1>5. PICK r : r = Ranked(q, t)
  OBVIOUS
<1>6. Top(P, TitleOrder(q, t), FetchCap, r)
  BY <1>4, <1>5, RankedFits
<1>7. r \in Seq(P)
  BY <1>6 DEF Top
<1>8. ToSet(r) \subseteq DOMAIN F
  BY <1>4, <1>7, SeqFacts DEF ToSet
<1> QED BY <1>1, <1>2, <1>3, <1>5, <1>8

LEMMA FetchKeepsAsk ==
    ASSUME IndexInv, AskInv, AskFetch
    PROVE  AskInv'
<1> DEFINE id == Head(ask.queue)
           fs == IF id \notin DOMAIN store THEN ask.facts
                    ELSE [i \in DOMAIN ask.facts \cup {id} |->
                             IF i = id THEN store[id] ELSE ask.facts[i]]
           rest == Tail(ask.queue)
           q == QueryOf(ask)
           C == ToSet(Ranked(q, TitlesOf(store, Pool(store, q))))
<1>1. IsAsk(ask) /\ Bounded(ask) /\ Fetching(ask, store, used)
  BY DEF AskInv, AskFits
<1>2. /\ store' = store /\ used' = used /\ ask.pc = "fetch" /\ ask.queue # <<>>
      /\ ask' = [ask EXCEPT !.queue = rest, !.facts = fs]
  BY <1>1 DEF AskFetch, facts_and_index, IsAsk
<1>3. /\ ask.kind = "keyword" /\ ask.prompt \in Prompts /\ ask.queue \in Seq(used)
      /\ FactsFit(ask.facts) /\ Counted(ask.total, ask.facts, ask.queue, store)
      /\ ask.quiet => /\ C = DOMAIN ask.facts \cup ToSet(ask.queue)
                      /\ \A i \in DOMAIN ask.facts : ask.facts[i] = store[i]
  BY <1>1, <1>2 DEF Fetching
<1>4. /\ rest \in Seq(used) /\ Len(rest) <= FetchCap /\ id \in used
      /\ ToSet(ask.queue) = {id} \cup ToSet(rest)
  <2>1. PICK s \in Seq(used) : s = ask.queue /\ s # <<>>
    BY <1>2, <1>3
  <2>2. /\ Tail(s) \in Seq(used) /\ Head(s) \in used /\ Len(s) \in Nat \ {0}
        /\ Len(Tail(s)) = Len(s) - 1
        /\ Head(s) = s[1] /\ \A i \in 1..(Len(s) - 1) : Tail(s)[i] = s[i + 1]
    BY <2>1
  <2>3. DOMAIN s = 1..Len(s) /\ DOMAIN Tail(s) = 1..(Len(s) - 1)
    BY <2>2
  <2>4. ToSet(s) = {Head(s)} \cup ToSet(Tail(s))
    <3>1. ASSUME NEW x \in ToSet(s) PROVE x \in {Head(s)} \cup ToSet(Tail(s))
      <4>1. PICK i \in 1..Len(s) : s[i] = x
        BY <2>3 DEF ToSet
      <4>2. CASE i = 1
        BY <2>2, <4>1, <4>2
      <4>3. CASE i # 1
        <5>1. i - 1 \in 1..(Len(s) - 1) /\ (i - 1) + 1 = i
          BY <2>2, <4>3
        <5>2. Tail(s)[i - 1] = x
          BY <2>2, <4>1, <5>1
        <5> QED BY <2>3, <5>1, <5>2 DEF ToSet
      <4> QED BY <4>2, <4>3
    <3>2. ASSUME NEW x \in ToSet(Tail(s)) PROVE x \in ToSet(s)
      <4>1. PICK i \in 1..(Len(s) - 1) : Tail(s)[i] = x
        BY <2>3 DEF ToSet
      <4>2. i + 1 \in 1..Len(s) /\ s[i + 1] = x
        BY <2>2, <4>1
      <4> QED BY <2>3, <4>2 DEF ToSet
    <3>3. Head(s) \in ToSet(s)
      <4>1. 1 \in 1..Len(s)
        BY <2>2
      <4> QED BY <2>2, <2>3, <4>1 DEF ToSet
    <3> QED BY <3>1, <3>2, <3>3
  <2>5. Len(s) <= FetchCap /\ FetchCap \in Nat
    BY <1>1, <2>1, RecallAssumption DEF Bounded, RecallAssumption
  <2> QED BY <2>1, <2>2, <2>4, <2>5
<1> HIDE DEF id, rest
<1>5. /\ DOMAIN fs = IF id \in DOMAIN store THEN DOMAIN ask.facts \cup {id} ELSE DOMAIN ask.facts
      /\ \A i \in DOMAIN fs :
           \/ i \in DOMAIN store /\ fs[i] = store[i]
           \/ i \in DOMAIN ask.facts /\ fs[i] = ask.facts[i]
  <2>1. CASE id \in DOMAIN store
    BY <2>1
  <2>2. CASE id \notin DOMAIN store
    BY <2>2
  <2> QED BY <2>1, <2>2
<1> HIDE DEF fs
<1>6. FactsFit(store)
  BY StoredFacts
<1>7. FactsFit(fs)
  <2>1. IsFiniteSet(DOMAIN ask.facts \cup {id}) /\ IsFiniteSet(DOMAIN ask.facts)
    BY <1>3, FS_AddElement DEF FactsFit
  <2>2. IsFiniteSet(DOMAIN fs)
    BY <1>5, <2>1
  <2> QED BY <1>3, <1>5, <1>6, <2>2 DEF FactsFit
<1>8. Counted(ask.total, fs, rest, store)
  <2>1. PICK P : /\ IsFiniteSet(P) /\ Cardinality(P) = ask.total
                 /\ DOMAIN ask.facts \subseteq P
                 /\ \A i \in ToSet(ask.queue) : i \in DOMAIN store => i \in P
    BY <1>3 DEF Counted
  <2>2. DOMAIN fs \subseteq P
    BY <1>4, <1>5, <2>1
  <2>3. \A i \in ToSet(rest) : i \in DOMAIN store => i \in P
    BY <1>4, <2>1
  <2> QED BY <2>1, <2>2, <2>3 DEF Counted
<1>9. ASSUME ask.quiet
      PROVE  /\ C = DOMAIN fs \cup ToSet(rest)
             /\ \A i \in DOMAIN fs : fs[i] = store[i]
  <2>1. /\ C = DOMAIN ask.facts \cup ToSet(ask.queue)
        /\ \A i \in DOMAIN ask.facts : ask.facts[i] = store[i]
    BY <1>3, <1>9
  <2>2. C \subseteq DOMAIN store
    BY <1>3, <1>6, RankedIsStored DEF QueryOf
  <2>3. id \in DOMAIN store
    BY <1>4, <2>1, <2>2
  <2> HIDE DEF C
  <2> QED BY <1>4, <1>5, <2>1, <2>3
<1> HIDE DEF C, q
<1>10. PICK a : a = ask'
  OBVIOUS
<1>11. a = [pc |-> "fetch", kind |-> ask.kind, prompt |-> ask.prompt, hits |-> ask.hits,
            queue |-> rest, facts |-> fs, total |-> ask.total,
            quiet |-> ask.quiet, ctx |-> ask.ctx]
  BY <1>1, <1>2, <1>10 DEF IsAsk
<1>12. /\ a.pc = "fetch" /\ a.kind = "keyword" /\ a.prompt = ask.prompt /\ a.queue = rest
       /\ a.facts = fs /\ a.total = ask.total /\ a.quiet = ask.quiet
       /\ a.ctx = ask.ctx
  BY <1>3, <1>11
<1>13. IsAsk(a)
  BY <1>11 DEF IsAsk
<1>14. Bounded(a)
  BY <1>1, <1>3, <1>4, <1>12 DEF Bounded
<1>15. QueryOf(a) = q
  BY <1>12 DEF QueryOf, q
<1>16. Fetching(a, store, used)
  <2>1. /\ a.kind = "keyword" /\ a.prompt \in Prompts /\ a.queue \in Seq(used)
        /\ FactsFit(a.facts) /\ Counted(a.total, a.facts, a.queue, store)
    BY <1>3, <1>4, <1>7, <1>8, <1>12
  <2>2. a.quiet => /\ C = DOMAIN a.facts \cup ToSet(a.queue)
                   /\ \A i \in DOMAIN a.facts : a.facts[i] = store[i]
    BY <1>9, <1>12
  <2> QED BY <1>15, <2>1, <2>2 DEF Fetching, C
<1>17. /\ Targeted(a, store, used) /\ Answered(a, store)
       /\ Projected(a, store) /\ Shown(a, store)
  BY <1>12 DEF Targeted, Answered, Projected, Shown
<1>18. AskFits(a, store, used)
  BY <1>13, <1>14, <1>16, <1>17 DEF AskFits
<1> QED BY <1>2, <1>10, <1>18 DEF AskInv

LEMMA SelectKeepsAsk ==
    ASSUME IndexInv, AskInv, AskSelect
    PROVE  AskInv'
<1> DEFINE q == QueryOf(ask)
           ctx == SelectContext(q, ask.facts)
<1>1. IsAsk(ask) /\ Bounded(ask) /\ Fetching(ask, store, used)
  BY DEF AskInv, AskFits
<1>2. /\ store' = store /\ used' = used /\ ask.pc = "fetch" /\ ask.queue = <<>>
      /\ ask' = [ask EXCEPT !.pc = "done", !.facts = <<>>, !.ctx = ctx]
  BY DEF AskSelect, facts_and_index, QueryOf
<1>3. /\ ask.kind = "keyword" /\ ask.prompt \in Prompts
      /\ FactsFit(ask.facts) /\ Counted(ask.total, ask.facts, ask.queue, store)
      /\ ask.quiet => /\ ToSet(Ranked(q, TitlesOf(store, Pool(store, q))))
                           = DOMAIN ask.facts \cup ToSet(ask.queue)
                      /\ \A i \in DOMAIN ask.facts : ask.facts[i] = store[i]
  BY <1>1, <1>2 DEF Fetching
<1>4. q \in Text
  BY <1>3, QueryIsText DEF QueryOf
<1>5. Len(ctx) \in Nat /\ Len(ctx) <= MaxFacts /\ Len(ctx) <= Cardinality(DOMAIN ask.facts)
  <2>1. Top(DOMAIN ask.facts, BetterOrder(q, ask.facts), MaxFacts, ctx)
    BY <1>3, <1>4, ContextFits
  <2> HIDE DEF ctx
  <2>2. ctx \in Seq(DOMAIN ask.facts) /\ Len(ctx) <= MaxFacts
        /\ Len(ctx) <= Cardinality(DOMAIN ask.facts)
    BY <2>1 DEF Top
  <2> QED BY <2>2, SeqFacts
<1>6. Len(ctx) <= ask.total
  <2>1. PICK P : IsFiniteSet(P) /\ Cardinality(P) = ask.total /\ DOMAIN ask.facts \subseteq P
    BY <1>3 DEF Counted
  <2>2. /\ Cardinality(DOMAIN ask.facts) <= Cardinality(P)
        /\ Cardinality(P) \in Nat /\ Cardinality(DOMAIN ask.facts) \in Nat
    BY <2>1, FS_Subset, FS_CardinalityType
  <2> HIDE DEF ctx
  <2> QED BY <1>5, <2>1, <2>2
<1>7. ask.quiet => Grounded(store, q, ctx)
  <2> SUFFICES ASSUME ask.quiet PROVE Grounded(store, q, ctx)
    OBVIOUS
  <2>1. ToSet(<<>>) = {}
    BY DEF ToSet
  <2>2. /\ DOMAIN ask.facts = ToSet(Ranked(q, TitlesOf(store, Pool(store, q))))
        /\ \A i \in DOMAIN ask.facts : ask.facts[i] = store[i]
    BY <1>2, <1>3, <2>1
  <2>3. FactsFit(store)
    BY StoredFacts
  <2> QED BY <1>4, <2>2, <2>3, SelectionIsGrounded
<1> HIDE DEF ctx, q
<1>8. PICK a : a = ask'
  OBVIOUS
<1>9. a = [pc |-> "done", kind |-> ask.kind, prompt |-> ask.prompt, hits |-> ask.hits,
           queue |-> ask.queue, facts |-> <<>>, total |-> ask.total,
           quiet |-> ask.quiet, ctx |-> ctx]
  BY <1>1, <1>2, <1>8 DEF IsAsk
<1>10. /\ a.pc = "done" /\ a.kind = "keyword" /\ a.prompt = ask.prompt
       /\ a.queue = ask.queue /\ a.total = ask.total /\ a.quiet = ask.quiet /\ a.ctx = ctx
  BY <1>3, <1>9
<1>11. IsAsk(a)
  BY <1>9 DEF IsAsk
<1>12. Bounded(a)
  BY <1>1, <1>5, <1>10 DEF Bounded
<1>13. QueryOf(a) = q
  BY <1>10 DEF QueryOf, q
<1>14. Answered(a, store)
  BY <1>6, <1>7, <1>10, <1>13 DEF Answered
<1>15. /\ Targeted(a, store, used) /\ Fetching(a, store, used)
       /\ Projected(a, store) /\ Shown(a, store)
  BY <1>10 DEF Targeted, Fetching, Projected, Shown
<1>16. AskFits(a, store, used)
  BY <1>11, <1>12, <1>14, <1>15 DEF AskFits
<1> QED BY <1>2, <1>8, <1>16 DEF AskInv

LEMMA KeysAreFew ==
    ASSUME FactsFit(meta)
    PROVE  IsFiniteSet(TopicPages(DOMAIN meta))
<1> DEFINE W == { p \in (DOMAIN meta) \X (1..MaxTopics) : p[2] \in DOMAIN meta[p[1]].topics }
           K == Keys(DOMAIN meta)
<1>1. IsFiniteSet(W)
  <2>1. IsFiniteSet(DOMAIN meta)
    BY DEF FactsFit
  <2>2. PICK n \in Nat : n = MaxTopics
    BY RecallAssumption DEF RecallAssumption
  <2>3. IsFiniteSet(1..n)
    BY FS_Interval
  <2>4. IsFiniteSet((DOMAIN meta) \X (1..MaxTopics))
    BY <2>1, <2>2, <2>3, FS_Product
  <2>5. W \in SUBSET ((DOMAIN meta) \X (1..MaxTopics))
    OBVIOUS
  <2> HIDE DEF W
  <2> QED BY <2>4, <2>5, FS_Subset
<1>2. PICK g : g = [p \in W |-> TopicKey(meta[p[1]].topics[p[2]])]
  OBVIOUS
<1>3. DOMAIN g = W /\ g = [p \in W |-> g[p]]
  BY <1>2
<1>4. PICK V : V = {g[p] : p \in W}
  OBVIOUS
<1>5. IsFiniteSet(V)
  <2> HIDE DEF W
  <2> QED BY <1>1, <1>3, <1>4, FiniteImage
<1>6. K \in SUBSET V
  <2>1. ASSUME NEW k \in K PROVE k \in V
    <3>1. PICK p \in W : k = TopicKey(meta[p[1]].topics[p[2]])
      BY DEF Keys
    <3>2. g[p] = k
      BY <1>2, <3>1
    <3> QED BY <1>4, <3>2
  <2> HIDE DEF K
  <2> QED BY <2>1
<1>7. IsFiniteSet(K)
  <2> HIDE DEF K
  <2> QED BY <1>5, <1>6, FS_Subset
<1>8. PICK h : h = [k \in K |-> Page(DOMAIN meta, k)]
  OBVIOUS
<1>9. DOMAIN h = K /\ h = [k \in K |-> h[k]] /\ \A k \in K : h[k] = Page(DOMAIN meta, k)
  BY <1>8
<1>10. TopicPages(DOMAIN meta) = {h[k] : k \in K}
  BY <1>9 DEF TopicPages
<1> HIDE DEF K
<1> QED BY <1>7, <1>9, <1>10, FiniteImage

\* However a finite set is ordered, the first n are at most n.
LEMMA FirstAtMost ==
    ASSUME NEW S, IsFiniteSet(S), NEW R, NEW n \in Nat
    PROVE  /\ Len(First(Ordered(S, R), n)) \in Nat /\ Len(First(Ordered(S, R), n)) <= n
           /\ DOMAIN First(Ordered(S, R), n) = 1..Len(First(Ordered(S, R), n))
<1>1. PICK c \in Nat : c = Cardinality(S)
  BY FS_CardinalityType
<1>2. PICK s : s = Ordered(S, R)
  OBVIOUS
<1>3. s = [k \in 1..c |-> CHOOSE x \in S : Ahead(S, R)[x] = k - 1]
  BY <1>1, <1>2 DEF Ordered, Ahead
<1>4. DOMAIN s = 1..c /\ s = [k \in 1..c |-> s[k]]
  BY <1>3
<1>5. PICK T : T = {s[k] : k \in 1..c}
  OBVIOUS
<1>6. s \in [1..c -> T]
  BY <1>4, <1>5
<1>7. s \in Seq(T) /\ Len(s) = c
  BY <1>6
<1>8. PICK t : t = First(s, n)
  OBVIOUS
<1>9. t \in Seq(T) /\ Len(t) = (IF c < n THEN c ELSE n)
  BY <1>7, <1>8, FirstFits
<1>10. Len(t) \in Nat /\ DOMAIN t = 1..Len(t)
  BY <1>9, SeqFacts
<1>11. Len(t) <= n
  BY <1>9
<1> QED BY <1>2, <1>8, <1>10, <1>11

LEMMA TopicsKeepsAsk ==
    ASSUME IndexInv, AskInv, NEW p \in Prompts, AskTopics(p)
    PROVE  AskInv'
<1> DEFINE want == Detect(p.cues)
           kept(page) == CASE want = "concerns" -> page.concerns > 0
                           [] want = "interests" -> page.mentions > 1
                           [] OTHER -> TRUE
           pages == { page \in TopicPages(DOMAIN meta) : kept(page) }
           before == { r \in pages \X pages :
                         IF want = "recent" /\ r[1].lastSeen # r[2].lastSeen
                         THEN r[1].lastSeen > r[2].lastSeen ELSE PageLess(r[1], r[2]) }
           chosen == First(Ordered(pages, before), MaxFacts)
           total == FoldLeft(LAMBDA n, page : n + page.mentions, 0, chosen)
           ctx == [i \in DOMAIN chosen |-> Head(chosen[i].facts)]
<1>1. /\ built /\ want # "keyword" /\ store' = store /\ used' = used
      /\ ask' = [Unasked EXCEPT !.pc = "done", !.kind = want, !.prompt = p,
                             !.total = total, !.ctx = ctx]
  BY DEF AskTopics, facts_and_index
<1>2. want # "home"
  BY DEF Detect
<1>3. FactsFit(meta)
  BY <1>1, StoredFacts
<1>4. IsFiniteSet(pages)
  <2>1. pages \in SUBSET TopicPages(DOMAIN meta)
    OBVIOUS
  <2> HIDE DEF pages
  <2> QED BY <1>3, <2>1, KeysAreFew, FS_Subset
<1> HIDE DEF pages, before, want, total
<1>5. MaxFacts \in Nat /\ FetchCap \in Nat /\ Len(<<>>) = 0
  BY RecallAssumption DEF RecallAssumption
<1>6. PICK m \in Nat : m = Len(chosen) /\ m <= MaxFacts /\ DOMAIN chosen = 1..m
  BY <1>4, <1>5, FirstAtMost
<1> HIDE DEF chosen
<1>7. Len(ctx) = m
  BY <1>6
<1> HIDE DEF ctx
<1>8. PICK a : a = ask'
  OBVIOUS
<1>9. a = [pc |-> "done", kind |-> want, prompt |-> p, hits |-> <<>>, queue |-> <<>>,
           facts |-> <<>>, total |-> total, quiet |-> TRUE, ctx |-> ctx]
  BY <1>1, <1>8 DEF Unasked
<1>10. a.pc = "done" /\ a.kind = want /\ a.queue = <<>> /\ a.ctx = ctx
  BY <1>9
<1>11. IsAsk(a)
  BY <1>9 DEF IsAsk
<1>12. Bounded(a)
  BY <1>5, <1>6, <1>7, <1>10 DEF Bounded
<1>13. /\ Targeted(a, store, used) /\ Fetching(a, store, used) /\ Answered(a, store)
       /\ Projected(a, store) /\ Shown(a, store)
  BY <1>1, <1>2, <1>10 DEF Targeted, Fetching, Answered, Projected, Shown
<1>14. AskFits(a, store, used)
  BY <1>11, <1>12, <1>13 DEF AskFits
<1> QED BY <1>1, <1>8, <1>14 DEF AskInv

LEMMA HomeKeepsAsk ==
    ASSUME IndexInv, AskInv, AskHome
    PROVE  AskInv'
<1> DEFINE fs == [i \in Search(<<>>) |-> meta[i]]
<1>1. /\ built /\ store' = store /\ used' = used
      /\ ask' = [Unasked EXCEPT !.pc = "graph", !.kind = "home", !.facts = fs]
  BY DEF AskHome, facts_and_index
<1>2. fs = store
  <2>1. Search(<<>>) = DOMAIN store /\ meta = store
    BY <1>1, StoredFacts
  <2>2. store = [i \in DOMAIN store |-> store[i]]
    BY DEF IndexInv, StoreFits, IsFunction
  <2> QED BY <2>1, <2>2
<1> HIDE DEF fs
<1>3. PICK a : a = ask'
  OBVIOUS
<1>4. a = [pc |-> "graph", kind |-> "home", prompt |-> NoPrompt, hits |-> <<>>, queue |-> <<>>,
           facts |-> fs, total |-> 0, quiet |-> TRUE, ctx |-> <<>>]
  BY <1>1, <1>3 DEF Unasked
<1>5. a.pc = "graph" /\ a.kind = "home" /\ a.queue = <<>> /\ a.facts = fs
  BY <1>4
<1>6. IsAsk(a)
  BY <1>4 DEF IsAsk
<1>7. FetchCap \in Nat /\ Len(<<>>) = 0
  BY RecallAssumption DEF RecallAssumption
<1>8. Bounded(a)
  BY <1>5, <1>7 DEF Bounded
<1>9. /\ Targeted(a, store, used) /\ Fetching(a, store, used) /\ Answered(a, store)
      /\ Projected(a, store) /\ Shown(a, store)
  BY <1>2, <1>5 DEF Targeted, Fetching, Answered, Projected, Shown
<1>10. AskFits(a, store, used)
  BY <1>6, <1>8, <1>9 DEF AskFits
<1> QED BY <1>1, <1>3, <1>10 DEF AskInv

LEMMA GraphKeepsAsk ==
    ASSUME IndexInv, AskInv, AskGraph
    PROVE  AskInv'
<1> DEFINE ctx == RankHighlights(ask.facts, Graph(DOMAIN meta))
<1>1. IsAsk(ask) /\ Bounded(ask) /\ Projected(ask, store)
  BY DEF AskInv, AskFits
<1>2. /\ built /\ store' = store /\ used' = used /\ ask.pc = "graph"
      /\ ask' = [ask EXCEPT !.pc = "done", !.facts = <<>>, !.ctx = ctx]
  BY DEF AskGraph, facts_and_index
<1>3. ask.kind = "home" /\ (ask.quiet => ask.facts = store)
  BY <1>1, <1>2 DEF Projected
<1>4. ask.quiet => Home(store, ctx)
  <2> SUFFICES ASSUME ask.quiet PROVE Home(store, ctx)
    OBVIOUS
  <2>1. meta = store /\ FactsFit(meta)
    BY <1>2, StoredFacts
  <2>2. Home(meta, RankHighlights(meta, Graph(DOMAIN meta)))
    BY <2>1, HighlightsFit
  <2>3. ask.facts = meta
    BY <1>3, <2>1
  <2> QED BY <2>1, <2>2, <2>3
<1> HIDE DEF ctx
<1>5. PICK a : a = ask'
  OBVIOUS
<1>6. a = [pc |-> "done", kind |-> ask.kind, prompt |-> ask.prompt, hits |-> ask.hits,
           queue |-> ask.queue, facts |-> <<>>, total |-> ask.total,
           quiet |-> ask.quiet, ctx |-> ctx]
  BY <1>1, <1>2, <1>5 DEF IsAsk
<1>7. /\ a.pc = "done" /\ a.kind = "home" /\ a.queue = ask.queue /\ a.quiet = ask.quiet
      /\ a.ctx = ctx
  BY <1>3, <1>6
<1>8. IsAsk(a)
  BY <1>6 DEF IsAsk
<1>9. Bounded(a)
  BY <1>1, <1>7 DEF Bounded
<1>10. Shown(a, store)
  BY <1>4, <1>7 DEF Shown
<1>11. /\ Targeted(a, store, used) /\ Fetching(a, store, used) /\ Answered(a, store)
       /\ Projected(a, store)
  BY <1>7 DEF Targeted, Fetching, Answered, Projected
<1>12. AskFits(a, store, used)
  BY <1>8, <1>9, <1>10, <1>11 DEF AskFits
<1> QED BY <1>2, <1>5, <1>12 DEF AskInv

\* No question is asked of an index that was not built.
Asked == ask.pc # "idle" => built

RecallInv == IndexInv /\ AskInv /\ Asked

LEMMA AskedStep == Asked /\ [RecallNext]_recallVars => Asked'
<1> SUFFICES ASSUME Asked, [RecallNext]_recallVars PROVE Asked'
  OBVIOUS
<1> USE DEF Asked
<1>1. ASSUME NEW id \in Ids, NEW f \in Facts, Put(id, f) PROVE Asked'
  BY <1>1 DEF Put
<1>2. ASSUME NEW f \in Facts, Purge(f.source) PROVE Asked'
  BY <1>2 DEF Purge
<1>3. CASE Restart
  BY <1>3 DEF Restart, Unasked
<1>4. CASE Build
  BY <1>4 DEF Build
<1>5. ASSUME NEW p \in Prompts, AskKeyword(p) \/ AskTopics(p) PROVE Asked'
  BY <1>5 DEF AskKeyword, AskTopics, facts_and_index
<1>6. CASE AskPopulation \/ AskHome \/ AskGraph
  BY <1>6 DEF AskPopulation, AskHome, AskGraph, facts_and_index
<1>7. CASE AskFetch \/ AskSelect
  BY <1>7 DEF AskFetch, AskSelect, facts_and_index
<1>8. CASE UNCHANGED recallVars
  BY <1>8 DEF recallVars
<1> QED BY <1>1, <1>2, <1>3, <1>4, <1>5, <1>6, <1>7, <1>8 DEF RecallNext

LEMMA AskStep == RecallInv /\ [RecallNext]_recallVars => AskInv'
<1> SUFFICES ASSUME IndexInv, AskInv, [RecallNext]_recallVars PROVE AskInv'
  BY DEF RecallInv
<1>1. ASSUME NEW id \in Ids, NEW f \in Facts, Put(id, f) PROVE AskInv'
  BY <1>1, PutKeepsAsk
<1>2. ASSUME NEW f \in Facts, Purge(f.source) PROVE AskInv'
  BY <1>2, PurgeKeepsAsk
<1>3. CASE Restart
  <2>1. ask' = Unasked
    BY <1>3 DEF Restart
  <2>2. AskFits(Unasked, store', used')
    BY UnaskedFits
  <2> QED BY <2>1, <2>2 DEF AskInv
<1>4. CASE Build
  BY <1>4 DEF Build, AskInv
<1>5. ASSUME NEW p \in Prompts, AskKeyword(p) PROVE AskInv'
  BY <1>5, KeywordKeepsAsk
<1>6. ASSUME NEW p \in Prompts, AskTopics(p) PROVE AskInv'
  BY <1>6, TopicsKeepsAsk
<1>7. CASE AskPopulation
  BY <1>7, PopulationKeepsAsk
<1>8. CASE AskFetch
  BY <1>8, FetchKeepsAsk
<1>9. CASE AskSelect
  BY <1>9, SelectKeepsAsk
<1>10. CASE AskHome
  BY <1>10, HomeKeepsAsk
<1>11. CASE AskGraph
  BY <1>11, GraphKeepsAsk
<1>12. CASE UNCHANGED recallVars
  BY <1>12 DEF recallVars, AskInv
<1> QED BY <1>1, <1>2, <1>3, <1>4, <1>5, <1>6, <1>7, <1>8, <1>9, <1>10, <1>11, <1>12 DEF RecallNext

LEMMA RecallAlways == RecallSpec => []RecallInv
<1>1. RecallInit => RecallInv
  <2> SUFFICES ASSUME RecallInit PROVE AskInv /\ Asked
    BY IndexStarts DEF RecallInv
  <2>1. ask = Unasked
    BY DEF RecallInit
  <2>2. AskFits(Unasked, store, used)
    BY UnaskedFits
  <2> QED BY <2>1, <2>2 DEF AskInv, Asked, Unasked
<1>2. RecallInv /\ [RecallNext]_recallVars => RecallInv'
  BY IndexStep, AskStep, AskedStep DEF RecallInv
<1> QED BY <1>1, <1>2, PTL DEF RecallSpec

\* Facts, index and question are well formed: no more candidates wait than may
\* be fetched, and no answer rests on more facts than the context holds.
THEOREM RecallTypes == RecallSpec => []RecallTypeOK
<1>1. RecallInv => RecallTypeOK
  <2> SUFFICES ASSUME RecallInv PROVE RecallTypeOK
    OBVIOUS
  <2>1. /\ DOMAIN store \subseteq used /\ used \subseteq Ids
        /\ \A i \in DOMAIN store : store[i] \in Facts
        /\ built \in BOOLEAN
    BY DEF RecallInv, IndexInv, StoreFits
  <2>2. DOMAIN tokens = DOMAIN meta /\ \A t \in DOMAIN postings : postings[t] \subseteq Ids
    <3>1. CASE built
      <4>1. /\ meta = store /\ tokens = [i \in DOMAIN store |-> Toks(store[i])]
            /\ postings = [t \in AllToks(store) |-> Holders(store, t)]
        BY <3>1, IndexHolds DEF RecallInv
      <4>2. \A t : Holders(store, t) \subseteq Ids
        BY <2>1, HoldersHold
      <4> QED BY <4>1, <4>2
    <3>2. CASE ~built
      <4>1. Index = EmptyIndex
        BY <3>2 DEF RecallInv, IndexInv, IndexFits
      <4>2. postings = <<>> /\ tokens = <<>> /\ meta = <<>>
        BY <4>1 DEF Index, EmptyIndex
      <4> QED BY <4>2
    <3> QED BY <2>1, <3>1, <3>2
  <2>3. Bounded(ask)
    BY DEF RecallInv, AskInv, AskFits
  <2> QED BY <2>1, <2>2, <2>3 DEF RecallTypeOK, Bounded
<1> QED BY <1>1, RecallAlways, PTL

\* The confirmed population an answer reports is never smaller than the facts
\* it names, whatever was stored, edited or purged between its reads.
THEOREM PopulationCoversEntries == RecallSpec => []TotalCoversEntries
<1>1. RecallInv => TotalCoversEntries
  BY DEF RecallInv, AskInv, AskFits, Answered, TotalCoversEntries
<1> QED BY <1>1, RecallAlways, PTL

\* While nothing changes between its reads, an answer rests on the best facts,
\* and the mini-home shows those that share most topics.
THEOREM BestFacts == RecallSpec => []BestFactsAreUsed
<1>1. RecallInv => BestFactsAreUsed
  <2> SUFFICES ASSUME RecallInv PROVE BestFactsAreUsed
    OBVIOUS
  <2>1. ASSUME ask.pc = "done", ask.kind = "keyword", ask.quiet PROVE AnswersUseBest
    <3>1. PICK q : q = QueryOf(ask)
      OBVIOUS
    <3>2. Grounded(store, q, ask.ctx)
      BY <2>1, <3>1 DEF RecallInv, AskInv, AskFits, Answered
    <3>3. Search(q) = Found(store, q)
      BY <2>1, StoredFacts DEF RecallInv, Asked
    <3> QED BY <3>1, <3>2, <3>3 DEF AnswersUseBest, Grounded, Pool, Shadowing, ToSet, QueryOf
  <2>2. ASSUME ask.pc = "done", ask.kind = "home", ask.quiet PROVE HighlightsAreShared
    <3>1. Home(store, ask.ctx)
      BY <2>2 DEF RecallInv, AskInv, AskFits, Shown
    <3> QED BY <3>1 DEF HighlightsAreShared, Home, SharedTopics, ToSet
  <2> QED BY <2>1, <2>2 DEF BestFactsAreUsed, AnswersUseBest, HighlightsAreShared
<1> QED BY <1>1, RecallAlways, PTL

-----------------------------------------------------------------------------
(* A phrase of a text, and the tokens the text is indexed under.           *)

Cjk == { c \in Nat : IsCjk(c) }

Latin == { c \in Nat : IsLatin(c) }

\* From a to b t holds characters of K, and nowhere next to that.
IsRun(t, a, b, K) ==
    /\ a \in 1..Len(t) /\ b \in 1..Len(t) /\ a <= b
    /\ \A i \in a..b : t[i] \in K
    /\ a = 1 \/ t[a - 1] \notin K
    /\ b = Len(t) \/ t[b + 1] \notin K

LEMMA Stretch ==
    ASSUME NEW t \in Text, NEW a \in 1..Len(t), NEW b \in 1..Len(t), a <= b
    PROVE  /\ SubSeq(t, a, b) \in Text /\ Len(SubSeq(t, a, b)) = b - a + 1
           /\ DOMAIN SubSeq(t, a, b) = 1..(b - a + 1)
           /\ \A i \in 1..(b - a + 1) : SubSeq(t, a, b)[i] = t[a + i - 1]
<1>1. Len(t) \in Nat /\ a \in Nat /\ b \in Nat
  BY TextFacts
<1>2. SubSeq(t, a, b) = [i \in 1..(b - a + 1) |-> t[a + i - 1]]
  BY <1>1 DEF Text
<1>3. \A i \in 1..(b - a + 1) : t[a + i - 1] \in Nat
  <2>1. ASSUME NEW i \in 1..(b - a + 1) PROVE t[a + i - 1] \in Nat
    <3>1. a + i - 1 \in 1..Len(t)
      BY <1>1
    <3> QED BY <3>1, TextFacts
  <2> QED BY <2>1
<1>4. b - a + 1 \in Nat
  BY <1>1
<1> QED BY <1>2, <1>3, <1>4 DEF Text

LEMMA Within ==
    ASSUME NEW m \in Nat, NEW a \in 1..m, NEW b \in 1..m, a <= b
    PROVE  /\ \A i \in a..b : i \in 1..m
           /\ a = 1 \/ a - 1 \in 1..m
           /\ b = m \/ b + 1 \in 1..m
OBVIOUS

LEMMA CjkRuns ==
    ASSUME NEW t \in Text, NEW r
    PROVE  r \in Runs(t, IsCjk) <=> \E a, b \in Nat : IsRun(t, a, b, Cjk) /\ r = SubSeq(t, a, b)
<1>1. Len(t) \in Nat /\ DOMAIN t = 1..Len(t) /\ \A i \in 1..Len(t) : t[i] \in Nat
  BY TextFacts
<1>2. ASSUME NEW i \in 1..Len(t) PROVE IsCjk(t[i]) <=> t[i] \in Cjk
  BY <1>1 DEF Cjk
<1>3. ASSUME NEW a \in 1..Len(t), NEW b \in 1..Len(t), a <= b
      PROVE  IsRun(t, a, b, Cjk) <=>
               /\ \A i \in a..b : IsCjk(t[i])
               /\ a = 1 \/ ~IsCjk(t[a - 1])
               /\ b = Len(t) \/ ~IsCjk(t[b + 1])
  <2>1. /\ \A i \in a..b : i \in 1..Len(t)
        /\ a = 1 \/ a - 1 \in 1..Len(t)
        /\ b = Len(t) \/ b + 1 \in 1..Len(t)
    BY <1>1, <1>3, Within
  <2> QED BY <1>2, <1>3, <2>1 DEF IsRun
<1> DEFINE W == { p \in (DOMAIN t) \X (DOMAIN t) :
                    /\ p[1] <= p[2]
                    /\ \A i \in p[1]..p[2] : IsCjk(t[i])
                    /\ p[1] = 1 \/ ~IsCjk(t[p[1] - 1])
                    /\ p[2] = Len(t) \/ ~IsCjk(t[p[2] + 1]) }
<1>4. Runs(t, IsCjk) = { SubSeq(t, p[1], p[2]) : p \in W }
  BY DEF Runs
<1>5. \A p : p \in W <=> p \in (1..Len(t)) \X (1..Len(t)) /\ IsRun(t, p[1], p[2], Cjk)
  <2>1. ASSUME NEW p \in W PROVE p \in (1..Len(t)) \X (1..Len(t)) /\ IsRun(t, p[1], p[2], Cjk)
    BY <1>1, <1>3
  <2>2. ASSUME NEW p \in (1..Len(t)) \X (1..Len(t)), IsRun(t, p[1], p[2], Cjk) PROVE p \in W
    <3>1. p[1] \in 1..Len(t) /\ p[2] \in 1..Len(t) /\ p[1] <= p[2]
      BY <2>2 DEF IsRun
    <3> QED BY <1>1, <1>3, <2>2, <3>1
  <2> QED BY <2>1, <2>2
<1> HIDE DEF W
<1>6. ASSUME r \in Runs(t, IsCjk)
      PROVE  \E a, b \in Nat : IsRun(t, a, b, Cjk) /\ r = SubSeq(t, a, b)
  <2>1. PICK p \in W : r = SubSeq(t, p[1], p[2])
    BY <1>4, <1>6
  <2>2. p[1] \in Nat /\ p[2] \in Nat /\ IsRun(t, p[1], p[2], Cjk)
    BY <1>1, <1>5, <2>1
  <2> QED BY <2>1, <2>2
<1>7. ASSUME NEW a \in Nat, NEW b \in Nat, IsRun(t, a, b, Cjk), r = SubSeq(t, a, b)
      PROVE  r \in Runs(t, IsCjk)
  <2>1. PICK p : p = <<a, b>>
    OBVIOUS
  <2>2. p[1] = a /\ p[2] = b /\ p \in (1..Len(t)) \X (1..Len(t))
    BY <1>7, <2>1 DEF IsRun
  <2>3. p \in W
    BY <1>5, <1>7, <2>2
  <2> QED BY <1>4, <1>7, <2>2, <2>3
<1> QED BY <1>6, <1>7

LEMMA LatinRuns ==
    ASSUME NEW t \in Text, NEW r
    PROVE  r \in Runs(t, IsLatin) <=> \E a, b \in Nat : IsRun(t, a, b, Latin) /\ r = SubSeq(t, a, b)
<1>1. Len(t) \in Nat /\ DOMAIN t = 1..Len(t) /\ \A i \in 1..Len(t) : t[i] \in Nat
  BY TextFacts
<1>2. ASSUME NEW i \in 1..Len(t) PROVE IsLatin(t[i]) <=> t[i] \in Latin
  BY <1>1 DEF Latin
<1>3. ASSUME NEW a \in 1..Len(t), NEW b \in 1..Len(t), a <= b
      PROVE  IsRun(t, a, b, Latin) <=>
               /\ \A i \in a..b : IsLatin(t[i])
               /\ a = 1 \/ ~IsLatin(t[a - 1])
               /\ b = Len(t) \/ ~IsLatin(t[b + 1])
  <2>1. /\ \A i \in a..b : i \in 1..Len(t)
        /\ a = 1 \/ a - 1 \in 1..Len(t)
        /\ b = Len(t) \/ b + 1 \in 1..Len(t)
    BY <1>1, <1>3, Within
  <2> QED BY <1>2, <1>3, <2>1 DEF IsRun
<1> DEFINE W == { p \in (DOMAIN t) \X (DOMAIN t) :
                    /\ p[1] <= p[2]
                    /\ \A i \in p[1]..p[2] : IsLatin(t[i])
                    /\ p[1] = 1 \/ ~IsLatin(t[p[1] - 1])
                    /\ p[2] = Len(t) \/ ~IsLatin(t[p[2] + 1]) }
<1>4. Runs(t, IsLatin) = { SubSeq(t, p[1], p[2]) : p \in W }
  BY DEF Runs
<1>5. \A p : p \in W <=> p \in (1..Len(t)) \X (1..Len(t)) /\ IsRun(t, p[1], p[2], Latin)
  <2>1. ASSUME NEW p \in W PROVE p \in (1..Len(t)) \X (1..Len(t)) /\ IsRun(t, p[1], p[2], Latin)
    BY <1>1, <1>3
  <2>2. ASSUME NEW p \in (1..Len(t)) \X (1..Len(t)), IsRun(t, p[1], p[2], Latin) PROVE p \in W
    <3>1. p[1] \in 1..Len(t) /\ p[2] \in 1..Len(t) /\ p[1] <= p[2]
      BY <2>2 DEF IsRun
    <3> QED BY <1>1, <1>3, <2>2, <3>1
  <2> QED BY <2>1, <2>2
<1> HIDE DEF W
<1>6. ASSUME r \in Runs(t, IsLatin)
      PROVE  \E a, b \in Nat : IsRun(t, a, b, Latin) /\ r = SubSeq(t, a, b)
  <2>1. PICK p \in W : r = SubSeq(t, p[1], p[2])
    BY <1>4, <1>6
  <2>2. p[1] \in Nat /\ p[2] \in Nat /\ IsRun(t, p[1], p[2], Latin)
    BY <1>1, <1>5, <2>1
  <2> QED BY <2>1, <2>2
<1>7. ASSUME NEW a \in Nat, NEW b \in Nat, IsRun(t, a, b, Latin), r = SubSeq(t, a, b)
      PROVE  r \in Runs(t, IsLatin)
  <2>1. PICK p : p = <<a, b>>
    OBVIOUS
  <2>2. p[1] = a /\ p[2] = b /\ p \in (1..Len(t)) \X (1..Len(t))
    BY <1>7, <2>1 DEF IsRun
  <2>3. p \in W
    BY <1>5, <1>7, <2>2
  <2> QED BY <1>4, <1>7, <2>2, <2>3
<1> QED BY <1>6, <1>7

\* A run of a title and a run of a body are runs of the text that is indexed.
Whole(u, v) == u \o <<0>> \o v

LEMMA WholeFacts ==
    ASSUME NEW u \in Text, NEW v \in Text
    PROVE  /\ Whole(u, v) \in Text /\ Len(Whole(u, v)) = Len(u) + 1 + Len(v)
           /\ \A i \in 1..Len(u) : Whole(u, v)[i] = u[i]
           /\ Whole(u, v)[Len(u) + 1] = 0
           /\ \A i \in 1..Len(v) : Whole(u, v)[Len(u) + 1 + i] = v[i]
<1>1. PICK w \in Text : w = u \o <<0>>
  <2>1. u \o <<0>> \in Text
    BY DEF Text
  <2> QED BY <2>1
<1>2. Len(w) = Len(u) + 1 /\ w[Len(u) + 1] = 0 /\ \A i \in 1..Len(u) : w[i] = u[i]
  BY <1>1 DEF Text
<1>3. PICK x \in Text : x = w \o v
  <2>1. w \o v \in Text
    BY DEF Text
  <2> QED BY <2>1
<1>4. /\ Len(x) = Len(w) + Len(v) /\ \A i \in 1..Len(w) : x[i] = w[i]
      /\ \A i \in 1..Len(v) : x[Len(w) + i] = v[i]
  BY <1>3 DEF Text
<1>5. Len(u) \in Nat /\ Len(v) \in Nat
  BY TextFacts
<1>6. \A i \in 1..Len(u) : x[i] = u[i]
  BY <1>2, <1>4, <1>5
<1>7. x[Len(u) + 1] = 0
  BY <1>2, <1>4, <1>5
<1>8. Whole(u, v) = x
  BY <1>1, <1>3 DEF Whole
<1> QED BY <1>2, <1>3, <1>4, <1>6, <1>7, <1>8

\* The separator is no character of K.
Parts(K) == 0 \notin K

HasRun(t, K, r) == \E a, b \in Nat : IsRun(t, a, b, K) /\ r = SubSeq(t, a, b)

LEMMA TitleRun ==
    ASSUME NEW u \in Text, NEW v \in Text, NEW K, Parts(K),
           NEW a \in Nat, NEW b \in Nat, IsRun(u, a, b, K)
    PROVE  HasRun(Whole(u, v), K, SubSeq(u, a, b))
<1>0. 0 \notin K
  BY DEF Parts
<1>1. PICK w \in Text : w = Whole(u, v)
  BY WholeFacts
<1>2. PICK m \in Nat, n \in Nat : m = Len(u) /\ n = Len(v)
  BY TextFacts
<1>3. /\ Len(w) = m + 1 + n /\ w[m + 1] = 0 /\ \A i \in 1..m : w[i] = u[i]
  BY <1>1, <1>2, WholeFacts, ZenonT(40)
<1>4. /\ a \in 1..m /\ b \in 1..m /\ a <= b
      /\ \A i \in a..b : u[i] \in K
      /\ a = 1 \/ u[a - 1] \notin K
      /\ b = m \/ u[b + 1] \notin K
  BY <1>2 DEF IsRun
<1>5. /\ \A i \in a..b : i \in 1..m
      /\ a = 1 \/ a - 1 \in 1..m
      /\ b = m \/ b + 1 \in 1..m
  BY <1>4, Within
<1>6. \A i \in a..b : w[i] \in K
  BY <1>3, <1>4, <1>5
<1>7. a = 1 \/ w[a - 1] \notin K
  BY <1>3, <1>4, <1>5
<1>8. w[b + 1] \notin K
  BY <1>0, <1>3, <1>4, <1>5
<1>9. a \in 1..Len(w) /\ b \in 1..Len(w)
  BY <1>3, <1>4
<1>10. IsRun(w, a, b, K)
  BY <1>4, <1>6, <1>7, <1>8, <1>9 DEF IsRun
<1>11. SubSeq(w, a, b) = SubSeq(u, a, b)
  <2>1. /\ SubSeq(u, a, b) \in Text /\ Len(SubSeq(u, a, b)) = b - a + 1
        /\ \A i \in 1..(b - a + 1) : SubSeq(u, a, b)[i] = u[a + i - 1]
    BY <1>2, <1>4, Stretch
  <2>2. /\ SubSeq(w, a, b) \in Text /\ Len(SubSeq(w, a, b)) = b - a + 1
        /\ \A i \in 1..(b - a + 1) : SubSeq(w, a, b)[i] = w[a + i - 1]
    BY <1>4, <1>9, Stretch
  <2>3. \A i \in 1..(b - a + 1) : a + i - 1 \in 1..m
    BY <1>4
  <2>4. \A i \in 1..(b - a + 1) : SubSeq(w, a, b)[i] = SubSeq(u, a, b)[i]
    BY <1>3, <2>1, <2>2, <2>3
  <2> QED BY <2>1, <2>2, <2>4, SameText
<1> QED BY <1>1, <1>10, <1>11 DEF HasRun

LEMMA BodyRun ==
    ASSUME NEW u \in Text, NEW v \in Text, NEW K, Parts(K),
           NEW a \in Nat, NEW b \in Nat, IsRun(v, a, b, K)
    PROVE  HasRun(Whole(u, v), K, SubSeq(v, a, b))
<1>0. 0 \notin K
  BY DEF Parts
<1>1. PICK w \in Text : w = Whole(u, v)
  BY WholeFacts
<1>2. PICK m \in Nat, n \in Nat : m = Len(u) /\ n = Len(v)
  BY TextFacts
<1>3. /\ Len(w) = m + 1 + n /\ w[m + 1] = 0 /\ \A i \in 1..n : w[m + 1 + i] = v[i]
  BY <1>1, <1>2, WholeFacts, ZenonT(40)
<1>4. /\ a \in 1..n /\ b \in 1..n /\ a <= b
      /\ \A i \in a..b : v[i] \in K
      /\ a = 1 \/ v[a - 1] \notin K
      /\ b = n \/ v[b + 1] \notin K
  BY <1>2 DEF IsRun
<1>5. /\ \A i \in a..b : i \in 1..n
      /\ a = 1 \/ a - 1 \in 1..n
      /\ b = n \/ b + 1 \in 1..n
  BY <1>4, Within
<1>6. PICK c \in Nat, d \in Nat : c = m + 1 + a /\ d = m + 1 + b
  BY <1>4
<1>7. ASSUME NEW i \in c..d PROVE w[i] \in K
  <2>1. PICK j \in a..b : i = m + 1 + j
    <3>1. i - (m + 1) \in a..b /\ i = m + 1 + (i - (m + 1))
      BY <1>4, <1>6
    <3> QED BY <3>1
  <2>2. w[i] = v[j]
    BY <1>3, <1>5, <2>1
  <2> QED BY <1>4, <2>2
<1>8. w[c - 1] \notin K
  <2>1. CASE a = 1
    BY <1>0, <1>3, <1>6, <2>1
  <2>2. CASE a # 1
    <3>1. a - 1 \in 1..n /\ c - 1 = m + 1 + (a - 1)
      BY <1>4, <1>5, <1>6, <2>2
    <3> QED BY <1>3, <1>4, <2>2, <3>1
  <2> QED BY <2>1, <2>2
<1>9. d = Len(w) \/ w[d + 1] \notin K
  <2>1. CASE b = n
    BY <1>3, <1>6, <2>1
  <2>2. CASE b # n
    <3>1. b + 1 \in 1..n /\ d + 1 = m + 1 + (b + 1)
      BY <1>4, <1>5, <1>6, <2>2
    <3> QED BY <1>3, <1>4, <2>2, <3>1
  <2> QED BY <2>1, <2>2
<1>10. c \in 1..Len(w) /\ d \in 1..Len(w) /\ c <= d /\ d - c + 1 = b - a + 1
  BY <1>3, <1>4, <1>6
<1>11. IsRun(w, c, d, K)
  BY <1>7, <1>8, <1>9, <1>10 DEF IsRun
<1>12. SubSeq(w, c, d) = SubSeq(v, a, b)
  <2>1. /\ SubSeq(v, a, b) \in Text /\ Len(SubSeq(v, a, b)) = b - a + 1
        /\ \A i \in 1..(b - a + 1) : SubSeq(v, a, b)[i] = v[a + i - 1]
    BY <1>2, <1>4, Stretch
  <2>2. /\ SubSeq(w, c, d) \in Text /\ Len(SubSeq(w, c, d)) = b - a + 1
        /\ \A i \in 1..(b - a + 1) : SubSeq(w, c, d)[i] = w[c + i - 1]
    BY <1>10, Stretch, SMTT(30)
  <2>3. ASSUME NEW i \in 1..(b - a + 1) PROVE SubSeq(w, c, d)[i] = SubSeq(v, a, b)[i]
    <3>1. a + i - 1 \in 1..n /\ c + i - 1 = m + 1 + (a + i - 1)
      BY <1>4, <1>6
    <3> QED BY <1>3, <2>1, <2>2, <3>1
  <2> QED BY <2>1, <2>2, <2>3, SameText
<1> QED BY <1>1, <1>6, <1>11, <1>12 DEF HasRun

LEMMA KindsApart ==
    ASSUME NEW c
    PROVE  ~(c \in Latin /\ c \in Cjk)
<1> SUFFICES ASSUME c \in Latin, c \in Cjk PROVE FALSE
  OBVIOUS
<1>1. c \in Nat /\ IsLatin(c) /\ IsCjk(c)
  BY DEF Latin, Cjk
<1> QED BY <1>1 DEF IsLatin, IsCjk

\* A text of characters of one kind is a run of its own, and the only one.
LEMMA OneRun ==
    ASSUME NEW s \in Text, NEW K, \A i \in 1..Len(s) : s[i] \in K,
           NEW a \in Nat, NEW b \in Nat
    PROVE  IsRun(s, a, b, K) <=> a = 1 /\ b = Len(s) /\ Len(s) >= 1
<1>1. PICK m \in Nat : m = Len(s)
  BY TextFacts
<1>2. ASSUME IsRun(s, a, b, K) PROVE a = 1 /\ b = Len(s) /\ Len(s) >= 1
  <2>1. /\ a \in 1..m /\ b \in 1..m /\ a <= b
        /\ a = 1 \/ s[a - 1] \notin K
        /\ b = m \/ s[b + 1] \notin K
    BY <1>1, <1>2 DEF IsRun
  <2>2. /\ a = 1 \/ a - 1 \in 1..m
        /\ b = m \/ b + 1 \in 1..m
    BY <2>1, Within
  <2> QED BY <1>1, <2>1, <2>2
<1>3. ASSUME a = 1, b = Len(s), Len(s) >= 1 PROVE IsRun(s, a, b, K)
  BY <1>1, <1>3 DEF IsRun
<1> QED BY <1>2, <1>3

LEMMA WholeStretch ==
    ASSUME NEW s \in Text, Len(s) >= 1
    PROVE  SubSeq(s, 1, Len(s)) = s
<1>1. PICK m \in Nat : m = Len(s) /\ m >= 1
  BY TextFacts
<1>2. /\ SubSeq(s, 1, m) \in Text /\ Len(SubSeq(s, 1, m)) = m - 1 + 1
      /\ \A i \in 1..(m - 1 + 1) : SubSeq(s, 1, m)[i] = s[1 + i - 1]
  BY <1>1, Stretch
<1>3. PICK x \in Text : x = SubSeq(s, 1, m)
  BY <1>2
<1>4. Len(x) = m
  BY <1>2, <1>3
<1>5. ASSUME NEW i \in 1..m PROVE x[i] = s[i]
  <2>1. i \in 1..(m - 1 + 1) /\ 1 + i - 1 = i
    OBVIOUS
  <2> QED BY <1>2, <1>3, <2>1
<1>6. x = s
  BY <1>1, <1>4, <1>5, SameText
<1> QED BY <1>1, <1>3, <1>6

\* The tokens of a phrase of two or more CJK characters are its pairs,
LEMMA CjkPhrase ==
    ASSUME NEW s \in Text, Len(s) >= 2, \A i \in 1..Len(s) : s[i] \in Cjk
    PROVE  Tokenize(s) = Pairs(s)
<1>1. Len(s) \in Nat /\ Len(s) >= 1
  BY TextFacts
<1>2. \A r : r \in Runs(s, IsCjk) <=> r = s
  <2>1. ASSUME NEW r \in Runs(s, IsCjk) PROVE r = s
    <3>1. PICK a \in Nat, b \in Nat : IsRun(s, a, b, Cjk) /\ r = SubSeq(s, a, b)
      BY CjkRuns
    <3>2. a = 1 /\ b = Len(s)
      BY <3>1, OneRun
    <3> QED BY <1>1, <3>1, <3>2, WholeStretch
  <2>2. s \in Runs(s, IsCjk)
    <3>1. IsRun(s, 1, Len(s), Cjk)
      BY <1>1, OneRun
    <3>2. s = SubSeq(s, 1, Len(s))
      BY <1>1, WholeStretch
    <3> QED BY <1>1, <3>1, <3>2, CjkRuns
  <2> QED BY <2>1, <2>2
<1>3. Runs(s, IsLatin) = {}
  <2> SUFFICES ASSUME NEW r \in Runs(s, IsLatin) PROVE FALSE
    OBVIOUS
  <2>1. PICK a \in Nat, b \in Nat : IsRun(s, a, b, Latin)
    BY LatinRuns
  <2>2. a \in 1..Len(s) /\ a \in a..b
    BY <2>1 DEF IsRun
  <2>3. s[a] \in Latin /\ s[a] \in Cjk
    BY <2>1, <2>2 DEF IsRun
  <2> QED BY <2>3, KindsApart
<1>4. Runs(s, IsCjk) = {s}
  BY <1>2
<1>5. Tokenize(s) = CjkTokens(s)
  BY <1>3, <1>4 DEF Tokenize
<1>6. Len(s) # 1
  BY <1>1
<1> QED BY <1>5, <1>6 DEF CjkTokens

\* and that of a Latin word the word in small letters.
LEMMA LatinPhrase ==
    ASSUME NEW s \in Text, Len(s) >= 1, \A i \in 1..Len(s) : s[i] \in Latin
    PROVE  Tokenize(s) = {Lower(s)}
<1>1. Len(s) \in Nat
  BY TextFacts
<1>2. \A r : r \in Runs(s, IsLatin) <=> r = s
  <2>1. ASSUME NEW r \in Runs(s, IsLatin) PROVE r = s
    <3>1. PICK a \in Nat, b \in Nat : IsRun(s, a, b, Latin) /\ r = SubSeq(s, a, b)
      BY LatinRuns
    <3>2. a = 1 /\ b = Len(s)
      BY <3>1, OneRun
    <3> QED BY <3>1, <3>2, WholeStretch
  <2>2. s \in Runs(s, IsLatin)
    <3>1. IsRun(s, 1, Len(s), Latin)
      BY <1>1, OneRun
    <3>2. s = SubSeq(s, 1, Len(s))
      BY WholeStretch
    <3> QED BY <1>1, <3>1, <3>2, LatinRuns
  <2> QED BY <2>1, <2>2
<1>3. Runs(s, IsCjk) = {}
  <2> SUFFICES ASSUME NEW r \in Runs(s, IsCjk) PROVE FALSE
    OBVIOUS
  <2>1. PICK a \in Nat, b \in Nat : IsRun(s, a, b, Cjk)
    BY CjkRuns
  <2>2. a \in 1..Len(s) /\ a \in a..b
    BY <2>1 DEF IsRun
  <2>3. s[a] \in Latin /\ s[a] \in Cjk
    BY <2>1, <2>2 DEF IsRun
  <2> QED BY <2>3, KindsApart
<1>4. Runs(s, IsLatin) = {s}
  BY <1>2
<1> QED BY <1>3, <1>4 DEF Tokenize

LEMMA LowerWord ==
    ASSUME NEW s \in Text, \A i \in 1..Len(s) : s[i] \in Latin
    PROVE  /\ Lower(s) \in Text /\ Len(Lower(s)) = Len(s)
           /\ \A i \in 1..Len(s) : Lower(s)[i] \in Latin
           /\ Lower(Lower(s)) = Lower(s)
<1>1. PICK m \in Nat : m = Len(s) /\ DOMAIN s = 1..m
  BY TextFacts
<1>2. \A i \in 1..m : s[i] \in Nat /\ s[i] \in 1..19
  BY <1>1 DEF Latin, IsLatin
<1>3. Lower(s) = [i \in 1..m |-> IF s[i] \in 1..9 THEN s[i] + 10 ELSE s[i]]
  BY <1>1 DEF Lower
<1>4. PICK l : l = Lower(s)
  OBVIOUS
<1>5. DOMAIN l = 1..m
  BY <1>3, <1>4
<1>6. ASSUME NEW i \in 1..m PROVE l[i] \in Nat /\ l[i] \in 1..19 /\ l[i] \notin 1..9
  <2>1. PICK c \in Nat : c = s[i] /\ c \in 1..19
    BY <1>2
  <2>2. l[i] = IF c \in 1..9 THEN c + 10 ELSE c
    BY <1>3, <1>4, <2>1
  <2>3. CASE c \in 1..9
    BY <2>2, <2>3
  <2>4. CASE c \notin 1..9
    BY <2>1, <2>2, <2>4
  <2> QED BY <2>3, <2>4
<1>7. l = [i \in 1..m |-> l[i]]
  BY <1>3, <1>4
<1>8. l \in Text /\ Len(l) = m
  BY <1>6, <1>7 DEF Text
<1>9. Lower(l) = l
  <2>1. Lower(l) = [i \in 1..m |-> IF l[i] \in 1..9 THEN l[i] + 10 ELSE l[i]]
    BY <1>5 DEF Lower
  <2> QED BY <1>6, <1>7, <2>1
<1>10. \A i \in 1..m : l[i] \in Latin
  BY <1>6 DEF Latin, IsLatin
<1> QED BY <1>1, <1>4, <1>8, <1>9, <1>10

\* Either's runs are among those of the text that is indexed.
LEMMA RunsOfFact ==
    ASSUME NEW u \in Text, NEW v \in Text, NEW t \in {u, v}, NEW K, Parts(K),
           NEW r, HasRun(t, K, r)
    PROVE  HasRun(Whole(u, v), K, r)
<1>0. PICK a \in Nat, b \in Nat : IsRun(t, a, b, K) /\ r = SubSeq(t, a, b)
  BY DEF HasRun
<1>1. CASE t = u
  BY <1>0, <1>1, TitleRun
<1>2. CASE t = v
  BY <1>0, <1>2, BodyRun
<1> QED BY <1>1, <1>2

LEMMA ToksOfFact ==
    ASSUME NEW f \in Facts, NEW t \in {f.title, f.body}
    PROVE  /\ t \in Text
           /\ \A r \in Runs(t, IsCjk) : CjkTokens(r) \subseteq Toks(f)
           /\ \A r \in Runs(t, IsLatin) : Lower(r) \in Toks(f)
<1>1. t \in Text /\ Whole(f.title, f.body) \in Text
  BY FactFacts, WholeFacts
<1>2. PICK u \in Text, v \in Text, w \in Text : u = f.title /\ v = f.body /\ w = Whole(u, v)
  BY <1>1, FactFacts
<1>3. Toks(f) = Tokenize(w)
  BY <1>2 DEF Toks, Whole
<1>4. /\ Parts(Cjk) /\ Parts(Latin)
      /\ t \in {u, v}
  BY <1>2 DEF Parts, Cjk, Latin, IsCjk, IsLatin
<1>5. ASSUME NEW r \in Runs(t, IsCjk) PROVE CjkTokens(r) \subseteq Toks(f)
  <2>1. HasRun(t, Cjk, r)
    BY <1>1, CjkRuns DEF HasRun
  <2>2. HasRun(Whole(u, v), Cjk, r)
    BY <1>4, <2>1, RunsOfFact
  <2>3. r \in Runs(w, IsCjk)
    BY <1>2, <2>2, CjkRuns DEF HasRun
  <2> QED BY <1>3, <2>3 DEF Tokenize
<1>6. ASSUME NEW r \in Runs(t, IsLatin) PROVE Lower(r) \in Toks(f)
  <2>1. HasRun(t, Latin, r)
    BY <1>1, LatinRuns DEF HasRun
  <2>2. HasRun(Whole(u, v), Latin, r)
    BY <1>4, <2>1, RunsOfFact
  <2>3. r \in Runs(w, IsLatin)
    BY <1>2, <2>2, LatinRuns DEF HasRun
  <2> QED BY <1>3, <2>3 DEF Tokenize
<1> QED BY <1>1, <1>5, <1>6

\* A run is a text of its characters, and not empty.
LEMMA RunIsText ==
    ASSUME NEW t \in Text, NEW K, NEW a \in Nat, NEW b \in Nat, IsRun(t, a, b, K)
    PROVE  /\ SubSeq(t, a, b) \in Text /\ Len(SubSeq(t, a, b)) >= 1
           /\ \A i \in 1..Len(SubSeq(t, a, b)) : SubSeq(t, a, b)[i] \in K
<1>1. PICK m \in Nat : m = Len(t)
  BY TextFacts
<1>2. /\ a \in 1..m /\ b \in 1..m /\ a <= b /\ \A i \in a..b : t[i] \in K
  BY <1>1 DEF IsRun
<1>3. /\ SubSeq(t, a, b) \in Text /\ Len(SubSeq(t, a, b)) = b - a + 1
      /\ \A i \in 1..(b - a + 1) : SubSeq(t, a, b)[i] = t[a + i - 1]
  BY <1>1, <1>2, Stretch
<1>4. \A i \in 1..(b - a + 1) : a + i - 1 \in a..b
  BY <1>2
<1> QED BY <1>2, <1>3, <1>4

\* A phrase inside a phrase has its pairs from it.
LEMMA PairsInside ==
    ASSUME NEW r \in Text, NEW i \in 1..Len(r), NEW j \in 1..Len(r), i < j
    PROVE  /\ Pairs(SubSeq(r, i, j)) \subseteq Pairs(r)
           /\ Pairs(SubSeq(r, i, j)) # {}
<1>1. PICK m \in Nat : m = Len(r)
  BY TextFacts
<1>2. PICK s \in Text : s = SubSeq(r, i, j) /\ Len(s) = j - i + 1
                        /\ \A k \in 1..(j - i + 1) : s[k] = r[i + k - 1]
  <2>1. i <= j
    BY <1>1
  <2> QED BY <2>1, Stretch
<1>3. ASSUME NEW k \in 1..(Len(s) - 1)
      PROVE  SubSeq(s, k, k + 1) = SubSeq(r, i + k - 1, i + k - 1 + 1)
             /\ i + k - 1 \in 1..(m - 1)
  <2>1. k \in 1..(j - i) /\ k \in 1..Len(s) /\ k + 1 \in 1..Len(s) /\ k <= k + 1
    BY <1>1, <1>2
  <2>2. PICK l \in Nat : l = i + k - 1 /\ l \in 1..(m - 1)
    BY <1>1, <2>1
  <2>3. l \in 1..Len(r) /\ l + 1 \in 1..Len(r) /\ l <= l + 1
    BY <1>1, <2>2
  <2>4. PICK x \in Text : x = SubSeq(s, k, k + 1) /\ Len(x) = 2
                          /\ \A n \in 1..2 : x[n] = s[k + n - 1]
    <3>1. k + 1 - k + 1 = 2
      BY <2>1
    <3>2. /\ SubSeq(s, k, k + 1) \in Text /\ Len(SubSeq(s, k, k + 1)) = k + 1 - k + 1
          /\ \A n \in 1..(k + 1 - k + 1) : SubSeq(s, k, k + 1)[n] = s[k + n - 1]
      BY <2>1, Stretch
    <3> QED BY <3>1, <3>2, Zenon
  <2>5. PICK y \in Text : y = SubSeq(r, l, l + 1) /\ Len(y) = 2
                          /\ \A n \in 1..2 : y[n] = r[l + n - 1]
    <3>1. l + 1 - l + 1 = 2
      BY <2>2
    <3>2. /\ SubSeq(r, l, l + 1) \in Text /\ Len(SubSeq(r, l, l + 1)) = l + 1 - l + 1
          /\ \A n \in 1..(l + 1 - l + 1) : SubSeq(r, l, l + 1)[n] = r[l + n - 1]
      BY <2>3, Stretch
    <3> QED BY <3>1, <3>2, Zenon
  <2>6. ASSUME NEW n \in 1..2 PROVE x[n] = y[n]
    <3>1. k + n - 1 \in 1..(j - i + 1) /\ i + (k + n - 1) - 1 = l + n - 1
      BY <1>1, <2>1, <2>2
    <3>2. s[k + n - 1] = r[l + n - 1]
      BY <1>2, <3>1
    <3> QED BY <2>4, <2>5, <3>2
  <2>7. x = y
    BY <2>4, <2>5, <2>6, SameText, SMTT(30)
  <2> QED BY <2>2, <2>4, <2>5, <2>7
<1>4. Pairs(s) \subseteq Pairs(r)
  BY <1>1, <1>3 DEF Pairs
<1>5. 1 \in 1..(Len(s) - 1)
  BY <1>1, <1>2
<1>6. Pairs(s) # {}
  BY <1>5 DEF Pairs
<1> QED BY <1>2, <1>4, <1>6

\* Every stretch of two or more CJK characters of a stored text, and every
\* Latin word whatever its case, finds the fact it stands in.
THEOREM PhrasesFindFacts == RecallSpec => []PhrasesAreFound
<1>1. IndexInv => PhrasesAreFound
  <2> SUFFICES ASSUME IndexInv, built, NEW id \in DOMAIN store,
                      NEW t \in {store[id].title, store[id].body}
               PROVE  /\ \A r \in Runs(t, IsCjk) : \A i, j \in DOMAIN r :
                            i < j => id \in Search(SubSeq(r, i, j))
                      /\ \A r \in Runs(t, IsLatin) : id \in Search(r) /\ id \in Search(Lower(r))
    BY DEF PhrasesAreFound
  <2>1. PICK f \in Facts : f = store[id]
    BY DEF IndexInv, StoreFits
  <2>2. t \in Text
    BY <2>1, ToksOfFact
  <2>3. \A q : id \in Search(q) <=> Blank(q) \/ (Tokenize(q) # {} /\ Tokenize(q) \subseteq Toks(f))
    BY <2>1, StoredFacts DEF Found
  <2>4. ASSUME NEW r \in Runs(t, IsCjk), NEW i \in DOMAIN r, NEW j \in DOMAIN r, i < j
        PROVE  id \in Search(SubSeq(r, i, j))
    <3>1. PICK a \in Nat, b \in Nat : IsRun(t, a, b, Cjk) /\ r = SubSeq(t, a, b)
      BY <2>2, CjkRuns
    <3>2. r \in Text /\ \A n \in 1..Len(r) : r[n] \in Cjk
      BY <2>2, <3>1, RunIsText
    <3>3. PICK m \in Nat : m = Len(r) /\ DOMAIN r = 1..m
      BY <3>2, TextFacts
    <3>4. i \in 1..m /\ j \in 1..m /\ i <= j /\ m # 1
      BY <2>4, <3>3
    <3>5. PICK s \in Text : s = SubSeq(r, i, j) /\ Len(s) = j - i + 1
                            /\ \A k \in 1..(j - i + 1) : s[k] = r[i + k - 1]
      BY <3>2, <3>3, <3>4, Stretch
    <3>6. Len(s) >= 2 /\ \A k \in 1..Len(s) : s[k] \in Cjk
      <4>1. \A k \in 1..(j - i + 1) : i + k - 1 \in 1..m
        BY <3>4
      <4>2. Len(s) >= 2
        BY <2>4, <3>4, <3>5
      <4> QED BY <3>2, <3>3, <3>5, <4>1, <4>2
    <3>7. Tokenize(s) = Pairs(s)
      BY <3>6, CjkPhrase
    <3>8. Pairs(s) \subseteq Pairs(r) /\ Pairs(s) # {}
      BY <2>4, <3>2, <3>3, <3>4, <3>5, PairsInside
    <3>9. CjkTokens(r) = Pairs(r)
      BY <3>3, <3>4 DEF CjkTokens
    <3>10. CjkTokens(r) \subseteq Toks(f)
      BY <2>1, ToksOfFact
    <3>11. Tokenize(s) # {} /\ Tokenize(s) \subseteq Toks(f)
      BY <3>7, <3>8, <3>9, <3>10
    <3> QED BY <2>3, <3>5, <3>11
  <2>5. ASSUME NEW r \in Runs(t, IsLatin) PROVE id \in Search(r) /\ id \in Search(Lower(r))
    <3>1. PICK a \in Nat, b \in Nat : IsRun(t, a, b, Latin) /\ r = SubSeq(t, a, b)
      BY <2>2, LatinRuns
    <3>2. r \in Text /\ Len(r) >= 1 /\ \A n \in 1..Len(r) : r[n] \in Latin
      BY <2>2, <3>1, RunIsText
    <3>3. Lower(r) \in Toks(f)
      BY <2>1, ToksOfFact
    <3>4. Tokenize(r) = {Lower(r)}
      BY <3>2, LatinPhrase
    <3>5. /\ Lower(r) \in Text /\ Len(Lower(r)) >= 1
          /\ \A n \in 1..Len(Lower(r)) : Lower(r)[n] \in Latin
          /\ Lower(Lower(r)) = Lower(r)
      BY <3>2, LowerWord
    <3>6. Tokenize(Lower(r)) = {Lower(r)}
      BY <3>5, LatinPhrase
    <3> QED BY <2>3, <3>3, <3>4, <3>6
  <2> QED BY <2>4, <2>5
<1> QED BY <1>1, IndexAlways, PTL

=============================================================================
