--------------------------- MODULE IngestionProofs ---------------------------
(***************************************************************************)
(* Theorems of Ingestion, for any number of sources, runners, failures and *)
(* relocks: an item is collected once, the cursor covers only what was     *)
(* marked, and nothing the seen-set holds back is lost.                    *)
(***************************************************************************)
EXTENDS Ingestion, FiniteSetTheorems, TLAPS

-----------------------------------------------------------------------------
(* The inductive invariant.                                                *)

\* The run of a source holds its run-lock from try_lock to the end.
Locked(t) ==
    /\ t.targets # <<>>
    /\ t.step \in {"load", "sync", "seen", "mark", "process", "route", "push", "save"}

\* What a call has at which step.
TaskFits(t) ==
    /\ t.step \in {"lock", "load", "sync", "seen", "mark", "save"} => t.targets # <<>>
    /\ t.step \in {"list", "drain", "erase"} => t.targets = <<>>
    /\ t.step \in {"seen", "mark", "drain", "erase"} => t.batch # <<>>
    /\ t.step \in {"process", "route", "push"} => t.fresh # <<>>
    /\ t.step \in {"idle", "lock", "load", "sync", "save", "list"} => t.fresh = <<>>
    /\ t.step \in {"seen", "mark"} =>
         \A k \in DOMAIN t.batch : t.batch[k][1] = Head(t.targets)
    /\ t.step = "route" => t.left # 0

TasksFit ==
    \A p \in Runners :
        /\ TaskFits(task[p])
        /\ task[p].home <= session
        /\ task[p].step \in {"list", "drain", "erase"} => p \in Resumers

\* Two runs of one service set are never at the same source.
Exclusive ==
    /\ \A p \in Runners : Locked(task[p]) => Head(task[p].targets) \in running[task[p].home]
    /\ \A p, q \in Runners :
         /\ Locked(task[p]) /\ Locked(task[q])
         /\ task[p].home = task[q].home
         /\ Head(task[p].targets) = Head(task[q].targets)
         => p = q

Marked(marks, s, upto) == \A n \in 1..upto : marks[<<s, n>>] # "none"

\* What a pass will say it covers is marked, or still to be checked.
PassCovers(t, marks) ==
    /\ Locked(t) /\ t.step = "sync" => Marked(marks, Head(t.targets), t.from)
    /\ Locked(t) /\ t.step \in {"seen", "mark"} =>
         \A n \in 1..t.upto : \/ marks[<<Head(t.targets), n>>] # "none"
                              \/ <<Head(t.targets), n>> \in ToSet(t.batch)
    /\ Locked(t) /\ t.step \in {"process", "route", "push", "save"} =>
         Marked(marks, Head(t.targets), t.upto)

Covers == CursorCoversSeen /\ \A p \in Runners : PassCovers(task[p], seen)

\* While there is one service set, an item that is about to be marked was not before.
Once ==
    session = 1 =>
        /\ \A i \in Items : collected[i] = IF seen[i] = "whole" THEN 1 ELSE 0
        /\ \A p \in Runners : task[p].step = "mark" => seen[Head(task[p].batch)] = "none"

\* What a resumption has listed is still parked, and what it is about to erase it has.
Draining(t, parked) ==
    /\ t.step \in {"drain", "erase"} =>
         /\ IsInjective(t.batch)
         /\ \A k \in 2..Len(t.batch) : parked[t.batch[k]] # "none"
    /\ t.step = "drain" => parked[Head(t.batch)] # "none"
    /\ t.step = "erase" => Head(t.batch) \in ToSet(t.fresh)

Unfailing ==
    /\ \A s \in Sources : cursor[s] # Torn
    /\ \A i \in Items : seen[i] # "torn" /\ pending[i] # "torn"

Kept == faults = 0 => NothingLost /\ Unfailing /\ \A p \in Runners : Draining(task[p], pending)

OneResumer == \A p, q \in Resumers : p = q

IInv == TypeOK /\ TasksFit /\ Exclusive /\ Covers /\ Once /\ (OneResumer => Kept)

-----------------------------------------------------------------------------
(* What the steps have in common.                                          *)

LEMMA Numbers ==
    /\ MaxPasses \in Nat \ {0} /\ Batch \in Nat \ {0} /\ MaxItems \in Nat /\ MaxRelocks \in Nat
    /\ 1 \in Sessions
<1> MaxPasses \in Nat \ {0} /\ Batch \in Nat \ {0} /\ MaxItems \in Nat /\ MaxRelocks \in Nat
  BY IngestionAssumption DEF IngestionAssumption
<1> QED BY DEF Sessions

\* The first of a sequence and the rest of it.
LEMMA HeadAndTail ==
    ASSUME NEW T, NEW s \in Seq(T), s # <<>>
    PROVE  /\ Head(s) \in T /\ Tail(s) \in Seq(T)
           /\ Head(s) = s[1] /\ Len(s) \in Nat \ {0} /\ Len(Tail(s)) = Len(s) - 1
           /\ \A k \in 1..Len(Tail(s)) : Tail(s)[k] = s[k + 1]
           /\ \A x \in ToSet(s) : x = Head(s) \/ x \in ToSet(Tail(s))
           /\ \A x \in ToSet(Tail(s)) : x \in ToSet(s)
<1>1. /\ Head(s) \in T /\ Tail(s) \in Seq(T)
      /\ Head(s) = s[1] /\ Len(s) \in Nat \ {0} /\ Len(Tail(s)) = Len(s) - 1
      /\ \A k \in 1..Len(Tail(s)) : Tail(s)[k] = s[k + 1]
  OBVIOUS
<1>2. DOMAIN s = 1..Len(s) /\ DOMAIN Tail(s) = 1..Len(Tail(s))
  BY <1>1
<1>3. ASSUME NEW x \in ToSet(s) PROVE x = Head(s) \/ x \in ToSet(Tail(s))
  <2> PICK k \in 1..Len(s) : s[k] = x
    BY <1>2 DEF ToSet
  <2>1. CASE k = 1
    BY <1>1, <2>1
  <2>2. CASE k # 1
    <3>1. k - 1 \in 1..Len(Tail(s)) /\ Tail(s)[k - 1] = x
      BY <1>1, <2>2
    <3> QED BY <1>2, <3>1 DEF ToSet
  <2> QED BY <2>1, <2>2
<1>4. ASSUME NEW x \in ToSet(Tail(s)) PROVE x \in ToSet(s)
  <2> PICK k \in 1..Len(Tail(s)) : Tail(s)[k] = x
    BY <1>2 DEF ToSet
  <2>1. k + 1 \in 1..Len(s) /\ s[k + 1] = x
    BY <1>1
  <2> QED BY <1>2, <2>1 DEF ToSet
<1> QED BY <1>1, <1>3, <1>4

LEMMA Appended ==
    ASSUME NEW T, NEW s \in Seq(T), NEW x \in T
    PROVE  /\ Append(s, x) \in Seq(T) /\ Append(s, x) # <<>>
           /\ x \in ToSet(Append(s, x))
           /\ \A y \in ToSet(s) : y \in ToSet(Append(s, x))
<1>1. /\ Append(s, x) \in Seq(T) /\ Len(Append(s, x)) = Len(s) + 1 /\ Len(s) \in Nat
      /\ Append(s, x)[Len(s) + 1] = x /\ \A k \in 1..Len(s) : Append(s, x)[k] = s[k]
      /\ DOMAIN Append(s, x) = 1..(Len(s) + 1) /\ DOMAIN s = 1..Len(s)
  OBVIOUS
<1>2. Append(s, x) # <<>>
  BY <1>1
<1> QED BY <1>1, <1>2 DEF ToSet

LEMMA ItemsAreFinite == IsFiniteSet(Items)
<1>1. SourceOrder \in Seq(Sources) /\ Len(SourceOrder) \in Nat
  BY IngestionAssumption DEF IngestionAssumption
<1>2. DOMAIN SourceOrder = 1..Len(SourceOrder)
  BY <1>1
<1>3. IsFiniteSet(1..Len(SourceOrder))
  BY <1>1, FS_Interval
<1>4. SourceOrder \in Surjection(1..Len(SourceOrder), Sources)
  BY <1>1, <1>2 DEF Surjection, Sources, ToSet
<1>5. IsFiniteSet(Sources)
  BY <1>3, <1>4, FS_Surjection
<1>6. IsFiniteSet(1..MaxItems)
  BY Numbers, FS_Interval
<1> QED BY <1>5, <1>6, FS_Product DEF Items

LEMMA IdleIs == /\ Idle \in Task /\ TaskFits(Idle) /\ ~Locked(Idle) /\ Idle.home = 1
                /\ Idle.step = "idle" /\ Idle.targets = <<>> /\ Idle.fresh = <<>>
<1>1. Idle \in Task
  BY Numbers DEF Idle, Task
<1>2. Idle.step = "idle" /\ Idle.targets = <<>> /\ Idle.fresh = <<>> /\ Idle.home = 1
  BY DEF Idle
<1> QED BY <1>1, <1>2 DEF TaskFits, Locked

LEMMA TaskIs ==
    ASSUME IInv, NEW p \in Runners
    PROVE  /\ task[p] \in Task /\ TaskFits(task[p])
           /\ task[p].home \in Sessions /\ task[p].home <= session
           /\ PassCovers(task[p], seen)
BY DEF IInv, TypeOK, TasksFit, Covers, Task

\* The task of one runner changes, the others keep theirs.
LEMMA OneTask ==
    ASSUME IInv, NEW p \in Runners, NEW t, Become(p, t)
    PROVE  task'[p] = t /\ \A q \in Runners : q # p => task'[q] = task[q]
BY DEF Become, IInv, TypeOK

LEMMA FitsMove ==
    ASSUME IInv, NEW p \in Runners, NEW t \in Task, Become(p, t), session' = session,
           TaskFits(t), t.home <= session,
           t.step \in {"list", "drain", "erase"} => p \in Resumers
    PROVE  task' \in [Runners -> Task] /\ TasksFit'
<1>1. task' \in [Runners -> Task]
  BY DEF Become, IInv, TypeOK
<1> QED BY <1>1, OneTask DEF IInv, TasksFit

\* The run-lock a call holds it held before.
LEMMA LocksStay ==
    ASSUME IInv, NEW p \in Runners, NEW t, Become(p, t), running' = running,
           Locked(t) => /\ Locked(task[p]) /\ t.home = task[p].home
                        /\ Head(t.targets) = Head(task[p].targets)
    PROVE  Exclusive'
BY OneTask DEF IInv, Exclusive

\* A call that ends its run gives up its run-lock, and no other one.
LEMMA LocksFreed ==
    ASSUME IInv, NEW p \in Runners, NEW t, Become(p, t), ~Locked(t), Locked(task[p]),
           running' = [running EXCEPT ![task[p].home] = @ \ {Head(task[p].targets)}]
    PROVE  Exclusive'
<1>1. task'[p] = t /\ \A q \in Runners : q # p => task'[q] = task[q]
  BY OneTask
<1>2. ASSUME NEW q \in Runners, Locked(task'[q])
      PROVE  q # p /\ Head(task'[q].targets) \in running'[task'[q].home]
  <2>1. q # p /\ task'[q] = task[q] /\ Locked(task[q])
    BY <1>1, <1>2
  <2>2. Head(task[q].targets) \in running[task[q].home]
    BY <2>1 DEF IInv, Exclusive
  <2>3. task[q].home = task[p].home => Head(task[q].targets) # Head(task[p].targets)
    BY <2>1 DEF IInv, Exclusive
  <2>4. running \in [Sessions -> SUBSET Sources] /\ task[q].home \in Sessions
    BY TaskIs DEF IInv, TypeOK
  <2> QED BY <2>1, <2>2, <2>3, <2>4
<1> QED BY <1>1, <1>2 DEF IInv, Exclusive

\* What is marked stays marked, so what the others cover they still cover.
LEMMA CoversMove ==
    ASSUME IInv, NEW p \in Runners, NEW t, Become(p, t),
           \A i \in Items : seen[i] # "none" => seen'[i] # "none",
           PassCovers(t, seen'), CursorCoversSeen'
    PROVE  Covers'
<1> SUFFICES ASSUME NEW q \in Runners PROVE PassCovers(task'[q], seen')
  BY DEF Covers
<1>1. CASE q = p
  BY <1>1, OneTask
<1>2. CASE q # p
  <2> DEFINE u == task[q]
             s == Head(u.targets)
  <2>1. task'[q] = u /\ u \in Task /\ TaskFits(u) /\ PassCovers(u, seen)
    BY <1>2, OneTask, TaskIs
  <2>2. Locked(u) => s \in Sources
    BY <2>1 DEF Locked, Task
  <2>3. u.from \in 0..MaxItems /\ u.upto \in 0..MaxItems
    BY <2>1 DEF Task
  <2> HIDE DEF s, u
  <2>4. ASSUME Locked(u), NEW n \in 1..MaxItems, seen[<<s, n>>] # "none"
        PROVE  seen'[<<s, n>>] # "none"
    <3>1. <<s, n>> \in Items
      BY <2>2, <2>4 DEF Items
    <3> QED BY <2>4, <3>1
  <2>5. (1..u.from) \cup (1..u.upto) \subseteq 1..MaxItems
    BY <2>3, Numbers
  <2>6. PassCovers(u, seen')
    BY <2>1, <2>4, <2>5 DEF PassCovers, Marked, s
  <2> QED BY <2>1, <2>6
<1> QED BY <1>1, <1>2

LEMMA CursorStays ==
    ASSUME IInv, cursor' = cursor, \A i \in Items : seen[i] # "none" => seen'[i] # "none"
    PROVE  CursorCoversSeen'
<1> SUFFICES ASSUME NEW s \in Sources, cursor[s] # Torn, NEW n \in 1..cursor[s]
             PROVE  seen'[<<s, n>>] # "none"
  BY DEF CursorCoversSeen
<1>1. cursor[s] \in 0..MaxItems /\ seen[<<s, n>>] # "none"
  BY DEF IInv, TypeOK, Covers, CursorCoversSeen
<1>2. <<s, n>> \in Items
  BY <1>1, Numbers DEF Items
<1> QED BY <1>1, <1>2

LEMMA OnceStays ==
    ASSUME IInv, NEW p \in Runners, NEW t, Become(p, t), UNCHANGED <<seen, collected, session>>,
           t.step = "mark" => seen[Head(t.batch)] = "none"
    PROVE  Once'
BY OneTask DEF IInv, Once

LEMMA KeptStays ==
    ASSUME IInv, NEW p \in Runners, NEW t, Become(p, t), UNCHANGED <<seen, pending, faults>>,
           (\A s \in Sources : cursor[s] # Torn) => (\A s \in Sources : cursor'[s] # Torn),
           done \subseteq done',
           \A i \in ToSet(task[p].fresh) : i \in ToSet(t.fresh) \/ i \in done' \/ pending[i] = "whole",
           OneResumer /\ faults = 0 => Draining(t, pending)
    PROVE  OneResumer => Kept'
<1> SUFFICES ASSUME OneResumer, faults = 0 PROVE Kept'
  BY DEF Kept
<1>1. Kept /\ seen' = seen /\ pending' = pending
  BY DEF IInv
<1>2. task'[p] = t /\ \A q \in Runners : q # p => task'[q] = task[q]
  BY OneTask
<1>3. NothingLost'
  <2> SUFFICES ASSUME NEW i \in Items, seen[i] = "whole"
               PROVE  i \in done' \/ pending[i] = "whole" \/ InHand(i)'
    BY <1>1 DEF NothingLost
  <2>1. i \in done \/ pending[i] = "whole" \/ InHand(i)
    BY <1>1 DEF Kept, NothingLost
  <2>2. ASSUME InHand(i) PROVE i \in done' \/ pending[i] = "whole" \/ InHand(i)'
    <3> PICK q \in Runners : i \in ToSet(task[q].fresh)
      BY <2>2 DEF InHand
    <3>1. CASE q = p
      BY <1>2, <3>1 DEF InHand
    <3>2. CASE q # p
      BY <1>2, <3>2 DEF InHand
    <3> QED BY <3>1, <3>2
  <2> QED BY <2>1, <2>2
<1>4. \A q \in Runners : Draining(task'[q], pending')
  BY <1>1, <1>2 DEF Kept
<1> QED BY <1>1, <1>3, <1>4 DEF Kept, Unfailing

\* A step that only moves one call on.
LEMMA QuietStep ==
    ASSUME IInv, NEW p \in Runners, NEW t \in Task, Become(p, t),
           UNCHANGED <<published, disk, locks, collected, faults>>,
           done \subseteq done', done' \subseteq Items, calls' \in Nat,
           TaskFits(t), t.home <= session,
           t.step \in {"list", "drain", "erase"} => p \in Resumers,
           Locked(t) => /\ Locked(task[p]) /\ t.home = task[p].home
                        /\ Head(t.targets) = Head(task[p].targets),
           PassCovers(t, seen),
           t.step = "mark" => seen[Head(t.batch)] = "none",
           \A i \in ToSet(task[p].fresh) : i \in ToSet(t.fresh) \/ i \in done' \/ pending[i] = "whole",
           OneResumer /\ faults = 0 => Draining(t, pending)
    PROVE  IInv'
<1> USE DEF disk, locks
<1>1. task' \in [Runners -> Task] /\ TasksFit'
  BY FitsMove
<1>2. Exclusive'
  BY LocksStay
<1>3. CursorCoversSeen' /\ Covers'
  BY CursorStays, CoversMove
<1>4. Once'
  BY OnceStays
<1>5. OneResumer => Kept'
  BY KeptStays
<1>6. TypeOK'
  BY <1>1 DEF IInv, TypeOK
<1> QED BY <1>1, <1>2, <1>3, <1>4, <1>5, <1>6 DEF IInv, OneResumer

LEMMA NothingInHand == ASSUME NEW s, s = <<>> PROVE ToSet(s) = {}
BY DEF ToSet

\* The next source of a call, or the end of it.
LEMMA NextTargetIs ==
    ASSUME NEW t \in Task, t.targets # <<>>
    PROVE  /\ NextTarget(t) \in Task /\ TaskFits(NextTarget(t)) /\ ~Locked(NextTarget(t))
           /\ NextTarget(t).step \in {"idle", "lock"} /\ NextTarget(t).fresh = <<>>
           /\ NextTarget(t).home \in {1, t.home}
<1>1. t.targets \in Seq(Sources) /\ t.home \in Sessions /\ t.all \in BOOLEAN
  BY DEF Task
<1>2. CASE Len(t.targets) = 1
  BY <1>2, IdleIs DEF NextTarget
<1>3. CASE Len(t.targets) # 1
  <2> DEFINE u == [Idle EXCEPT !.step = "lock", !.home = t.home, !.targets = Tail(t.targets),
                               !.all = t.all]
  <2>1. NextTarget(t) = u
    BY <1>3 DEF NextTarget
  <2>2. Tail(t.targets) \in Seq(Sources) /\ Tail(t.targets) # <<>>
    <3>1. /\ Tail(t.targets) \in Seq(Sources)
          /\ Len(t.targets) \in Nat \ {0} /\ Len(Tail(t.targets)) = Len(t.targets) - 1
      BY <1>1, HeadAndTail
    <3>2. Len(Tail(t.targets)) # 0
      BY <1>3, <3>1
    <3>3. ASSUME Tail(t.targets) = <<>> PROVE FALSE
      <4>1. Len(<<>>) = 0
        OBVIOUS
      <4> QED BY <3>2, <3>3, <4>1, Zenon
    <3> QED BY <3>1, <3>3
  <2>3. u \in Task
    BY <1>1, <2>2, IdleIs DEF Task
  <2>4. u.step = "lock" /\ u.targets # <<>> /\ u.fresh = <<>> /\ u.home = t.home
    BY <2>2 DEF Idle
  <2> HIDE DEF u
  <2>5. TaskFits(u) /\ ~Locked(u)
    BY <2>4 DEF TaskFits, Locked
  <2> QED BY <2>1, <2>3, <2>4, <2>5
<1> QED BY <1>2, <1>3

\* The end of a run, and of a resumption.
LEMMA Ends ==
    ASSUME IInv, NEW p \in Runners, session' = session,
           \/ Locked(task[p]) /\ Finish(p)
           \/ ~Locked(task[p]) /\ Become(p, Idle) /\ UNCHANGED running
    PROVE  \E t \in Task :
             /\ Become(p, t) /\ t.step \in {"idle", "lock"} /\ t.fresh = <<>>
             /\ task' \in [Runners -> Task] /\ TasksFit' /\ Exclusive'
             /\ running' \in [Sessions -> SUBSET Sources]
<1>1. /\ task[p] \in Task /\ task[p].home \in Sessions /\ task[p].home <= session
      /\ session \in Sessions /\ running \in [Sessions -> SUBSET Sources]
  BY TaskIs DEF IInv, TypeOK
<1>2. 1 <= session /\ 1 \in Nat
  BY <1>1, Numbers DEF Sessions
<1>3. CASE Locked(task[p]) /\ Finish(p)
  <2> DEFINE t == NextTarget(task[p])
  <2>1. /\ t \in Task /\ TaskFits(t) /\ ~Locked(t) /\ t.step \in {"idle", "lock"}
        /\ t.fresh = <<>> /\ t.home \in {1, task[p].home}
    BY <1>1, <1>3, NextTargetIs DEF Locked
  <2>2. /\ Become(p, t)
        /\ running' = [running EXCEPT ![task[p].home] = @ \ {Head(task[p].targets)}]
    BY <1>3 DEF Finish
  <2> HIDE DEF t
  <2>3. task' \in [Runners -> Task] /\ TasksFit'
    BY <1>1, <1>2, <2>1, <2>2, FitsMove
  <2>4. Exclusive'
    BY <1>3, <2>1, <2>2, LocksFreed
  <2>5. running' \in [Sessions -> SUBSET Sources]
    BY <1>1, <2>2
  <2> QED BY <2>1, <2>2, <2>3, <2>4, <2>5
<1>4. CASE ~Locked(task[p]) /\ Become(p, Idle) /\ UNCHANGED running
  <2>1. task' \in [Runners -> Task] /\ TasksFit'
    BY <1>2, <1>4, IdleIs, FitsMove
  <2>2. Exclusive'
    BY <1>4, IdleIs, LocksStay
  <2> QED BY <1>1, <1>4, <2>1, <2>2, IdleIs
<1> QED BY <1>3, <1>4

\* The rest of a batch is from the same source.
LEMMA RestOfBatch ==
    ASSUME NEW b \in Seq(Items), b # <<>>, NEW s, \A k \in DOMAIN b : b[k][1] = s
    PROVE  /\ Tail(b) \in Seq(Items)
           /\ \A k \in DOMAIN Tail(b) : Tail(b)[k][1] = s
           /\ \A x \in ToSet(b) : x = Head(b) \/ x \in ToSet(Tail(b))
           /\ Head(b) \in Items /\ Head(b)[1] = s
<1>1. /\ Tail(b) \in Seq(Items) /\ Len(Tail(b)) = Len(b) - 1 /\ Len(b) \in Nat \ {0}
      /\ Head(b) \in Items /\ Head(b) = b[1]
      /\ \A k \in 1..Len(Tail(b)) : Tail(b)[k] = b[k + 1]
      /\ \A x \in ToSet(b) : x = Head(b) \/ x \in ToSet(Tail(b))
  BY HeadAndTail
<1>2. DOMAIN Tail(b) = 1..Len(Tail(b)) /\ DOMAIN b = 1..Len(b)
  BY <1>1
<1>3. ASSUME NEW k \in DOMAIN Tail(b) PROVE Tail(b)[k][1] = s
  <2>1. k + 1 \in DOMAIN b /\ Tail(b)[k] = b[k + 1]
    BY <1>1, <1>2
  <2> QED BY <2>1
<1>4. b[1][1] = s
  BY <1>1, <1>2
<1> QED BY <1>1, <1>3, <1>4

\* Within one service set two calls never mark the same item.
LEMMA AtDifferentItems ==
    ASSUME IInv, session = 1, NEW p \in Runners, NEW q \in Runners, p # q,
           task[p].step = "mark", task[q].step = "mark"
    PROVE  /\ Head(task[p].batch) \in Items /\ Head(task[q].batch) \in Items
           /\ Head(task[p].batch) # Head(task[q].batch)
<1>1. ASSUME NEW r \in Runners, task[r].step = "mark"
      PROVE  /\ Locked(task[r]) /\ task[r].home = 1
             /\ Head(task[r].batch) \in Items
             /\ Head(task[r].batch)[1] = Head(task[r].targets)
  <2>1. /\ task[r] \in Task /\ TaskFits(task[r]) /\ task[r].home \in Sessions
        /\ task[r].home <= session
    BY TaskIs
  <2>2. /\ Locked(task[r]) /\ task[r].batch # <<>> /\ task[r].batch \in Seq(Items)
        /\ \A k \in DOMAIN task[r].batch : task[r].batch[k][1] = Head(task[r].targets)
    BY <1>1, <2>1 DEF TaskFits, Locked, Task
  <2>3. task[r].home = 1
    BY <2>1, Numbers DEF Sessions
  <2> QED BY <2>2, <2>3, RestOfBatch
<1>2. Head(task[p].targets) # Head(task[q].targets)
  BY <1>1 DEF IInv, Exclusive
<1> QED BY <1>1, <1>2

\* A store call that failed: the call ends, and from there on failures are counted.
LEMMA FaultyEnd ==
    ASSUME IInv, NEW p \in Runners,
           UNCHANGED <<published, session, collected, done, calls>>,
           faults' = faults + 1,
           cursor' \in [Sources -> (0..MaxItems) \cup {Torn}],
           seen' \in [Items -> Doc], pending' \in [Items -> Doc],
           \A i \in Items : \/ seen'[i] = seen[i]
                           \/ /\ task[p].step = "mark" /\ i = Head(task[p].batch)
                              /\ seen'[i] = "torn",
           CursorCoversSeen',
           \/ Locked(task[p]) /\ Finish(p)
           \/ ~Locked(task[p]) /\ Become(p, Idle) /\ UNCHANGED running
    PROVE  IInv'
<1> PICK t \in Task :
             /\ Become(p, t) /\ t.step \in {"idle", "lock"} /\ t.fresh = <<>>
             /\ task' \in [Runners -> Task] /\ TasksFit' /\ Exclusive'
             /\ running' \in [Sessions -> SUBSET Sources]
  BY Ends
<1>1. PassCovers(t, seen')
  BY DEF PassCovers
<1>2. Covers'
  BY <1>1, CoversMove
<1>3. faults' \in Nat /\ faults' # 0
  BY DEF IInv, TypeOK
<1>4. TypeOK'
  BY <1>3 DEF IInv, TypeOK
<1>5. Once'
  <2> SUFFICES ASSUME session = 1 PROVE Once'
    BY DEF Once
  <2>1. /\ \A x \in Items : collected[x] = IF seen[x] = "whole" THEN 1 ELSE 0
        /\ \A q \in Runners : task[q].step = "mark" => seen[Head(task[q].batch)] = "none"
    BY DEF IInv, Once
  <2>2. \A x \in Items : collected'[x] = IF seen'[x] = "whole" THEN 1 ELSE 0
    BY <2>1
  <2>3. ASSUME NEW q \in Runners, task'[q].step = "mark"
        PROVE  seen'[Head(task'[q].batch)] = "none"
    <3>1. q # p /\ task'[q] = task[q] /\ task[q].step = "mark"
      BY <2>3, OneTask
    <3>2. task[p].step = "mark" => Head(task[q].batch) # Head(task[p].batch)
      BY <3>1, AtDifferentItems
    <3>3. Head(task[q].batch) \in Items
      <4>1. task[q].batch \in Seq(Items) /\ task[q].batch # <<>>
        BY <3>1, TaskIs DEF TaskFits, Task
      <4> QED BY <4>1, HeadAndTail
    <3> QED BY <2>1, <3>1, <3>2, <3>3
  <2> QED BY <2>2, <2>3 DEF Once
<1> QED BY <1>2, <1>3, <1>4, <1>5 DEF IInv, Kept

\* A run that ends without touching the store.
LEMMA PlainEnd ==
    ASSUME IInv, NEW p \in Runners,
           UNCHANGED <<published, seen, pending, session, collected, done, bounds>>,
           cursor' \in [Sources -> (0..MaxItems) \cup {Torn}], CursorCoversSeen',
           (\A s \in Sources : cursor[s] # Torn) => (\A s \in Sources : cursor'[s] # Torn),
           \/ Locked(task[p]) /\ Finish(p)
           \/ ~Locked(task[p]) /\ Become(p, Idle) /\ UNCHANGED running,
           OneResumer /\ faults = 0 => task[p].fresh = <<>>
    PROVE  IInv'
<1> PICK t \in Task :
             /\ Become(p, t) /\ t.step \in {"idle", "lock"} /\ t.fresh = <<>>
             /\ task' \in [Runners -> Task] /\ TasksFit' /\ Exclusive'
             /\ running' \in [Sessions -> SUBSET Sources]
  BY Ends
<1> USE DEF bounds
<1>1. PassCovers(t, seen')
  BY DEF PassCovers
<1>2. Covers'
  BY <1>1, CoversMove
<1>3. Once'
  BY OnceStays
<1>4. OneResumer => Kept'
  <2>1. CASE OneResumer /\ faults = 0
    <3>1. ToSet(task[p].fresh) = {}
      BY <2>1, NothingInHand
    <3>2. Draining(t, pending)
      BY DEF Draining
    <3> QED BY <3>1, <3>2, KeptStays
  <2>2. CASE faults # 0
    BY <2>2 DEF Kept
  <2> QED BY <2>1, <2>2
<1>5. TypeOK'
  BY DEF IInv, TypeOK
<1> QED BY <1>2, <1>3, <1>4, <1>5 DEF IInv, OneResumer

-----------------------------------------------------------------------------
(* Every action keeps the invariant.                                       *)

LEMMA BeginsWell == Init => IInv
<1> SUFFICES ASSUME Init PROVE IInv
  OBVIOUS
<1> USE DEF Init
<1>1. TypeOK
  BY IdleIs, Numbers DEF TypeOK, Doc
<1>2. TasksFit /\ Exclusive
  BY IdleIs, Numbers DEF TasksFit, Exclusive
<1>3. Covers
  <2>1. CursorCoversSeen
    BY DEF CursorCoversSeen
  <2> QED BY <2>1, IdleIs DEF Covers, PassCovers
<1>4. Once
  BY IdleIs DEF Once
<1>5. Kept
  <2>1. 0 # Torn
    BY IngestionAssumption DEF IngestionAssumption
  <2> QED BY <2>1, IdleIs DEF Kept, NothingLost, Unfailing, Draining
<1> QED BY <1>1, <1>2, <1>3, <1>4, <1>5 DEF IInv

LEMMA BeginStep ==
    ASSUME IInv, NEW p \in Runners, NEW t \in Task, Begin(p, t),
           t.step \in {"lock", "list"}, TaskFits(t),
           t.step = "list" => p \in Resumers
    PROVE  IInv'
<1> DEFINE u == [t EXCEPT !.home = session]
<1>1. /\ Become(p, u) /\ task[p].step = "idle" /\ calls' = calls + 1
      /\ UNCHANGED <<published, disk, locks, collected, done, faults>>
  BY DEF Begin, At
<1>2. session \in Sessions /\ session \in Nat
  BY DEF IInv, TypeOK, Sessions
<1>3. /\ u.step = t.step /\ u.targets = t.targets /\ u.batch = t.batch /\ u.fresh = t.fresh
      /\ u.left = t.left /\ u.home = session
  BY DEF Task
<1>4. u \in Task
  BY <1>2 DEF Task
<1> HIDE DEF u
<1>5. TaskFits(u) /\ ~Locked(u) /\ u.home <= session
  BY <1>2, <1>3 DEF TaskFits, Locked
<1>6. PassCovers(u, seen) /\ Draining(u, pending)
  BY <1>3 DEF PassCovers, Draining
<1>7. ToSet(task[p].fresh) = {}
  BY <1>1, TaskIs, NothingInHand DEF TaskFits
<1>8. calls' \in Nat /\ done' \subseteq Items
  BY <1>1 DEF IInv, TypeOK
<1> QED BY <1>1, <1>3, <1>4, <1>5, <1>6, <1>7, <1>8, QuietStep

LEMMA BeginTriggerStep == ASSUME IInv, NEW p \in Runners, BeginTrigger(p) PROVE IInv'
<1> PICK targets \in ({<<s>> : s \in Sources} \cup {SourceOrder}) \ {<<>>}, all \in BOOLEAN :
        Begin(p, [Idle EXCEPT !.step = "lock", !.targets = targets, !.all = all])
  BY DEF BeginTrigger
<1> DEFINE t == [Idle EXCEPT !.step = "lock", !.targets = targets, !.all = all]
<1>1. targets \in Seq(Sources) /\ targets # <<>>
  <2>1. CASE targets = SourceOrder
    BY <2>1, IngestionAssumption DEF IngestionAssumption
  <2>2. ASSUME NEW s \in Sources, targets = <<s>> PROVE targets \in Seq(Sources)
    BY <2>2
  <2> QED BY <2>1, <2>2
<1>2. t \in Task
  BY <1>1, IdleIs DEF Task
<1>3. t.step = "lock" /\ t.targets # <<>> /\ t.fresh = <<>>
  BY <1>1 DEF Idle
<1>4. Begin(p, t)
  OBVIOUS
<1> HIDE DEF t
<1> QED BY <1>2, <1>3, <1>4, BeginStep DEF TaskFits

LEMMA BeginResumeStep == ASSUME IInv, NEW p \in Runners, BeginResume(p) PROVE IInv'
<1> DEFINE t == [Idle EXCEPT !.step = "list"]
<1>1. p \in Resumers /\ Begin(p, t)
  BY DEF BeginResume
<1>2. t \in Task
  BY IdleIs DEF Task
<1>3. t.step = "list" /\ t.targets = <<>> /\ t.fresh = <<>>
  BY DEF Idle
<1> HIDE DEF t
<1> QED BY <1>1, <1>2, <1>3, BeginStep DEF TaskFits

LEMMA TryLockStep == ASSUME IInv, NEW p \in Runners, TryLock(p) PROVE IInv'
<1> DEFINE t == task[p]
           s == Head(t.targets)
<1>1. /\ t \in Task /\ TaskFits(t) /\ t.home \in Sessions /\ t.home <= session
      /\ t.step = "lock" /\ t.targets # <<>> /\ t.fresh = <<>>
      /\ UNCHANGED <<published, disk, session, collected, done, bounds>>
  BY TaskIs DEF TryLock, At, TaskFits
<1>2. ToSet(t.fresh) = {} /\ ~Locked(t) /\ s \in Sources
  BY <1>1, NothingInHand DEF Locked, Task
<1>3. CASE Become(p, NextTarget(t)) /\ UNCHANGED running
  <2> DEFINE u == NextTarget(t)
  <2>1. /\ u \in Task /\ TaskFits(u) /\ ~Locked(u) /\ u.step \in {"idle", "lock"}
        /\ u.fresh = <<>> /\ u.home \in {1, t.home}
    BY <1>1, NextTargetIs
  <2>2. u.home <= session
    BY <1>1, <2>1, Numbers DEF IInv, TypeOK, Sessions
  <2>3. PassCovers(u, seen) /\ Draining(u, pending)
    BY <2>1 DEF PassCovers, Draining
  <2> HIDE DEF u
  <2> QED BY <1>1, <1>2, <1>3, <2>1, <2>2, <2>3, QuietStep DEF u, bounds, locks, IInv, TypeOK
<1>4. CASE /\ s \notin running[t.home]
           /\ running' = [running EXCEPT ![t.home] = @ \cup {s}]
           /\ Become(p, [t EXCEPT !.step = "load", !.passes = IF t.all THEN MaxPasses ELSE 1])
  <2> DEFINE u == [t EXCEPT !.step = "load", !.passes = IF t.all THEN MaxPasses ELSE 1]
  <2>1. u \in Task
    BY <1>1, Numbers DEF Task
  <2>2. u.step = "load" /\ u.targets = t.targets /\ u.fresh = <<>> /\ u.home = t.home
    BY <1>1 DEF Task
  <2>3. Become(p, u)
    BY <1>4
  <2> HIDE DEF u
  <2>4. TaskFits(u)
    BY <1>1, <2>2 DEF TaskFits
  <2>5. task' \in [Runners -> Task] /\ TasksFit'
    BY <1>1, <2>1, <2>2, <2>3, <2>4, FitsMove
  <2>6. Exclusive'
    <3>1. task'[p] = u /\ \A q \in Runners : q # p => task'[q] = task[q]
      BY <2>3, OneTask
    <3>2. running \in [Sessions -> SUBSET Sources] /\ \A q \in Runners : task[q].home \in Sessions
      BY TaskIs DEF IInv, TypeOK
    <3>3. s \in running'[t.home] /\ \A h \in Sessions : running[h] \subseteq running'[h]
      BY <1>1, <1>4, <3>2
    <3>4. \A q \in Runners : Locked(task[q]) => Head(task[q].targets) \in running[task[q].home]
      BY DEF IInv, Exclusive
    <3> HIDE DEF t, s
    <3>5. ASSUME NEW q \in Runners, Locked(task'[q])
          PROVE  Head(task'[q].targets) \in running'[task'[q].home]
      <4>1. CASE q = p
        BY <2>2, <3>1, <3>3, <4>1 DEF s
      <4>2. CASE q # p
        BY <3>1, <3>2, <3>3, <3>4, <3>5, <4>2
      <4> QED BY <4>1, <4>2
    <3>6. ASSUME NEW q \in Runners, q # p, Locked(task'[q]), task'[q].home = u.home
          PROVE  Head(task'[q].targets) # Head(u.targets)
      BY <1>4, <2>2, <3>1, <3>4, <3>6 DEF s
    <3>7. ASSUME NEW q \in Runners, NEW r \in Runners, Locked(task'[q]), Locked(task'[r]),
                 task'[q].home = task'[r].home,
                 Head(task'[q].targets) = Head(task'[r].targets)
          PROVE  q = r
      <4>1. CASE q # p /\ r # p
        BY <3>1, <3>7, <4>1 DEF IInv, Exclusive
      <4>2. CASE q = p \/ r = p
        BY <3>1, <3>6, <3>7, <4>2
      <4> QED BY <4>1, <4>2
    <3> QED BY <3>5, <3>7 DEF Exclusive
  <2>7. Covers'
    <3>1. CursorCoversSeen'
      BY <1>1, CursorStays DEF disk
    <3>2. PassCovers(u, seen')
      BY <2>2 DEF PassCovers
    <3> QED BY <1>1, <2>3, <3>1, <3>2, CoversMove DEF disk
  <2>8. Once'
    BY <1>1, <2>2, <2>3, OnceStays DEF disk
  <2>9. OneResumer => Kept'
    <3>1. Draining(u, pending)
      BY <2>2 DEF Draining
    <3> QED BY <1>1, <1>2, <2>3, <3>1, KeptStays DEF disk, bounds
  <2>10. TypeOK'
    BY <1>1, <1>2, <1>4, <2>5 DEF IInv, TypeOK, disk, bounds
  <2> QED BY <2>5, <2>6, <2>7, <2>8, <2>9, <2>10 DEF IInv, OneResumer
<1> QED BY <1>3, <1>4 DEF TryLock

LEMMA LoadCursorStep == ASSUME IInv, NEW p \in Runners, LoadCursor(p) PROVE IInv'
<1> DEFINE t == task[p]
           s == Head(t.targets)
           u == [t EXCEPT !.step = "sync", !.from = cursor[s]]
<1>1. /\ t \in Task /\ TaskFits(t) /\ t.home <= session /\ t.step = "load" /\ t.targets # <<>>
      /\ t.fresh = <<>> /\ cursor[s] # Torn /\ Become(p, u)
      /\ UNCHANGED <<published, disk, locks, collected, done, bounds>>
  BY TaskIs DEF LoadCursor, At, TaskFits
<1>2. s \in Sources /\ Locked(t)
  BY <1>1 DEF Locked, Task
<1>3. cursor[s] \in 0..MaxItems
  BY <1>1, <1>2 DEF IInv, TypeOK
<1>4. /\ u.step = "sync" /\ u.from = cursor[s] /\ u.targets = t.targets /\ u.fresh = t.fresh
      /\ u.home = t.home
  BY <1>1 DEF Task
<1>5. u \in Task
  BY <1>1, <1>3 DEF Task
<1> HIDE DEF u
<1>6. TaskFits(u) /\ Locked(u)
  BY <1>1, <1>4 DEF TaskFits, Locked
<1>7. PassCovers(u, seen)
  BY <1>1, <1>2, <1>4 DEF PassCovers, Marked, IInv, Covers, CursorCoversSeen
<1>8. Draining(u, pending)
  BY <1>4 DEF Draining
<1> QED BY <1>1, <1>2, <1>4, <1>5, <1>6, <1>7, <1>8, QuietStep DEF bounds, IInv, TypeOK

\* What comes after an item was checked.
LEMMA CheckedIs ==
    ASSUME NEW t \in Task, t.targets # <<>>, NEW marks,
           \A k \in DOMAIN t.batch : t.batch[k][1] = Head(t.targets),
           \A n \in 1..t.upto : \/ marks[<<Head(t.targets), n>>] # "none"
                                \/ <<Head(t.targets), n>> \in ToSet(t.batch)
    PROVE  /\ Checked(t) \in Task /\ TaskFits(Checked(t)) /\ Locked(Checked(t))
           /\ Checked(t).step \in {"seen", "process", "save"}
           /\ Checked(t).home = t.home /\ Checked(t).targets = t.targets
           /\ Checked(t).fresh = t.fresh
           /\ PassCovers(Checked(t), marks)
<1> DEFINE u == Checked(t)
<1>1. u \in Task
  BY DEF Checked, Task
<1>2. /\ u.step = IF t.batch # <<>> THEN "seen" ELSE IF t.fresh # <<>> THEN "process" ELSE "save"
      /\ u.home = t.home /\ u.targets = t.targets /\ u.fresh = t.fresh /\ u.batch = t.batch
      /\ u.upto = t.upto
  BY DEF Checked, Task
<1> HIDE DEF u
<1>3. TaskFits(u) /\ Locked(u)
  BY <1>2 DEF TaskFits, Locked
<1>4. t.batch = <<>> => ToSet(t.batch) = {}
  BY NothingInHand
<1>5. PassCovers(u, marks)
  BY <1>2, <1>4 DEF PassCovers, Marked
<1> QED BY <1>1, <1>2, <1>3, <1>5 DEF u

LEMMA SyncStep == ASSUME IInv, NEW p \in Runners, Sync(p) PROVE IInv'
<1> DEFINE t == task[p]
           s == Head(t.targets)
           upto == IF published[s] - t.from > Batch THEN t.from + Batch ELSE published[s]
<1> PICK again \in IF t.from = 0 THEN {0} ELSE {0, 1} :
        Become(p, Checked([t EXCEPT !.upto = upto, !.batch = Synced(s, t.from, upto, again),
                                    !.fresh = <<>>]))
  BY DEF Sync
<1> DEFINE batch == Synced(s, t.from, upto, again)
           u == [t EXCEPT !.upto = upto, !.batch = batch, !.fresh = <<>>]
<1>1. /\ t \in Task /\ TaskFits(t) /\ t.home <= session /\ t.step = "sync" /\ t.targets # <<>>
      /\ t.fresh = <<>> /\ PassCovers(t, seen)
      /\ UNCHANGED <<published, disk, locks, collected, done, bounds>>
  BY TaskIs DEF Sync, At, TaskFits
<1>2. s \in Sources /\ Locked(t) /\ t.from \in 0..MaxItems
  BY <1>1 DEF Locked, Task
<1>3. upto \in 0..MaxItems
  BY <1>2, Numbers DEF IInv, TypeOK
<1>4. Become(p, Checked(u))
  OBVIOUS
<1> HIDE DEF upto
<1>5. /\ batch \in Seq(Items) /\ DOMAIN batch = 1..(upto - t.from + again)
      /\ \A k \in DOMAIN batch : batch[k] = <<s, t.from - again + k>>
  <2>1. again \in {0, 1} /\ (again = 1 => t.from # 0)
    OBVIOUS
  <2>2. batch = [k \in 1..(upto - t.from + again) |-> <<s, t.from - again + k>>]
    BY DEF Synced
  <2> HIDE DEF batch
  <2>3. \A k \in 1..(upto - t.from + again) : t.from - again + k \in 1..MaxItems
    BY <1>2, <1>3, <2>1, Numbers
  <2>4. \A k \in 1..(upto - t.from + again) : <<s, t.from - again + k>> \in Items
    BY <1>2, <2>3 DEF Items
  <2>5. DOMAIN batch = 1..(upto - t.from + again)
    BY <2>2
  <2>6. batch \in Seq(Items)
    <3>1. CASE upto - t.from + again \in Nat
      <4> DEFINE N == upto - t.from + again
      <4>1. N \in Nat /\ batch \in [1..N -> Items]
        BY <2>2, <2>4, <3>1
      <4> HIDE DEF N
      <4> QED BY <4>1
    <3>2. CASE upto - t.from + again \notin Nat
      <4>1. 1..(upto - t.from + again) = {}
        BY <1>2, <1>3, <2>1, <3>2
      <4>2. batch = <<>>
        BY <2>2, <4>1
      <4> QED BY <4>2
    <3> QED BY <3>1, <3>2
  <2> QED BY <2>2, <2>5, <2>6
<1> HIDE DEF batch
<1>6. /\ u \in Task /\ u.targets = t.targets /\ u.upto = upto /\ u.batch = batch
      /\ u.fresh = <<>> /\ u.home = t.home
  BY <1>1, <1>3, <1>5 DEF Task
<1>7. \A k \in DOMAIN batch : batch[k][1] = s
  BY <1>5
<1>8. \A n \in 1..upto : seen[<<s, n>>] # "none" \/ <<s, n>> \in ToSet(batch)
  <2> SUFFICES ASSUME NEW n \in 1..upto PROVE seen[<<s, n>>] # "none" \/ <<s, n>> \in ToSet(batch)
    OBVIOUS
  <2>1. CASE n <= t.from
    <3>1. n \in 1..t.from
      BY <1>2, <1>3, <2>1
    <3> QED BY <1>1, <1>2, <3>1 DEF PassCovers, Marked
  <2>2. CASE ~(n <= t.from)
    <3> DEFINE k == n - t.from + again
    <3>1. again \in {0, 1}
      OBVIOUS
    <3>2. k \in 1..(upto - t.from + again) /\ t.from - again + k = n
      BY <1>2, <1>3, <2>2, <3>1
    <3>3. batch[k] = <<s, n>> /\ k \in DOMAIN batch
      BY <1>5, <3>2
    <3> QED BY <3>3 DEF ToSet
  <2> QED BY <2>1, <2>2
<1> HIDE DEF u
<1> DEFINE v == Checked(u)
<1>9. /\ v \in Task /\ TaskFits(v) /\ Locked(v) /\ v.step \in {"seen", "process", "save"}
      /\ v.home = t.home /\ v.targets = t.targets /\ PassCovers(v, seen)
  <2>1. \A k \in DOMAIN u.batch : u.batch[k][1] = Head(u.targets)
    BY <1>6, <1>7
  <2>2. \A n \in 1..u.upto : \/ seen[<<Head(u.targets), n>>] # "none"
                             \/ <<Head(u.targets), n>> \in ToSet(u.batch)
    BY <1>6, <1>8
  <2>3. u.targets # <<>>
    BY <1>1, <1>6
  <2>4. /\ v \in Task /\ TaskFits(v) /\ Locked(v) /\ v.step \in {"seen", "process", "save"}
        /\ v.home = u.home /\ v.targets = u.targets /\ PassCovers(v, seen)
    BY <1>6, <2>1, <2>2, <2>3, CheckedIs
  <2> QED BY <1>6, <2>4
<1>10. Become(p, v)
  BY <1>4
<1> HIDE DEF v
<1>11. ToSet(t.fresh) = {} /\ Draining(v, pending)
  BY <1>1, <1>9, NothingInHand DEF Draining
<1> QED BY <1>1, <1>2, <1>9, <1>10, <1>11, QuietStep DEF bounds, IInv, TypeOK

LEMMA SyncFailsStep == ASSUME IInv, NEW p \in Runners, SyncFails(p) PROVE IInv'
<1>1. Locked(task[p]) /\ task[p].fresh = <<>>
  BY TaskIs DEF SyncFails, At, TaskFits, Locked
<1>2. CursorCoversSeen'
  BY CursorStays DEF SyncFails, disk
<1> QED BY <1>1, <1>2, PlainEnd DEF SyncFails, disk, IInv, TypeOK

LEMMA CheckSeenStep == ASSUME IInv, NEW p \in Runners, CheckSeen(p) PROVE IInv'
<1> DEFINE t == task[p]
           s == Head(t.targets)
           i == Head(t.batch)
<1>1. /\ t \in Task /\ TaskFits(t) /\ t.home <= session /\ t.step = "seen" /\ t.targets # <<>>
      /\ t.batch # <<>> /\ PassCovers(t, seen)
      /\ UNCHANGED <<published, disk, locks, collected, done, bounds>>
  BY TaskIs DEF CheckSeen, At, TaskFits
<1>2. /\ Locked(t) /\ t.batch \in Seq(Items)
      /\ \A k \in DOMAIN t.batch : t.batch[k][1] = s
      /\ \A n \in 1..t.upto : seen[<<s, n>>] # "none" \/ <<s, n>> \in ToSet(t.batch)
  BY <1>1 DEF Locked, Task, TaskFits, PassCovers
<1>3. CASE seen[i] = "whole" /\ Become(p, Checked([t EXCEPT !.batch = Tail(@)]))
  <2> DEFINE u == [t EXCEPT !.batch = Tail(@)]
             v == Checked(u)
  <2>1. /\ Tail(t.batch) \in Seq(Items)
        /\ \A k \in DOMAIN Tail(t.batch) : Tail(t.batch)[k][1] = s
        /\ \A x \in ToSet(t.batch) : x = i \/ x \in ToSet(Tail(t.batch))
    <3>1. t.batch \in Seq(Items) /\ t.batch # <<>> /\ \A k \in DOMAIN t.batch : t.batch[k][1] = s
      BY <1>1, <1>2
    <3> QED BY <3>1, RestOfBatch
  <2>2. /\ u \in Task /\ u.targets = t.targets /\ u.batch = Tail(t.batch) /\ u.home = t.home
        /\ u.upto = t.upto /\ u.fresh = t.fresh
    BY <1>1, <2>1 DEF Task
  <2>3. \A n \in 1..u.upto : seen[<<s, n>>] # "none" \/ <<s, n>> \in ToSet(u.batch)
    BY <1>2, <1>3, <2>1, <2>2
  <2> HIDE DEF u
  <2>4. /\ v \in Task /\ TaskFits(v) /\ Locked(v) /\ v.step \in {"seen", "process", "save"}
        /\ v.home = t.home /\ v.targets = t.targets /\ v.fresh = t.fresh /\ PassCovers(v, seen)
    <3>1. \A k \in DOMAIN u.batch : u.batch[k][1] = Head(u.targets)
      BY <2>1, <2>2
    <3>2. \A n \in 1..u.upto : \/ seen[<<Head(u.targets), n>>] # "none"
                               \/ <<Head(u.targets), n>> \in ToSet(u.batch)
      BY <2>2, <2>3
    <3>3. u.targets # <<>>
      BY <1>1, <2>2
    <3>4. /\ v \in Task /\ TaskFits(v) /\ Locked(v) /\ v.step \in {"seen", "process", "save"}
          /\ v.home = u.home /\ v.targets = u.targets /\ v.fresh = u.fresh
          /\ PassCovers(v, seen)
      BY <2>2, <3>1, <3>2, <3>3, CheckedIs
    <3> QED BY <2>2, <3>4
  <2>5. Become(p, v)
    BY <1>3 DEF u
  <2> HIDE DEF v
  <2>6. Draining(v, pending)
    BY <2>4 DEF Draining
  <2> QED BY <1>1, <1>2, <2>4, <2>5, <2>6, QuietStep DEF bounds, IInv, TypeOK
<1>4. CASE seen[i] # "whole" /\ Become(p, [t EXCEPT !.step = "mark"])
  <2> DEFINE u == [t EXCEPT !.step = "mark"]
  <2>1. /\ u \in Task /\ u.step = "mark" /\ u.targets = t.targets /\ u.batch = t.batch
        /\ u.home = t.home /\ u.upto = t.upto /\ u.fresh = t.fresh /\ u.left = t.left
    BY <1>1 DEF Task
  <2>2. seen[u.batch[1]] = "none" /\ Head(u.batch) = u.batch[1]
    <3>1. i \in Items /\ i = t.batch[1]
      BY <1>1, <1>2, HeadAndTail
    <3>2. seen[i] # "torn"
      BY DEF CheckSeen
    <3> QED BY <1>4, <2>1, <3>1, <3>2 DEF IInv, TypeOK, Doc
  <2>3. Become(p, u)
    BY <1>4
  <2> HIDE DEF u
  <2>4. TaskFits(u) /\ Locked(u)
    BY <1>1, <1>2, <2>1 DEF TaskFits, Locked
  <2>5. PassCovers(u, seen) /\ Draining(u, pending)
    BY <1>2, <2>1 DEF PassCovers, Draining
  <2> QED BY <1>1, <1>2, <2>1, <2>2, <2>3, <2>4, <2>5, QuietStep DEF bounds, IInv, TypeOK
<1> QED BY <1>3, <1>4 DEF CheckSeen

LEMMA MarkSeenStep == ASSUME IInv, NEW p \in Runners, MarkSeen(p) PROVE IInv'
<1> DEFINE t == task[p]
           s == Head(t.targets)
           i == Head(t.batch)
           u == [t EXCEPT !.batch = Tail(@), !.fresh = Append(@, i)]
           v == Checked(u)
<1>1. /\ t \in Task /\ TaskFits(t) /\ t.home \in Sessions /\ t.home <= session
      /\ t.step = "mark" /\ t.targets # <<>> /\ t.batch # <<>> /\ PassCovers(t, seen)
      /\ seen' = [seen EXCEPT ![i] = "whole"]
      /\ collected' = [collected EXCEPT ![i] = @ + 1]
      /\ Become(p, v)
      /\ UNCHANGED <<published, cursor, pending, locks, done, bounds>>
  BY TaskIs DEF MarkSeen, At, TaskFits
<1>2. /\ Locked(t) /\ t.batch \in Seq(Items) /\ t.fresh \in Seq(Items)
      /\ \A k \in DOMAIN t.batch : t.batch[k][1] = s
      /\ \A n \in 1..t.upto : seen[<<s, n>>] # "none" \/ <<s, n>> \in ToSet(t.batch)
      /\ t.upto \in 0..MaxItems
  BY <1>1 DEF Locked, Task, TaskFits, PassCovers
<1>3. s \in Sources
  BY <1>1 DEF Task
<1>4. /\ Tail(t.batch) \in Seq(Items) /\ i \in Items /\ i[1] = s
      /\ \A k \in DOMAIN Tail(t.batch) : Tail(t.batch)[k][1] = s
      /\ \A x \in ToSet(t.batch) : x = i \/ x \in ToSet(Tail(t.batch))
  <2>1. t.batch \in Seq(Items) /\ t.batch # <<>> /\ \A k \in DOMAIN t.batch : t.batch[k][1] = s
    BY <1>1, <1>2
  <2> HIDE DEF t, s
  <2> QED BY <2>1, RestOfBatch
<1>5. /\ Append(t.fresh, i) \in Seq(Items) /\ i \in ToSet(Append(t.fresh, i))
      /\ \A y \in ToSet(t.fresh) : y \in ToSet(Append(t.fresh, i))
  BY <1>2, <1>4, Appended
<1>6. /\ u \in Task /\ u.targets = t.targets /\ u.batch = Tail(t.batch) /\ u.home = t.home
      /\ u.upto = t.upto /\ u.fresh = Append(t.fresh, i)
  BY <1>1, <1>4, <1>5 DEF Task
<1>7. /\ seen \in [Items -> Doc] /\ collected \in [Items -> Nat]
      /\ seen' \in [Items -> Doc] /\ collected' \in [Items -> Nat]
  BY <1>1, <1>4 DEF IInv, TypeOK, Doc
<1>8. \A x \in Items : seen'[x] = IF x = i THEN "whole" ELSE seen[x]
  BY <1>1, <1>4, <1>7
<1> HIDE DEF u
<1>9. /\ v \in Task /\ TaskFits(v) /\ Locked(v) /\ v.step \in {"seen", "process", "save"}
      /\ v.home = t.home /\ v.targets = t.targets /\ v.fresh = u.fresh /\ PassCovers(v, seen')
  <2>1. \A k \in DOMAIN u.batch : u.batch[k][1] = Head(u.targets)
    BY <1>4, <1>6
  <2>2. ASSUME NEW n \in 1..u.upto
        PROVE  \/ seen'[<<Head(u.targets), n>>] # "none"
               \/ <<Head(u.targets), n>> \in ToSet(u.batch)
    <3>1. <<s, n>> \in Items
      BY <1>2, <1>3, <1>6, Numbers DEF Items
    <3> QED BY <1>2, <1>4, <1>6, <1>8, <3>1
  <2>3. u.targets # <<>>
    BY <1>1, <1>6
  <2>4. /\ v \in Task /\ TaskFits(v) /\ Locked(v) /\ v.step \in {"seen", "process", "save"}
        /\ v.home = u.home /\ v.targets = u.targets /\ v.fresh = u.fresh
        /\ PassCovers(v, seen')
    BY <1>6, <2>1, <2>2, <2>3, CheckedIs
  <2> QED BY <1>6, <2>4
<1> HIDE DEF v
<1>10. task' \in [Runners -> Task] /\ TasksFit'
  BY <1>1, <1>9, FitsMove DEF locks
<1>11. Exclusive'
  BY <1>1, <1>2, <1>9, LocksStay DEF locks
<1>12. Covers'
  <2>1. \A x \in Items : seen[x] # "none" => seen'[x] # "none"
    BY <1>8
  <2>2. CursorCoversSeen'
    BY <1>1, <2>1, CursorStays
  <2> QED BY <1>1, <1>9, <2>1, <2>2, CoversMove
<1>13. task'[p] = v /\ \A q \in Runners : q # p => task'[q] = task[q]
  BY <1>1, OneTask
<1>14. Once'
  <2> SUFFICES ASSUME session = 1 PROVE Once'
    BY <1>1 DEF Once, locks
  <2>1. /\ \A x \in Items : collected[x] = IF seen[x] = "whole" THEN 1 ELSE 0
        /\ \A q \in Runners : task[q].step = "mark" => seen[Head(task[q].batch)] = "none"
    BY DEF IInv, Once
  <2>2. \A x \in Items : collected'[x] = IF x = i THEN collected[x] + 1 ELSE collected[x]
    BY <1>1, <1>4, <1>7
  <2>3. seen[i] = "none"
    BY <1>1, <2>1
  <2>4. \A x \in Items : collected'[x] = IF seen'[x] = "whole" THEN 1 ELSE 0
    BY <1>8, <2>1, <2>2, <2>3
  <2>5. ASSUME NEW q \in Runners, task'[q].step = "mark"
        PROVE  seen'[Head(task'[q].batch)] = "none"
    <3>1. q # p /\ task'[q] = task[q] /\ task[q].step = "mark"
      BY <1>9, <1>13, <2>5
    <3>2. Head(task[q].batch) \in Items /\ Head(task[q].batch) # i
      BY <1>1, <3>1, AtDifferentItems
    <3> QED BY <1>8, <2>1, <3>1, <3>2
  <2> QED BY <2>4, <2>5 DEF Once
<1>15. OneResumer => Kept'
  <2> SUFFICES ASSUME OneResumer, faults = 0 PROVE Kept'
    BY <1>1 DEF Kept, bounds
  <2>1. NothingLost /\ Unfailing /\ \A q \in Runners : Draining(task[q], pending)
    BY DEF IInv, Kept
  <2>2. Unfailing'
    BY <1>1, <1>8, <2>1 DEF Unfailing
  <2>3. \A q \in Runners : Draining(task'[q], pending')
    BY <1>1, <1>9, <1>13, <2>1 DEF Draining
  <2>4. ASSUME NEW x \in Items, seen'[x] = "whole"
        PROVE  x \in done' \/ pending'[x] = "whole" \/ InHand(x)'
    <3>1. CASE x = i
      BY <1>5, <1>6, <1>9, <1>13, <3>1 DEF InHand
    <3>2. CASE x # i
      <4>1. x \in done \/ pending[x] = "whole" \/ InHand(x)
        BY <1>8, <2>1, <2>4, <3>2 DEF NothingLost
      <4>2. ASSUME NEW q \in Runners, x \in ToSet(task[q].fresh) PROVE x \in ToSet(task'[q].fresh)
        BY <1>5, <1>6, <1>9, <1>13, <4>2
      <4>3. InHand(x) => InHand(x)'
        BY <4>2 DEF InHand
      <4> QED BY <1>1, <4>1, <4>3
    <3> QED BY <3>1, <3>2
  <2> QED BY <2>2, <2>3, <2>4 DEF Kept, NothingLost
<1>16. TypeOK'
  BY <1>1, <1>7, <1>10 DEF IInv, TypeOK, locks, bounds
<1> QED BY <1>10, <1>11, <1>12, <1>14, <1>15, <1>16 DEF IInv, OneResumer

LEMMA SaveCursorStep == ASSUME IInv, NEW p \in Runners, SaveCursor(p) PROVE IInv'
<1> DEFINE t == task[p]
           s == Head(t.targets)
<1>1. /\ t \in Task /\ TaskFits(t) /\ t.home <= session /\ t.step = "save" /\ t.targets # <<>>
      /\ t.fresh = <<>> /\ PassCovers(t, seen)
      /\ cursor' = [cursor EXCEPT ![s] = t.upto]
      /\ UNCHANGED <<published, seen, pending, session, collected, done, bounds>>
  BY TaskIs DEF SaveCursor, At, TaskFits
<1>2. Locked(t) /\ s \in Sources /\ t.upto \in 0..MaxItems /\ t.upto # Torn
  BY <1>1, IngestionAssumption, SMTT(30) DEF IngestionAssumption, Locked, Task
<1>3. cursor' \in [Sources -> (0..MaxItems) \cup {Torn}]
  BY <1>1, <1>2 DEF IInv, TypeOK
<1>4. CursorCoversSeen'
  <2>1. Marked(seen, s, t.upto)
    BY <1>1, <1>2 DEF PassCovers
  <2>2. \A r \in Sources : cursor'[r] = IF r = s THEN t.upto ELSE cursor[r]
    BY <1>1, <1>2 DEF IInv, TypeOK
  <2> QED BY <1>1, <2>1, <2>2 DEF IInv, Covers, CursorCoversSeen, Marked
<1>5. (\A r \in Sources : cursor[r] # Torn) => (\A r \in Sources : cursor'[r] # Torn)
  BY <1>1, <1>2 DEF IInv, TypeOK
<1>6. CASE t.passes > 1 /\ Become(p, [t EXCEPT !.step = "load", !.passes = @ - 1]) /\ UNCHANGED running
  <2> DEFINE u == [t EXCEPT !.step = "load", !.passes = @ - 1]
  <2>1. /\ u \in Task /\ u.step = "load" /\ u.targets = t.targets /\ u.fresh = t.fresh
        /\ u.home = t.home
    <3>1. t.passes - 1 \in Nat
      BY <1>1, <1>6 DEF Task
    <3> QED BY <1>1, <3>1 DEF Task
  <2>2. Become(p, u)
    BY <1>6
  <2> HIDE DEF u
  <2>3. TaskFits(u) /\ Locked(u) /\ PassCovers(u, seen) /\ Draining(u, pending)
    BY <1>1, <2>1 DEF TaskFits, Locked, PassCovers, Draining
  <2>4. task' \in [Runners -> Task] /\ TasksFit'
    BY <1>1, <2>1, <2>2, <2>3, FitsMove
  <2>5. Exclusive'
    BY <1>2, <1>6, <2>1, <2>2, LocksStay
  <2>6. Covers'
    BY <1>1, <1>4, <2>2, <2>3, CoversMove
  <2>7. Once'
    BY <1>1, <2>1, <2>2, OnceStays
  <2>8. OneResumer => Kept'
    BY <1>1, <1>5, <2>1, <2>2, <2>3, KeptStays DEF bounds
  <2>9. TypeOK'
    BY <1>1, <1>3, <1>6, <2>4 DEF IInv, TypeOK, bounds
  <2> QED BY <2>4, <2>5, <2>6, <2>7, <2>8, <2>9 DEF IInv, OneResumer
<1>7. CASE Finish(p)
  BY <1>1, <1>2, <1>3, <1>4, <1>5, <1>7, PlainEnd
<1> QED BY <1>6, <1>7 DEF SaveCursor

\* What comes after an item was finished.
LEMMA NextItemIs ==
    ASSUME NEW t \in Task, t.fresh # <<>>, t.step \in {"process", "route", "push"},
           NEW marks, PassCovers(t, marks)
    PROVE  /\ NextItem(t) \in Task /\ TaskFits(NextItem(t))
           /\ NextItem(t).step \in {"process", "save", "idle"}
           /\ NextItem(t).home \in {1, t.home}
           /\ Locked(NextItem(t)) => /\ Locked(t) /\ NextItem(t).home = t.home
                                     /\ NextItem(t).targets = t.targets
           /\ PassCovers(NextItem(t), marks)
           /\ \A i \in ToSet(t.fresh) : i = Head(t.fresh) \/ i \in ToSet(NextItem(t).fresh)
<1> DEFINE u == NextItem(t)
           rest == Tail(t.fresh)
<1>1. /\ rest \in Seq(Items)
      /\ \A i \in ToSet(t.fresh) : i = Head(t.fresh) \/ i \in ToSet(rest)
  <2>1. t.fresh \in Seq(Items)
    BY DEF Task
  <2> QED BY <2>1, HeadAndTail
<1>2. CASE rest # <<>>
  <2>1. /\ u \in Task /\ u.step = "process" /\ u.fresh = rest /\ u.home = t.home
        /\ u.targets = t.targets /\ u.upto = t.upto
    BY <1>1, <1>2 DEF NextItem, Task
  <2> HIDE DEF u
  <2>2. TaskFits(u) /\ (Locked(u) => Locked(t))
    BY <1>2, <2>1 DEF TaskFits, Locked
  <2>3. PassCovers(u, marks)
    BY <2>1, <2>2 DEF PassCovers
  <2> QED BY <1>1, <2>1, <2>2, <2>3 DEF u
<1>3. CASE rest = <<>> /\ Resumes(t)
  <2>1. u = Idle
    BY <1>3 DEF NextItem
  <2> HIDE DEF u
  <2>2. ToSet(rest) = {}
    BY <1>3, NothingInHand
  <2>3. PassCovers(u, marks)
    BY <2>1, IdleIs DEF PassCovers
  <2> QED BY <1>1, <2>1, <2>2, <2>3, IdleIs DEF u
<1>4. CASE rest = <<>> /\ ~Resumes(t)
  <2>1. /\ u \in Task /\ u.step = "save" /\ u.fresh = <<>> /\ u.home = t.home
        /\ u.targets = t.targets /\ u.upto = t.upto
    BY <1>1, <1>4 DEF NextItem, Task
  <2> HIDE DEF u
  <2>2. TaskFits(u) /\ (Locked(u) => Locked(t))
    BY <1>4, <2>1 DEF TaskFits, Locked, Resumes
  <2>3. PassCovers(u, marks)
    BY <2>1, <2>2 DEF PassCovers
  <2>4. ToSet(rest) = {}
    BY <1>4, NothingInHand
  <2> QED BY <1>1, <2>1, <2>2, <2>3, <2>4 DEF u
<1> QED BY <1>2, <1>3, <1>4

\* An item is finished: it is done, or it is parked.
LEMMA ItemFinished ==
    ASSUME IInv, NEW p \in Runners, task[p].step \in {"process", "route"},
           Become(p, NextItem(task[p])),
           done' = done \cup {Head(task[p].fresh)},
           UNCHANGED <<published, disk, locks, collected, bounds>>
    PROVE  IInv'
<1> DEFINE t == task[p]
           u == NextItem(t)
<1>1. /\ t \in Task /\ TaskFits(t) /\ t.home <= session /\ t.fresh # <<>> /\ PassCovers(t, seen)
      /\ t.fresh \in Seq(Items)
  BY TaskIs DEF TaskFits, Task
<1>2. /\ u \in Task /\ TaskFits(u) /\ u.step \in {"process", "save", "idle"}
      /\ u.home \in {1, t.home}
      /\ Locked(u) => Locked(t) /\ u.home = t.home /\ u.targets = t.targets
      /\ PassCovers(u, seen)
      /\ \A i \in ToSet(t.fresh) : i = Head(t.fresh) \/ i \in ToSet(u.fresh)
  BY <1>1, NextItemIs
<1>3. Become(p, u)
  OBVIOUS
<1> HIDE DEF u
<1>4. u.home <= session
  BY <1>1, <1>2, Numbers DEF IInv, TypeOK, Sessions
<1>5. Draining(u, pending)
  BY <1>2 DEF Draining
<1>6. done' \subseteq Items
  <2>1. Head(t.fresh) \in Items
    BY <1>1, HeadAndTail
  <2> QED BY <2>1 DEF IInv, TypeOK
<1>7. Locked(u) => /\ Locked(t) /\ u.home = t.home /\ Head(u.targets) = Head(t.targets)
  BY <1>2
<1>8. \A i \in ToSet(t.fresh) : i \in ToSet(u.fresh) \/ i \in done' \/ pending[i] = "whole"
  BY <1>2
<1> QED BY <1>2, <1>3, <1>4, <1>5, <1>6, <1>7, <1>8, QuietStep DEF bounds, IInv, TypeOK

\* The same item, at another step of its processing.
LEMMA SameItem ==
    ASSUME IInv, NEW p \in Runners, NEW u \in Task,
           task[p].step \in {"process", "route"}, Become(p, u),
           u.step \in {"route", "push"}, u.step = "route" => u.left # 0,
           u.home = task[p].home, u.targets = task[p].targets, u.fresh = task[p].fresh,
           u.upto = task[p].upto,
           UNCHANGED <<published, disk, locks, collected, done, bounds>>
    PROVE  IInv'
<1> DEFINE t == task[p]
<1>1. /\ t \in Task /\ TaskFits(t) /\ t.home <= session /\ t.fresh # <<>> /\ PassCovers(t, seen)
  BY TaskIs DEF TaskFits
<1>2. TaskFits(u) /\ (Locked(u) => Locked(t))
  BY <1>1 DEF TaskFits, Locked
<1>3. PassCovers(u, seen) /\ Draining(u, pending)
  BY <1>1, <1>2 DEF PassCovers, Draining
<1> QED BY <1>1, <1>2, <1>3, QuietStep DEF bounds, IInv, TypeOK

LEMMA SummarizeStep == ASSUME IInv, NEW p \in Runners, Summarize(p) PROVE IInv'
<1>1. /\ task[p].step = "process" /\ task[p] \in Task
      /\ UNCHANGED <<published, disk, locks, collected, bounds>>
  BY TaskIs DEF Summarize, At
<1>2. CASE done' = done \cup {Head(task[p].fresh)} /\ Become(p, NextItem(task[p]))
  BY <1>1, <1>2, ItemFinished
<1>3. ASSUME NEW n \in 1..MaxEntries, done' = done,
             Become(p, [task[p] EXCEPT !.left = n, !.step = "route"])
      PROVE  IInv'
  <2> DEFINE u == [task[p] EXCEPT !.left = n, !.step = "route"]
  <2>1. n \in Nat \ {0}
    BY IngestionAssumption DEF IngestionAssumption
  <2>2. /\ u \in Task /\ u.step = "route" /\ u.left # 0 /\ u.home = task[p].home
        /\ u.targets = task[p].targets /\ u.fresh = task[p].fresh /\ u.upto = task[p].upto
    BY <1>1, <2>1 DEF Task
  <2>3. Become(p, u)
    BY <1>3
  <2> HIDE DEF u
  <2> QED BY <1>1, <1>3, <2>2, <2>3, SameItem
<1> QED BY <1>2, <1>3 DEF Summarize

LEMMA RouteStep == ASSUME IInv, NEW p \in Runners, Route(p) PROVE IInv'
<1>1. /\ task[p].step = "route" /\ task[p] \in Task
      /\ UNCHANGED <<published, disk, locks, collected, bounds>>
  BY TaskIs DEF Route, At
<1>2. CASE done' = done \cup {Head(task[p].fresh)} /\ Become(p, NextItem(task[p]))
  BY <1>1, <1>2, ItemFinished
<1>3. CASE task[p].left > 1 /\ Become(p, [task[p] EXCEPT !.left = @ - 1]) /\ done' = done
  <2> DEFINE u == [task[p] EXCEPT !.left = @ - 1]
  <2>1. task[p].left - 1 \in Nat \ {0}
    BY <1>1, <1>3 DEF Task
  <2>2. /\ u \in Task /\ u.step = "route" /\ u.left # 0 /\ u.home = task[p].home
        /\ u.targets = task[p].targets /\ u.fresh = task[p].fresh /\ u.upto = task[p].upto
    BY <1>1, <2>1 DEF Task
  <2>3. Become(p, u)
    BY <1>3
  <2> HIDE DEF u
  <2> QED BY <1>1, <1>3, <2>2, <2>3, SameItem
<1> QED BY <1>2, <1>3 DEF Route

LEMMA ParkStep == ASSUME IInv, NEW p \in Runners, Park(p) PROVE IInv'
<1> DEFINE u == [task[p] EXCEPT !.step = "push"]
<1>1. task[p] \in Task
  BY TaskIs
<1>2. /\ u \in Task /\ u.step = "push" /\ u.home = task[p].home
      /\ u.targets = task[p].targets /\ u.fresh = task[p].fresh /\ u.upto = task[p].upto
  BY <1>1 DEF Task
<1>3. Become(p, u)
  BY DEF Park
<1> HIDE DEF u
<1> QED BY <1>2, <1>3, SameItem DEF Park

LEMMA PushStep == ASSUME IInv, NEW p \in Runners, Push(p) PROVE IInv'
<1> DEFINE t == task[p]
           i == Head(t.fresh)
           u == NextItem(t)
<1>1. /\ t \in Task /\ TaskFits(t) /\ t.home <= session /\ t.step = "push" /\ t.fresh # <<>>
      /\ PassCovers(t, seen) /\ t.fresh \in Seq(Items)
      /\ pending' = [pending EXCEPT ![i] = "whole"]
      /\ UNCHANGED <<published, cursor, seen, locks, collected, done, bounds>>
  BY TaskIs DEF Push, At, TaskFits, Task
<1>2. /\ u \in Task /\ TaskFits(u) /\ u.step \in {"process", "save", "idle"}
      /\ u.home \in {1, t.home}
      /\ Locked(u) => Locked(t) /\ u.home = t.home /\ u.targets = t.targets
      /\ PassCovers(u, seen)
      /\ \A x \in ToSet(t.fresh) : x = i \/ x \in ToSet(u.fresh)
  BY <1>1, NextItemIs
<1>3. Become(p, u)
  BY DEF Push
<1> HIDE DEF u
<1>4. u.home <= session
  BY <1>1, <1>2, Numbers DEF IInv, TypeOK, Sessions
<1>5. i \in Items
  BY <1>1, HeadAndTail
<1>6. /\ pending' \in [Items -> Doc]
      /\ \A x \in Items : pending'[x] = IF x = i THEN "whole" ELSE pending[x]
  BY <1>1, <1>5 DEF IInv, TypeOK, Doc
<1>7. task' \in [Runners -> Task] /\ TasksFit'
  BY <1>1, <1>2, <1>3, <1>4, FitsMove DEF locks
<1>8. Exclusive'
  BY <1>1, <1>2, <1>3, LocksStay DEF locks
<1>9. Covers'
  <2>1. CursorCoversSeen'
    BY <1>1, CursorStays
  <2> QED BY <1>1, <1>2, <1>3, <2>1, CoversMove
<1>10. Once'
  BY <1>1, <1>2, <1>3, OnceStays DEF locks
<1>11. task'[p] = u /\ \A q \in Runners : q # p => task'[q] = task[q]
  BY <1>3, OneTask
<1>12. OneResumer => Kept'
  <2> SUFFICES ASSUME OneResumer, faults = 0 PROVE Kept'
    BY <1>1 DEF Kept, bounds
  <2>1. NothingLost /\ Unfailing /\ \A q \in Runners : Draining(task[q], pending)
    BY DEF IInv, Kept
  <2>2. Unfailing'
    BY <1>1, <1>6, <2>1 DEF Unfailing
  <2>3. ASSUME NEW q \in Runners PROVE Draining(task'[q], pending')
    <3>1. CASE q = p
      BY <1>2, <1>11, <3>1 DEF Draining
    <3>2. CASE q # p
      <4> DEFINE r == task[q]
      <4>1. r \in Task /\ TaskFits(r) /\ Draining(r, pending) /\ task'[q] = r
        BY <1>11, <2>1, <3>2, TaskIs
      <4>2. r.batch \in Seq(Items)
        BY <4>1 DEF Task
      <4> HIDE DEF r
      <4>3. ASSUME r.step \in {"drain", "erase"}, NEW k \in 2..Len(r.batch)
            PROVE  pending'[r.batch[k]] # "none"
        <5>1. r.batch[k] \in Items /\ pending[r.batch[k]] # "none"
          BY <4>1, <4>2, <4>3 DEF Draining
        <5> QED BY <1>6, <5>1
      <4>4. ASSUME r.step = "drain" PROVE pending'[Head(r.batch)] # "none"
        <5>1. r.batch # <<>>
          BY <4>1, <4>4 DEF TaskFits
        <5>2. Head(r.batch) \in Items
          BY <4>2, <5>1, HeadAndTail
        <5> QED BY <1>6, <4>1, <4>4, <5>2 DEF Draining
      <4>5. Draining(r, pending')
        BY <4>1, <4>3, <4>4 DEF Draining
      <4> QED BY <4>1, <4>5
    <3> QED BY <3>1, <3>2
  <2>4. ASSUME NEW x \in Items, seen[x] = "whole"
        PROVE  x \in done \/ pending'[x] = "whole" \/ InHand(x)'
    <3>1. CASE x = i
      BY <1>6, <3>1
    <3>2. CASE x # i
      <4>1. x \in done \/ pending[x] = "whole" \/ InHand(x)
        BY <2>1, <2>4 DEF NothingLost
      <4>2. ASSUME NEW q \in Runners, x \in ToSet(task[q].fresh) PROVE x \in ToSet(task'[q].fresh)
        BY <1>2, <1>11, <3>2, <4>2
      <4>3. InHand(x) => InHand(x)'
        BY <4>2 DEF InHand
      <4> QED BY <1>6, <4>1, <4>3
    <3> QED BY <3>1, <3>2
  <2> QED BY <1>1, <2>2, <2>3, <2>4 DEF Kept, NothingLost
<1>13. TypeOK'
  BY <1>1, <1>6, <1>7 DEF IInv, TypeOK, locks, bounds
<1> QED BY <1>7, <1>8, <1>9, <1>10, <1>12, <1>13 DEF IInv, OneResumer

LEMMA OfflineStep == ASSUME IInv, NEW p \in Runners, Offline(p) PROVE IInv'
<1>1. task[p].step = "list" /\ ToSet(task[p].fresh) = {}
  BY TaskIs, NothingInHand DEF Offline, At, TaskFits
<1>2. PassCovers(Idle, seen) /\ Draining(Idle, pending)
  BY IdleIs DEF PassCovers, Draining
<1>3. 1 <= session
  BY Numbers DEF IInv, TypeOK, Sessions
<1> QED BY <1>1, <1>2, <1>3, IdleIs, QuietStep DEF Offline, bounds, IInv, TypeOK

\* What comes after an item was drained.
LEMMA DrainedIs ==
    ASSUME NEW t \in Task, t.targets = <<>>
    PROVE  /\ Drained(t) \in Task /\ TaskFits(Drained(t)) /\ ~Locked(Drained(t))
           /\ Drained(t).step = IF t.batch # <<>> THEN "drain"
                                ELSE IF t.fresh # <<>> THEN "process" ELSE "idle"
           /\ Drained(t).home \in {1, t.home}
           /\ Drained(t).step # "idle" => Drained(t).batch = t.batch
           /\ Drained(t).fresh = t.fresh
<1> DEFINE u == Drained(t)
<1>1. CASE t.batch = <<>> /\ t.fresh = <<>>
  <2>1. u = Idle
    BY <1>1 DEF Drained
  <2> QED BY <1>1, <2>1, IdleIs
<1>2. CASE t.batch # <<>> \/ t.fresh # <<>>
  <2>1. /\ u \in Task /\ u.targets = t.targets /\ u.fresh = t.fresh /\ u.batch = t.batch
        /\ u.home = t.home
        /\ u.step = IF t.batch # <<>> THEN "drain" ELSE "process"
    BY <1>2 DEF Drained, Task
  <2> HIDE DEF u
  <2>2. TaskFits(u) /\ ~Locked(u)
    BY <1>2, <2>1 DEF TaskFits, Locked
  <2> QED BY <1>2, <2>1, <2>2 DEF u
<1> QED BY <1>1, <1>2

LEMMA ListPendingStep == ASSUME IInv, NEW p \in Runners, ListPending(p) PROVE IInv'
<1> DEFINE t == task[p]
           S == {i \in Items : pending[i] # "none"}
<1> PICK keys \in SetToSeqs(S) : Become(p, Drained([t EXCEPT !.batch = keys]))
  BY DEF ListPending
<1> DEFINE u == [t EXCEPT !.batch = keys]
           v == Drained(u)
<1>1. /\ t \in Task /\ t.home <= session /\ t.step = "list" /\ t.targets = <<>>
      /\ t.fresh = <<>> /\ p \in Resumers
      /\ UNCHANGED <<published, disk, locks, collected, done, bounds>>
  BY TaskIs DEF ListPending, At, TaskFits, IInv, TasksFit
<1>2. /\ keys \in Seq(S) /\ IsInjective(keys) /\ DOMAIN keys = 1..Len(keys)
  <2>1. S \in SUBSET Items
    OBVIOUS
  <2> HIDE DEF S
  <2>2. Cardinality(S) \in Nat
    BY <2>1, ItemsAreFinite, FS_Subset, FS_CardinalityType
  <2>3. /\ keys \in [1..Cardinality(S) -> S]
        /\ \A i, j \in 1..Cardinality(S) : i # j => keys[i] # keys[j]
    BY DEF SetToSeqs
  <2>4. keys \in Seq(S)
    BY <2>2, <2>3
  <2> QED BY <2>2, <2>3, <2>4 DEF IsInjective
<1>3. /\ u \in Task /\ u.targets = <<>> /\ u.batch = keys /\ u.fresh = <<>> /\ u.home = t.home
  <2>1. keys \in Seq(Items)
    BY <1>2
  <2> QED BY <1>1, <2>1 DEF Task
<1>4. Become(p, v)
  OBVIOUS
<1> HIDE DEF u
<1>5. /\ v \in Task /\ TaskFits(v) /\ ~Locked(v) /\ v.step \in {"drain", "idle"}
      /\ v.home \in {1, t.home}
      /\ v.step = "drain" => v.batch = keys /\ keys # <<>>
  BY <1>3, DrainedIs
<1> HIDE DEF v
<1>6. Draining(v, pending)
  <2> SUFFICES ASSUME v.step = "drain" PROVE Draining(v, pending)
    BY <1>5 DEF Draining
  <2>1. v.batch = keys /\ keys # <<>>
    BY <1>5
  <2>2. \A k \in 1..Len(keys) : keys[k] \in S
    BY <1>2
  <2>3. Len(keys) \in Nat \ {0} /\ Head(keys) = keys[1]
    BY <1>2, <2>1, HeadAndTail
  <2>4. pending[keys[1]] # "none" /\ \A k \in 2..Len(keys) : pending[keys[k]] # "none"
    BY <2>2, <2>3
  <2> QED BY <1>2, <2>1, <2>3, <2>4 DEF Draining
<1>7. v.home <= session /\ PassCovers(v, seen) /\ ToSet(t.fresh) = {}
  BY <1>1, <1>5, Numbers, NothingInHand DEF PassCovers, IInv, TypeOK, Sessions
<1> QED BY <1>1, <1>4, <1>5, <1>6, <1>7, QuietStep DEF bounds, IInv, TypeOK

LEMMA DrainGetStep == ASSUME IInv, NEW p \in Runners, DrainGet(p) PROVE IInv'
<1> DEFINE t == task[p]
           i == Head(t.batch)
           f == IF pending[i] = "whole" THEN Append(t.fresh, i) ELSE t.fresh
           u == [t EXCEPT !.step = "erase",
                          !.fresh = IF pending[i] = "whole" THEN Append(@, i) ELSE @]
<1>1. /\ t \in Task /\ TaskFits(t) /\ t.home <= session /\ t.step = "drain" /\ t.targets = <<>>
      /\ t.batch # <<>> /\ p \in Resumers /\ pending[i] # "torn" /\ Become(p, u)
      /\ UNCHANGED <<published, disk, locks, collected, done, bounds>>
  BY TaskIs DEF DrainGet, At, TaskFits, IInv, TasksFit
<1>2. i \in Items /\ t.fresh \in Seq(Items)
  BY <1>1, HeadAndTail DEF Task
<1>3. f \in Seq(Items) /\ (pending[i] = "whole" => i \in ToSet(f)) /\ \A x \in ToSet(t.fresh) : x \in ToSet(f)
  BY <1>2, Appended
<1> HIDE DEF f
<1>4. /\ u \in Task /\ u.targets = <<>> /\ u.batch = t.batch /\ u.fresh = f /\ u.home = t.home
      /\ u.step = "erase"
  BY <1>1, <1>3 DEF Task, f
<1> HIDE DEF u
<1>5. TaskFits(u) /\ ~Locked(u) /\ PassCovers(u, seen)
  BY <1>1, <1>4 DEF TaskFits, Locked, PassCovers
<1>6. ASSUME OneResumer, faults = 0 PROVE Draining(u, pending)
  <2>1. Draining(t, pending)
    BY <1>6 DEF IInv, Kept
  <2>2. pending[i] = "whole"
    BY <1>1, <1>2, <2>1 DEF Draining, IInv, TypeOK, Doc
  <2> QED BY <1>1, <1>3, <1>4, <2>1, <2>2 DEF Draining
<1>7. \A x \in ToSet(t.fresh) : x \in ToSet(u.fresh)
  BY <1>3, <1>4
<1> QED BY <1>1, <1>4, <1>5, <1>6, <1>7, QuietStep DEF bounds, IInv, TypeOK

LEMMA EraseStep == ASSUME IInv, NEW p \in Runners, Erase(p) PROVE IInv'
<1> DEFINE t == task[p]
           i == Head(t.batch)
           u == [t EXCEPT !.batch = Tail(@)]
           v == Drained(u)
<1>1. /\ t \in Task /\ TaskFits(t) /\ t.home <= session /\ t.step = "erase" /\ t.targets = <<>>
      /\ t.batch # <<>> /\ p \in Resumers /\ t.batch \in Seq(Items)
      /\ pending' = [pending EXCEPT ![i] = "none"] /\ Become(p, v)
      /\ UNCHANGED <<published, cursor, seen, locks, collected, done, bounds>>
  BY TaskIs DEF Erase, At, TaskFits, IInv, TasksFit, Task
<1>2. /\ i \in Items /\ i = t.batch[1] /\ Tail(t.batch) \in Seq(Items)
      /\ Len(t.batch) \in Nat \ {0} /\ Len(Tail(t.batch)) = Len(t.batch) - 1
      /\ \A k \in 1..Len(Tail(t.batch)) : Tail(t.batch)[k] = t.batch[k + 1]
      /\ DOMAIN t.batch = 1..Len(t.batch)
      /\ DOMAIN Tail(t.batch) = 1..Len(Tail(t.batch))
  <2>1. /\ i \in Items /\ i = t.batch[1] /\ Tail(t.batch) \in Seq(Items)
        /\ Len(t.batch) \in Nat \ {0} /\ Len(Tail(t.batch)) = Len(t.batch) - 1
        /\ \A k \in 1..Len(Tail(t.batch)) : Tail(t.batch)[k] = t.batch[k + 1]
    BY <1>1, HeadAndTail
  <2>2. DOMAIN t.batch = 1..Len(t.batch) /\ DOMAIN Tail(t.batch) = 1..Len(Tail(t.batch))
    BY <1>1, <2>1
  <2> QED BY <2>1, <2>2
<1>3. /\ u \in Task /\ u.targets = <<>> /\ u.batch = Tail(t.batch) /\ u.fresh = t.fresh
      /\ u.home = t.home
  BY <1>1, <1>2 DEF Task
<1> HIDE DEF u
<1>4. /\ v \in Task /\ TaskFits(v) /\ ~Locked(v) /\ v.step \in {"drain", "process", "idle"}
      /\ v.home \in {1, t.home} /\ v.fresh = t.fresh
      /\ v.step = "drain" => v.batch = Tail(t.batch) /\ Tail(t.batch) # <<>>
  BY <1>3, DrainedIs
<1> HIDE DEF v
<1>5. v.home <= session /\ PassCovers(v, seen)
  BY <1>1, <1>4, Numbers DEF PassCovers, IInv, TypeOK, Sessions
<1>6. /\ pending' \in [Items -> Doc]
      /\ \A x \in Items : pending'[x] = IF x = i THEN "none" ELSE pending[x]
  BY <1>1, <1>2 DEF IInv, TypeOK, Doc
<1>7. task' \in [Runners -> Task] /\ TasksFit'
  BY <1>1, <1>4, <1>5, FitsMove DEF locks
<1>8. Exclusive'
  BY <1>1, <1>4, LocksStay DEF locks
<1>9. Covers'
  <2>1. CursorCoversSeen'
    BY <1>1, CursorStays
  <2> QED BY <1>1, <1>5, <2>1, CoversMove
<1>10. Once'
  BY <1>1, <1>4, OnceStays DEF locks
<1>11. task'[p] = v /\ \A q \in Runners : q # p => task'[q] = task[q]
  BY <1>1, OneTask
<1>12. OneResumer => Kept'
  <2> SUFFICES ASSUME OneResumer, faults = 0 PROVE Kept'
    BY <1>1 DEF Kept, bounds
  <2>1. NothingLost /\ Unfailing /\ \A q \in Runners : Draining(task[q], pending)
    BY DEF IInv, Kept
  <2>2. Unfailing'
    BY <1>1, <1>6, <2>1 DEF Unfailing
  <2>3. Draining(v, pending')
    <3> SUFFICES ASSUME v.step = "drain" PROVE Draining(v, pending')
      BY <1>4 DEF Draining
    <3> DEFINE b == t.batch
               r == Tail(b)
    <3>1. v.batch = r /\ r # <<>> /\ r \in Seq(Items)
      BY <1>2, <1>4
    <3>2. /\ IsInjective(b)
          /\ \A k \in 2..Len(b) : pending[b[k]] # "none"
      BY <1>1, <2>1 DEF Draining
    <3>3. Head(r) = r[1] /\ Len(r) \in Nat \ {0}
      BY <3>1, HeadAndTail
    <3>4. ASSUME NEW k \in 1..Len(r) PROVE pending'[r[k]] # "none"
      <4>1. r[k] = b[k + 1] /\ k + 1 \in 2..Len(b) /\ k + 1 \in DOMAIN b /\ 1 \in DOMAIN b
        BY <1>2, <3>4
      <4>2. r[k] # i
        BY <1>2, <3>2, <4>1 DEF IsInjective
      <4>3. r[k] \in Items
        BY <3>1, <3>4
      <4> QED BY <1>6, <3>2, <4>1, <4>2, <4>3
    <3>5. IsInjective(r)
      <4> SUFFICES ASSUME NEW k \in DOMAIN r, NEW l \in DOMAIN r, r[k] = r[l] PROVE k = l
        BY DEF IsInjective
      <4>1. b[k + 1] = b[l + 1] /\ k + 1 \in DOMAIN b /\ l + 1 \in DOMAIN b /\ k \in Nat /\ l \in Nat
        BY <1>2
      <4>2. k + 1 = l + 1
        BY <3>2, <4>1 DEF IsInjective
      <4> QED BY <4>1, <4>2
    <3> HIDE DEF b, r
    <3> QED BY <3>1, <3>3, <3>4, <3>5 DEF Draining
  <2>4. ASSUME NEW q \in Runners PROVE Draining(task'[q], pending')
    <3>1. CASE q = p
      BY <1>11, <2>3, <3>1
    <3>2. CASE q # p
      <4>1. q \notin Resumers
        BY <1>1, <3>2 DEF OneResumer
      <4>2. task[q].step \notin {"list", "drain", "erase"}
        BY <4>1 DEF IInv, TasksFit
      <4> QED BY <1>11, <3>2, <4>2 DEF Draining
    <3> QED BY <3>1, <3>2
  <2>5. ASSUME NEW x \in Items, seen[x] = "whole"
        PROVE  x \in done \/ pending'[x] = "whole" \/ InHand(x)'
    <3>1. InHand(x) => InHand(x)'
      BY <1>4, <1>11 DEF InHand
    <3>2. CASE x = i
      <4>1. i \in ToSet(t.fresh)
        BY <1>1, <2>1 DEF Draining
      <4> QED BY <3>1, <3>2, <4>1 DEF InHand
    <3>3. CASE x # i
      BY <1>6, <2>1, <2>5, <3>1, <3>3 DEF NothingLost
    <3> QED BY <3>2, <3>3
  <2> QED BY <1>1, <2>2, <2>4, <2>5 DEF Kept, NothingLost
<1>13. TypeOK'
  BY <1>1, <1>6, <1>7 DEF IInv, TypeOK, locks, bounds
<1> QED BY <1>7, <1>8, <1>9, <1>10, <1>12, <1>13 DEF IInv, OneResumer

\* Whether a call that fails holds a run-lock.
LEMMA AbortEnds ==
    ASSUME IInv, NEW p \in Runners, Abort(p),
           task[p].step \in {"load", "seen", "mark", "push", "save", "list", "drain", "erase"}
    PROVE  \/ Locked(task[p]) /\ Finish(p)
           \/ ~Locked(task[p]) /\ Become(p, Idle) /\ UNCHANGED running
BY TaskIs DEF Abort, Resumes, Locked, TaskFits

LEMMA ReadFailsStep == ASSUME IInv, NEW p \in Runners, ReadFails(p) PROVE IInv'
<1> DEFINE t == task[p]
<1>1. /\ t \in Task /\ TaskFits(t)
      /\ UNCHANGED <<published, disk, session, collected, done, bounds>>
  BY TaskIs DEF ReadFails
<1>2. t.step \in {"load", "seen", "push", "drain"}
  BY DEF ReadFails, Unreadable, At
<1>3. \/ Locked(t) /\ Finish(p)
      \/ ~Locked(t) /\ Become(p, Idle) /\ UNCHANGED running
  BY <1>2, AbortEnds DEF ReadFails
<1>4. ASSUME OneResumer, faults = 0 PROVE FALSE
  <2>1. Unfailing
    BY <1>4 DEF IInv, Kept
  <2>2. t.targets \in Seq(Sources) /\ t.batch \in Seq(Items) /\ t.fresh \in Seq(Items)
    BY <1>1 DEF Task
  <2>3. t.step = "load" => Head(t.targets) \in Sources
    BY <1>1, <2>2 DEF TaskFits
  <2>4. t.step \in {"seen", "drain"} => Head(t.batch) \in Items
    BY <1>1, <2>2, HeadAndTail DEF TaskFits
  <2>5. t.step = "push" => Head(t.fresh) \in Items
    BY <1>1, <2>2, HeadAndTail DEF TaskFits
  <2> QED BY <2>1, <2>3, <2>4, <2>5 DEF ReadFails, Unreadable, At, Unfailing
<1>5. CursorCoversSeen'
  BY <1>1, CursorStays DEF disk
<1> QED BY <1>1, <1>3, <1>4, <1>5, PlainEnd DEF disk, IInv, TypeOK

\* What a store call that fails may leave behind.
LEMMA TearIs ==
    ASSUME IInv, NEW p \in Runners, UNCHANGED disk \/ Tear(p)
    PROVE  /\ cursor' \in [Sources -> (0..MaxItems) \cup {Torn}]
           /\ seen' \in [Items -> Doc] /\ pending' \in [Items -> Doc]
           /\ \A i \in Items : \/ seen'[i] = seen[i]
                               \/ /\ task[p].step = "mark" /\ i = Head(task[p].batch)
                                  /\ seen'[i] = "torn"
           /\ CursorCoversSeen'
<1>1. task[p] \in Task /\ cursor \in [Sources -> (0..MaxItems) \cup {Torn}]
      /\ seen \in [Items -> Doc] /\ pending \in [Items -> Doc]
  BY TaskIs DEF IInv, TypeOK
<1>2. CASE UNCHANGED disk
  BY <1>1, <1>2, CursorStays DEF disk
<1>3. CASE At(p, "mark") /\ seen' = [seen EXCEPT ![Head(task[p].batch)] = "torn"]
           /\ UNCHANGED <<cursor, pending>>
  <2> DEFINE h == Head(task[p].batch)
  <2>1. seen' = [seen EXCEPT ![h] = "torn"]
    BY <1>3
  <2> HIDE DEF h
  <2>2. \A i \in Items : seen'[i] = IF i = h THEN "torn" ELSE seen[i]
    BY <1>1, <2>1
  <2>3. seen' \in [Items -> Doc]
    BY <1>1, <2>1 DEF Doc
  <2>4. \A i \in Items : seen[i] # "none" => seen'[i] # "none"
    BY <2>2
  <2>5. CursorCoversSeen'
    BY <1>3, <2>4, CursorStays
  <2> QED BY <1>1, <1>3, <2>2, <2>3, <2>5 DEF h, At
<1>4. CASE At(p, "push") /\ pending' = [pending EXCEPT ![Head(task[p].fresh)] = "torn"]
           /\ UNCHANGED <<cursor, seen>>
  <2>1. pending' \in [Items -> Doc]
    BY <1>1, <1>4 DEF Doc
  <2> QED BY <1>1, <1>4, <2>1, CursorStays
<1>5. CASE At(p, "save") /\ cursor' = [cursor EXCEPT ![Head(task[p].targets)] = Torn]
           /\ UNCHANGED <<seen, pending>>
  <2>1. \A s \in Sources : cursor'[s] \in {cursor[s], Torn}
    BY <1>1, <1>5
  <2>2. cursor' \in [Sources -> (0..MaxItems) \cup {Torn}]
    BY <1>1, <1>5
  <2>3. CursorCoversSeen'
    BY <1>5, <2>1 DEF IInv, Covers, CursorCoversSeen
  <2> QED BY <1>1, <1>5, <2>2, <2>3
<1> QED BY <1>2, <1>3, <1>4, <1>5 DEF Tear

LEMMA StoreFailsStep == ASSUME IInv, NEW p \in Runners, StoreFails(p) PROVE IInv'
<1>1. /\ cursor' \in [Sources -> (0..MaxItems) \cup {Torn}]
      /\ seen' \in [Items -> Doc] /\ pending' \in [Items -> Doc]
      /\ \A i \in Items : \/ seen'[i] = seen[i]
                          \/ /\ task[p].step = "mark" /\ i = Head(task[p].batch)
                             /\ seen'[i] = "torn"
      /\ CursorCoversSeen'
  BY TearIs DEF StoreFails
<1>2. \/ Locked(task[p]) /\ Finish(p)
      \/ ~Locked(task[p]) /\ Become(p, Idle) /\ UNCHANGED running
  BY AbortEnds DEF StoreFails
<1> QED BY <1>1, <1>2, FaultyEnd DEF StoreFails

LEMMA CrashStep == ASSUME IInv, Crash PROVE IInv'
<1>1. /\ faults' \in Nat /\ faults' # 0
      /\ running' = [h \in Sessions |-> {}]
      /\ task' = [p \in Runners |-> Idle]
      /\ UNCHANGED <<published, session, collected, done, calls>>
  BY DEF Crash, IInv, TypeOK
<1>2. /\ cursor' \in [Sources -> (0..MaxItems) \cup {Torn}]
      /\ seen' \in [Items -> Doc] /\ pending' \in [Items -> Doc]
      /\ CursorCoversSeen'
      /\ session = 1 => \A i \in Items : (seen'[i] = "whole") <=> (seen[i] = "whole")
  <2>1. CASE UNCHANGED disk
    BY <2>1, CursorStays DEF disk, IInv, TypeOK
  <2>2. ASSUME NEW p \in Runners, Tear(p)
        PROVE  /\ cursor' \in [Sources -> (0..MaxItems) \cup {Torn}]
               /\ seen' \in [Items -> Doc] /\ pending' \in [Items -> Doc]
               /\ CursorCoversSeen'
               /\ session = 1 => \A i \in Items : (seen'[i] = "whole") <=> (seen[i] = "whole")
    <3>1. session = 1 /\ task[p].step = "mark" => seen[Head(task[p].batch)] = "none"
      BY DEF IInv, Once
    <3> QED BY <2>2, <3>1, TearIs
  <2> QED BY <2>1, <2>2 DEF Crash
<1>3. TypeOK'
  BY <1>1, <1>2, IdleIs DEF IInv, TypeOK
<1>4. TasksFit' /\ Exclusive'
  BY <1>1, IdleIs, Numbers DEF TasksFit, Exclusive, IInv, TypeOK, Sessions
<1>5. Covers'
  BY <1>1, <1>2, IdleIs DEF Covers, PassCovers
<1>6. Once'
  BY <1>1, <1>2, IdleIs DEF Once, IInv
<1> QED BY <1>1, <1>3, <1>4, <1>5, <1>6 DEF IInv, Kept

LEMMA RelockStep == ASSUME IInv, Relock PROVE IInv'
<1>1. session \in Nat /\ session >= 1 /\ session' = session + 1 /\ session' \in Sessions
  BY Numbers DEF Relock, IInv, TypeOK, Sessions
<1>2. TypeOK'
  BY <1>1 DEF Relock, IInv, TypeOK, disk, bounds
<1>3. TasksFit'
  <2> SUFFICES ASSUME NEW p \in Runners PROVE task[p].home <= session'
    BY DEF Relock, IInv, TasksFit
  <2> QED BY <1>1, TaskIs DEF Sessions
<1>4. Exclusive' /\ Covers'
  BY DEF Relock, disk, IInv, Exclusive, Covers, CursorCoversSeen
<1>5. Once'
  BY <1>1 DEF Once
<1>6. OneResumer => Kept'
  BY DEF Relock, disk, bounds, IInv, Kept, NothingLost, InHand, Unfailing
<1> QED BY <1>2, <1>3, <1>4, <1>5, <1>6 DEF IInv, OneResumer

LEMMA PublishStep == ASSUME IInv, Publish PROVE IInv'
<1> PICK s \in Sources :
        /\ published[s] < MaxItems
        /\ published' = [published EXCEPT ![s] = @ + 1]
        /\ UNCHANGED <<disk, locks, task, collected, done, bounds>>
  BY DEF Publish
<1>1. published' \in [Sources -> 0..MaxItems]
  BY Numbers DEF IInv, TypeOK
<1>2. TypeOK' /\ TasksFit' /\ Exclusive' /\ Covers' /\ Once'
  BY <1>1 DEF disk, locks, bounds, IInv, TypeOK, TasksFit, Exclusive, Covers, CursorCoversSeen, Once
<1>3. OneResumer => Kept'
  BY DEF disk, bounds, IInv, Kept, NothingLost, InHand, Unfailing
<1> QED BY <1>2, <1>3 DEF IInv, OneResumer

LEMMA NextStep == IInv /\ [Next]_vars => IInv'
<1> SUFFICES ASSUME IInv, [Next]_vars PROVE IInv'
  OBVIOUS
<1>1. CASE UNCHANGED vars
  BY <1>1 DEF vars, disk, locks, bounds, IInv, TypeOK, TasksFit, Exclusive, Covers,
              CursorCoversSeen, Once, OneResumer, Kept, NothingLost, InHand, Unfailing
<1>2. ASSUME NEW p \in Runners, BeginTrigger(p) \/ BeginResume(p) PROVE IInv'
  BY <1>2, BeginTriggerStep, BeginResumeStep
<1>3. ASSUME NEW p \in Runners, Work(p) PROVE IInv'
  BY <1>3, TryLockStep, LoadCursorStep, SyncStep, SyncFailsStep, CheckSeenStep, MarkSeenStep,
     SaveCursorStep, SummarizeStep, RouteStep, ParkStep, PushStep, OfflineStep, ListPendingStep,
     DrainGetStep, EraseStep, ReadFailsStep DEF Work
<1>4. ASSUME NEW p \in Runners, StoreFails(p) PROVE IInv'
  BY <1>4, StoreFailsStep
<1>5. CASE Crash \/ Relock \/ Publish
  BY <1>5, CrashStep, RelockStep, PublishStep
<1> QED BY <1>1, <1>2, <1>3, <1>4, <1>5 DEF Next

-----------------------------------------------------------------------------
(* The theorems.                                                           *)

\* The invariant holds in every state of every behaviour.
THEOREM InductiveInvariant == Spec => []IInv
BY BeginsWell, NextStep, PTL DEF Spec

\* Every variable keeps its type: no window reaches past what a source has.
THEOREM TypeCorrect == Spec => []TypeOK
<1>1. IInv => TypeOK
  BY DEF IInv
<1> QED BY <1>1, InductiveInvariant, PTL

\* BR-I1, BR-M2: as long as there is one service set, its run-locks keep any number of
\* overlapping triggers, failures and crashes from collecting an item twice.
THEOREM OnceCollected == Spec => []CollectedOnce
<1>1. IInv => CollectedOnce
  <2> SUFFICES ASSUME IInv, session = 1, NEW i \in Items PROVE collected[i] <= 1
    BY DEF CollectedOnce
  <2> QED BY DEF IInv, Once
<1> QED BY <1>1, InductiveInvariant, PTL

\* BR-I3: the saved cursor covers only items that are in the seen-set, across service
\* sets too, which share no run-lock.
THEOREM CursorIsSafe == Spec => []CursorCoversSeen
<1>1. IInv => CursorCoversSeen
  BY DEF IInv, Covers
<1> QED BY <1>1, InductiveInvariant, PTL

\* pending.rs:3, BR-I2: without a failing store call nothing is lost, if resumptions
\* do not overlap. Two that do can lose an item: one of them erases what the other has
\* drained, processed and parked again.
THEOREM NothingIsLost ==
    ASSUME \A p, q \in Resumers : p = q
    PROVE  Spec => []NothingLostUnfailing
<1>1. IInv => NothingLostUnfailing
  BY DEF IInv, OneResumer, Kept, NothingLostUnfailing
<1> QED BY <1>1, InductiveInvariant, PTL
=============================================================================
