--------------------------- MODULE InterviewProofs ---------------------------
(***************************************************************************)
(* No two live questions ask the same thing, a question gives way only to  *)
(* one that stands for it, and what the owner answered is kept: for any    *)
(* questions, any order of the store, and any number of callers, calls and *)
(* failures.                                                               *)
(***************************************************************************)
EXTENDS Interview, FiniteSetTheorems, WellFoundedInduction, SequenceTheorems, TLAPS

-----------------------------------------------------------------------------
(* The inductive invariant.                                                *)

\* Which locals a call carries at which step.
TaskFits(t) ==
    /\ t.step = "idle" => t = Idle
    /\ t.step \in {"list", "put"} => t.item # None
    /\ t.step \in {"get", "upsert", "close", "sweep"} => t.item = None
    /\ t.step \in {"get", "upsert", "close"} => t.answering # None
    /\ t.step = "drop" <=> t.todo # <<>>
    /\ t.step = "drop" /\ t.item = None => t.answering = None
    /\ t.step = "sweep" => t.answering = None
    /\ t.ups # {} => t.answering # None /\ t.step \in {"list", "drop", "put"}

TasksFit == \A p \in Callers : TaskFits(task[p])

\* The questions a call still has to store: no other call has them, the queue has
\* never held them, and nothing was removed for them that this call did not remove.
Fresh(p) == task[p].ups \cup ({task[p].item} \ {None})

Untouched(p) == task[p].ups \cup (IF At(p, "list") THEN {task[p].item} ELSE {})

\* i is, or is to be, what another question gave way to, or it is stored.
Mentioned(i) ==
    \/ i \in queue
    \/ \E k \in Items : fate[k] = i
    \/ \E p \in Callers : \E n \in DOMAIN task[p].todo : task[p].todo[n].by = i

FreshFit ==
    /\ queue \subseteq used
    /\ \A i \in Items : fate[i] # None => i \in used
    /\ \A i \in Items : Mentioned(i) => i \in used
    /\ \A p \in Callers :
        /\ Fresh(p) \subseteq used \ queue
        /\ task[p].item \notin task[p].ups
        /\ \A i \in Fresh(p) : fate[i] = None
        /\ \A i \in Untouched(p) : ~Mentioned(i)
        /\ \A q \in Callers \ {p} : Fresh(p) \cap Fresh(q) = {}

\* Past upsert, the fact made from the answer is stored, or the answer was a no.
Refused(t) == t.reply = "reject" /\ Content[t.answering].kind = "confirm"

StoredFirst ==
    \A p \in Callers :
        task[p].answering # None /\ task[p].step \in {"list", "drop", "put", "close"} =>
            made[task[p].answering] > 0 \/ (At(p, "close") /\ Refused(task[p]))

\* Calls one after the other: there is one call at most, and what resembles the
\* question it is about to store has been removed or is about to be.
OneCall == serial => \A p, q \in Callers : ~At(p, "idle") /\ ~At(q, "idle") => p = q

Distinct ==
    serial => \A i, j \in queue \ due : i # j /\ NearDuplicate(i, j) => {i, j} \subseteq Legacy

Cleared ==
    serial => \A p \in Callers : task[p].item # None /\ task[p].step \in {"drop", "put"} =>
        \A e \in queue \ due : NearDuplicate(e, task[p].item) =>
            \E n \in DOMAIN task[p].todo : task[p].todo[n].id = e

\* The order of replacement: j is more important than i, or as important and listed first.
ListedBefore(j, i) ==
    \E m, n \in DOMAIN DirOrder : m < n /\ DirOrder[m] = j /\ DirOrder[n] = i

Over(j, i) ==
    \/ Priority(j) > Priority(i)
    \/ Priority(j) = Priority(i) /\ ListedBefore(j, i)

\* A question gives way to one above it, or did so before it was ever stored.
GivesWay ==
    /\ \A i \in Items : fate[i] \in Items =>
        /\ NearDuplicate(fate[i], i) /\ Priority(fate[i]) >= Priority(i)
        /\ Over(fate[i], i) \/ ~Mentioned(i)
    /\ \A p \in Callers : \A n \in DOMAIN task[p].todo :
        LET r == task[p].todo[n]
        IN  r.by \in Items => NearDuplicate(r.by, r.id) /\ Over(r.by, r.id)

\* What a question gave way to is stored, about to be, or gone for a reason of its own.
Stands(i) == i \in queue \/ InFlight(i) \/ fate[i] # None

StandIns ==
    faults + crashes = 0 => torn = {} /\ \A i \in Items : Mentioned(i) => Stands(i)

IInv ==
    /\ TypeOK /\ TasksFit /\ FreshFit
    /\ StoredFirst /\ AnswersAreKept
    /\ OneCall /\ Distinct /\ Cleared
    /\ GivesWay /\ StandIns

-----------------------------------------------------------------------------
(* Recursion over 0..N: induction, and functions defined by it.            *)

\* A set of numbers with 0 that is closed under the successor is all of 0..N.
LEMMA Induction ==
    ASSUME NEW N \in Nat, NEW S, 0 \in S, \A n \in 1..N : n - 1 \in S => n \in S
    PROVE  \A n \in 0..N : n \in S
<1> DEFINE T == (0..N) \ S
<1> SUFFICES ASSUME T # {} PROVE FALSE
  OBVIOUS
<1>1. PICK n \in T : \A k \in T : ~(<<k, n>> \in OpToRel(<, Nat))
  <2>1. T \subseteq Nat
    OBVIOUS
  <2> QED BY <2>1, NatLessThanWellFounded, WFMin
<1>2. n \in 1..N /\ n - 1 \in Nat /\ n - 1 \in 0..N /\ n - 1 < n
  OBVIOUS
<1>3. <<n - 1, n>> \in OpToRel(<, Nat)
  BY <1>2 DEF OpToRel
<1>4. n - 1 \notin T
  BY <1>1, <1>3
<1> QED BY <1>2, <1>4

\* next takes the position and what was reached before it; f is what it leads to.
IsLoop(N, T, next) == next \in [(1..N) \X T -> T]

Runs(N, T, base, next, f) ==
    /\ f \in [0..N -> T]
    /\ f[0] = base
    /\ \A n \in 1..N : f[n] = next[<<n, f[n - 1]>>]

\* Every loop over 1..N runs.
LEMMA Recursion ==
    ASSUME NEW N \in Nat, NEW T, NEW base \in T, NEW next, IsLoop(N, T, next)
    PROVE  \E f : Runs(N, T, base, next, f)
<1> USE DEF IsLoop
<1> DEFINE Built(n, f) == f[0] = base /\ \A k \in 1..n : f[k] = next[<<k, f[k - 1]>>]
           S == {n \in 0..N : \E f \in [0..N -> T] : Built(n, f)}
<1>1. 0 \in S
  <2> DEFINE g == [k \in 0..N |-> base]
  <2>1. g \in [0..N -> T] /\ g[0] = base
    OBVIOUS
  <2> HIDE DEF g
  <2>2. Built(0, g)
    BY <2>1
  <2> QED BY <2>1, <2>2
<1>2. ASSUME NEW n \in 1..N, n - 1 \in S PROVE n \in S
  <2>1. PICK f \in [0..N -> T] : Built(n - 1, f)
    BY <1>2
  <2> DEFINE g == [f EXCEPT ![n] = next[<<n, f[n - 1]>>]]
  <2>2. n - 1 \in 0..N /\ f[n - 1] \in T /\ n \in 0..N
    OBVIOUS
  <2>3. next[<<n, f[n - 1]>>] \in T
    BY <2>2
  <2>4. g \in [0..N -> T]
    BY <2>3
  <2>5. \A k \in 0..N : k # n => g[k] = f[k]
    OBVIOUS
  <2>6. g[n] = next[<<n, f[n - 1]>>]
    BY <2>2
  <2>7. g[0] = base
    BY <2>1, <2>5
  <2>8. ASSUME NEW k \in 1..n PROVE g[k] = next[<<k, g[k - 1]>>]
    <3>1. k - 1 \in 0..N /\ k - 1 # n /\ k \in 0..N
      OBVIOUS
    <3>2. g[k - 1] = f[k - 1]
      BY <2>5, <3>1
    <3>3. CASE k = n
      BY <2>6, <3>2, <3>3
    <3>4. CASE k # n
      <4>1. k \in 1..(n - 1) /\ g[k] = f[k]
        BY <3>1, <3>4, <2>5
      <4> QED BY <2>1, <3>2, <4>1
    <3> QED BY <3>3, <3>4
  <2> HIDE DEF g
  <2>9. Built(n, g)
    BY <2>7, <2>8
  <2> QED BY <2>4, <2>9
<1>3. N \in S
  <2>1. N \in 0..N
    OBVIOUS
  <2> HIDE DEF S
  <2> QED BY <1>1, <1>2, <2>1, Induction
<1> QED BY <1>3 DEF Runs

-----------------------------------------------------------------------------
(* What the loops over the stored questions compute.                       *)

LEMMA Numbers ==
    /\ DirOrder \in Seq(Items) /\ Len(DirOrder) \in Nat
    /\ DOMAIN DirOrder = 1..Len(DirOrder)
    /\ \A n \in 1..Len(DirOrder) : DirOrder[n] \in Items
    /\ \A m, n \in DOMAIN DirOrder : DirOrder[m] = DirOrder[n] => m = n
    /\ \A i \in Items : \E n \in DOMAIN DirOrder : DirOrder[n] = i
<1>1. DirOrder \in Seq(Items) /\ IsInjective(DirOrder) /\ ToSet(DirOrder) = Items
  BY InterviewAssumption DEF InterviewAssumption
<1>2. \A m, n \in DOMAIN DirOrder : DirOrder[m] = DirOrder[n] => m = n
  BY <1>1 DEF IsInjective
<1>3. \A i \in Items : \E n \in DOMAIN DirOrder : DirOrder[n] = i
  BY <1>1 DEF ToSet
<1> QED BY <1>1, <1>2, <1>3

\* The questions listed are the given ones.
LEMMA ListedFacts ==
    ASSUME NEW S \in SUBSET Items
    PROVE  /\ Listed(S) \in Seq(S)
           /\ \A i \in S : \E k \in DOMAIN Listed(S) : Listed(S)[k] = i
<1> DEFINE N == Len(DirOrder)
           upTo[n \in 0..N] ==
               IF n = 0 THEN <<>>
               ELSE IF DirOrder[n] \in S THEN Append(upTo[n - 1], DirOrder[n]) ELSE upTo[n - 1]
           next == [x \in (1..N) \X Seq(S) |->
                       IF DirOrder[x[1]] \in S THEN Append(x[2], DirOrder[x[1]]) ELSE x[2]]
<1>1. N \in Nat /\ <<>> \in Seq(S)
  BY Numbers
<1>2. next \in [(1..N) \X Seq(S) -> Seq(S)]
  OBVIOUS
<1>3. PICK f \in [0..N -> Seq(S)] :
         f[0] = <<>> /\ \A n \in 1..N : f[n] = next[<<n, f[n - 1]>>]
  <2>1. IsLoop(N, Seq(S), next)
    BY <1>2 DEF IsLoop
  <2>2. PICK f : Runs(N, Seq(S), <<>>, next, f)
    <3> HIDE DEF N, next
    <3> QED BY <1>1, <2>1, Recursion
  <2> QED BY <2>2 DEF Runs
<1>4. \A n \in 1..N : f[n] = IF DirOrder[n] \in S THEN Append(f[n - 1], DirOrder[n]) ELSE f[n - 1]
  <2> TAKE n \in 1..N
  <2>1. n - 1 \in 0..N
    BY <1>1
  <2> QED BY <1>3, <2>1
<1>5. f = [n \in 0..N |->
             IF n = 0 THEN <<>>
             ELSE IF DirOrder[n] \in S THEN Append(f[n - 1], DirOrder[n]) ELSE f[n - 1]]
  <2>1. \A n \in 0..N : f[n] =
             IF n = 0 THEN <<>>
             ELSE IF DirOrder[n] \in S THEN Append(f[n - 1], DirOrder[n]) ELSE f[n - 1]
    <3> TAKE n \in 0..N
    <3>1. CASE n = 0
      BY <1>3, <3>1
    <3>2. CASE n \in 1..N
      <4>1. n # 0
        BY <1>1, <3>2
      <4>2. f[n] = IF DirOrder[n] \in S THEN Append(f[n - 1], DirOrder[n]) ELSE f[n - 1]
        BY <1>4, <3>2, Zenon
      <4> QED BY <4>1, <4>2, Zenon
    <3>3. n = 0 \/ n \in 1..N
      BY <1>1
    <3> QED BY <3>1, <3>2, <3>3, Zenon
  <2>2. f = [n \in 0..N |-> f[n]]
    OBVIOUS
  <2> QED BY <2>1, <2>2, Zenon
<1>6. upTo = [n \in 0..N |->
             IF n = 0 THEN <<>>
             ELSE IF DirOrder[n] \in S THEN Append(upTo[n - 1], DirOrder[n]) ELSE upTo[n - 1]]
  <2> HIDE DEF N
  <2> QED BY <1>5
<1>7. Listed(S) = upTo[N]
  BY DEF Listed
<1> HIDE DEF upTo, next
<1> DEFINE T == {n \in 0..N : /\ upTo[n] \in Seq(S)
                             /\ \A m \in 1..n : DirOrder[m] \in S =>
                                   \E k \in DOMAIN upTo[n] : upTo[n][k] = DirOrder[m]}
<1>8. 0 \in T
  BY <1>1, <1>6
<1>9. ASSUME NEW n \in 1..N, n - 1 \in T PROVE n \in T
  <2>1. n \in 0..N /\ n # 0
    BY <1>1
  <2>2. upTo[n] = IF DirOrder[n] \in S THEN Append(upTo[n - 1], DirOrder[n]) ELSE upTo[n - 1]
    BY <1>6, <2>1
  <2>3. PICK old \in Seq(S) : /\ old = upTo[n - 1]
                              /\ \A m \in 1..(n - 1) : DirOrder[m] \in S =>
                                    \E k \in DOMAIN old : old[k] = DirOrder[m]
    BY <1>9
  <2>4. CASE DirOrder[n] \in S
    <3>1. PICK new : new = Append(old, DirOrder[n])
      OBVIOUS
    <3>2. new \in Seq(S) /\ DOMAIN old \subseteq DOMAIN new /\ Len(new) \in DOMAIN new
          /\ \A k \in DOMAIN old : new[k] = old[k]
      BY <3>1, <2>4
    <3>3. new[Len(new)] = DirOrder[n]
      BY <3>1, <2>4
    <3>4. ASSUME NEW m \in 1..n, DirOrder[m] \in S PROVE \E k \in DOMAIN new : new[k] = DirOrder[m]
      <4>1. m = n \/ m \in 1..(n - 1)
        BY <1>1
      <4> QED BY <2>3, <3>2, <3>3, <3>4, <4>1
    <3>5. upTo[n] = new
      BY <2>2, <2>3, <2>4, <3>1
    <3> QED BY <2>1, <3>2, <3>4, <3>5
  <2>5. CASE DirOrder[n] \notin S
    <3>1. ASSUME NEW m \in 1..n, DirOrder[m] \in S PROVE m \in 1..(n - 1)
      BY <1>1, <2>5, <3>1
    <3> QED BY <2>1, <2>2, <2>3, <2>5, <3>1
  <2> QED BY <2>4, <2>5
<1>10. N \in T
  <2>1. N \in 0..N
    BY <1>1
  <2> HIDE DEF T, N
  <2> QED BY <1>1, <1>8, <1>9, <2>1, Induction
<1>11. \A i \in S : \E m \in 1..N : DirOrder[m] = i
  BY Numbers
<1> QED BY <1>7, <1>10, <1>11

\* A set of positions has a first one.
LEMMA First ==
    ASSUME NEW S \in SUBSET Nat, S # {}
    PROVE  \E k \in S : \A j \in S : k <= j
<1>1. PICK k \in S : \A j \in S : ~(<<j, k>> \in OpToRel(<, Nat))
  BY NatLessThanWellFounded, WFMin
<1>2. ASSUME NEW j \in S PROVE k <= j
  <2> SUFFICES ASSUME ~(k <= j) PROVE FALSE
    OBVIOUS
  <2>1. j \in Nat /\ k \in Nat /\ j < k
    OBVIOUS
  <2>2. <<j, k>> \in OpToRel(<, Nat)
    BY <2>1 DEF OpToRel
  <2> QED BY <1>1, <2>2
<1> QED BY <1>2

LEMMA PriorityType == \A i \in Items : Priority(i) \in Nat
<1> TAKE i \in Items
<1>1. Content[i].priority \in Nat
  BY InterviewAssumption DEF InterviewAssumption
<1>2. \A src : SourceWeight(src) \in Nat
  BY DEF SourceWeight
<1>3. Score(Content[i]) \in Nat
  BY <1>2 DEF Score
<1> QED BY <1>1, <1>3 DEF Priority

LEMMA NearIsSymmetric == \A i, j : NearDuplicate(i, j) => NearDuplicate(j, i)
<1> SUFFICES ASSUME NEW i, NEW j, NearDuplicate(i, j) PROVE NearDuplicate(j, i)
  OBVIOUS
<1>1. PICK pair \in Near : pair = <<Content[i].text, Content[j].text>>
  BY DEF NearDuplicate
<1>2. <<pair[2], pair[1]>> \in Near
  BY InterviewAssumption DEF InterviewAssumption
<1> QED BY <1>1, <1>2 DEF NearDuplicate

\* One turn of the loop of expire.
Sweeping(S) == [kept : Seq(S), drop : Seq([id : S, by : S])]

Keeps(acc, i) == \E k \in DOMAIN acc.kept : acc.kept[k] = i

Loses(acc, i, r) ==
    \/ r.by = i /\ Keeps(acc, r.id) /\ NearDuplicate(i, r.id) /\ Priority(i) > Priority(r.id)
    \/ r.id = i /\ Keeps(acc, r.by) /\ NearDuplicate(r.by, i) /\ Priority(r.by) >= Priority(i)

LEMMA CollapseFacts ==
    ASSUME NEW S \in SUBSET Items, NEW acc \in Sweeping(S), NEW i \in S
    PROVE  /\ Collapse(acc, i) \in Sweeping(S)
           /\ \A h : Keeps(Collapse(acc, i), h) => h = i \/ Keeps(acc, h)
           /\ \A n \in DOMAIN Collapse(acc, i).drop :
                \/ n \in DOMAIN acc.drop /\ Collapse(acc, i).drop[n] = acc.drop[n]
                \/ Loses(acc, i, Collapse(acc, i).drop[n])
<1> DEFINE hits == {k \in DOMAIN acc.kept : NearDuplicate(acc.kept[k], i)}
           pos == CHOOSE k \in hits : \A j \in hits : k <= j
           new == Collapse(acc, i)
<1>1. PICK kept \in Seq(S), drop \in Seq([id : S, by : S]) : acc = [kept |-> kept, drop |-> drop]
  BY DEF Sweeping
<1>2. acc.kept = kept /\ acc.drop = drop
  BY <1>1
<1>3. CASE hits = {}
  <2>1. new = [acc EXCEPT !.kept = Append(@, i)]
    BY <1>3 DEF Collapse
  <2>2. new = [kept |-> Append(kept, i), drop |-> drop]
    BY <1>1, <2>1
  <2>3. Append(kept, i) \in Seq(S)
    OBVIOUS
  <2>4. \A k \in DOMAIN Append(kept, i) : Append(kept, i)[k] = i \/ (k \in DOMAIN kept /\ Append(kept, i)[k] = kept[k])
    OBVIOUS
  <2> HIDE DEF new
  <2>5. new \in Sweeping(S)
    BY <2>2, <2>3 DEF Sweeping
  <2>6. \A h : Keeps(new, h) => h = i \/ Keeps(acc, h)
    BY <1>2, <2>2, <2>4 DEF Keeps
  <2>7. new.drop = acc.drop
    BY <1>2, <2>2
  <2> QED BY <2>5, <2>6, <2>7 DEF new
<1>4. CASE hits # {}
  <2>1. hits \subseteq Nat
    BY <1>2
  <2>2. pos \in hits
    <3> HIDE DEF hits
    <3>1. \E k \in hits : \A j \in hits : k <= j
      BY <1>4, <2>1, First
    <3> QED BY <3>1
  <2>3. PICK old \in S : old = kept[pos] /\ NearDuplicate(old, i)
    <3>1. pos \in DOMAIN kept /\ NearDuplicate(kept[pos], i)
      BY <1>2, <2>2
    <3> HIDE DEF pos
    <3>2. kept[pos] \in S
      BY <3>1
    <3> QED BY <3>1, <3>2
  <2>4. Keeps(acc, old) /\ pos \in DOMAIN kept
    BY <1>2, <2>2, <2>3 DEF Keeps
  <2>5. NearDuplicate(i, old)
    BY <2>3, NearIsSymmetric
  <2>6. Priority(i) \in Nat /\ Priority(old) \in Nat
    BY PriorityType
  <2>7. ASSUME NEW r \in [id : S, by : S], Loses(acc, i, r), NEW k2 \in Seq(S),
               \A k \in DOMAIN k2 : k2[k] = i \/ (k \in DOMAIN kept /\ k2[k] = kept[k]),
               new = [kept |-> k2, drop |-> Append(drop, r)]
        PROVE  /\ new \in Sweeping(S)
               /\ \A h : Keeps(new, h) => h = i \/ Keeps(acc, h)
               /\ \A n \in DOMAIN new.drop :
                    \/ n \in DOMAIN acc.drop /\ new.drop[n] = acc.drop[n]
                    \/ Loses(acc, i, new.drop[n])
    <3> HIDE DEF new
    <3>1. Append(drop, r) \in Seq([id : S, by : S])
      OBVIOUS
    <3>2. \A n \in DOMAIN Append(drop, r) :
             Append(drop, r)[n] = r \/ (n \in DOMAIN drop /\ Append(drop, r)[n] = drop[n])
      OBVIOUS
    <3>3. new \in Sweeping(S)
      BY <2>7, <3>1 DEF Sweeping
    <3>4. new.kept = k2 /\ new.drop = Append(drop, r)
      BY <2>7
    <3>5. \A h : Keeps(new, h) => h = i \/ Keeps(acc, h)
      BY <1>2, <2>7, <3>4 DEF Keeps
    <3> QED BY <1>2, <2>7, <3>2, <3>3, <3>4, <3>5
  <2>8. CASE Priority(i) > Priority(old)
    <3> DEFINE r == [id |-> old, by |-> i]
               k2 == [kept EXCEPT ![pos] = i]
    <3>1. new = [kept |-> k2, drop |-> Append(drop, r)]
      BY <1>2, <1>4, <2>3, <2>8 DEF Collapse
    <3>2. r \in [id : S, by : S] /\ Loses(acc, i, r)
      BY <2>4, <2>5, <2>8 DEF Loses
    <3>3. k2 \in Seq(S) /\ \A k \in DOMAIN k2 : k2[k] = i \/ (k \in DOMAIN kept /\ k2[k] = kept[k])
      BY <2>4
    <3> HIDE DEF r, k2
    <3> QED BY <2>7, <3>1, <3>2, <3>3
  <2>9. CASE ~(Priority(i) > Priority(old))
    <3> DEFINE r == [id |-> i, by |-> old]
    <3>1. new = [acc EXCEPT !.drop = Append(@, r)]
      BY <1>2, <1>4, <2>3, <2>9 DEF Collapse
    <3>2. new = [kept |-> kept, drop |-> Append(drop, r)]
      BY <1>1, <3>1
    <3>3. r \in [id : S, by : S] /\ Loses(acc, i, r)
      BY <2>3, <2>4, <2>6, <2>9 DEF Loses
    <3> HIDE DEF r
    <3>4. \A k \in DOMAIN kept : kept[k] = i \/ (k \in DOMAIN kept /\ kept[k] = kept[k])
      OBVIOUS
    <3> QED BY <2>7, <3>2, <3>3, <3>4, Zenon
  <2> QED BY <2>8, <2>9
<1> QED BY <1>3, <1>4

\* A question the sweep removes gives way to one above it; both were alive.
LEMMA LosersFacts ==
    ASSUME NEW S \in SUBSET Items
    PROVE  /\ Losers(S) \in Seq([id : S, by : S])
           /\ \A n \in DOMAIN Losers(S) :
                /\ NearDuplicate(Losers(S)[n].by, Losers(S)[n].id)
                /\ Over(Losers(S)[n].by, Losers(S)[n].id)
<1> DEFINE N == Len(DirOrder)
           none == [kept |-> <<>>, drop |-> <<>>]
           after[n \in 0..N] ==
               IF n = 0 THEN [kept |-> <<>>, drop |-> <<>>]
               ELSE IF DirOrder[n] \in S THEN Collapse(after[n - 1], DirOrder[n]) ELSE after[n - 1]
           next == [x \in (1..N) \X Sweeping(S) |->
                       IF DirOrder[x[1]] \in S THEN Collapse(x[2], DirOrder[x[1]]) ELSE x[2]]
<1>1. N \in Nat /\ none \in Sweeping(S)
  BY Numbers DEF Sweeping
<1>2. next \in [(1..N) \X Sweeping(S) -> Sweeping(S)]
  <2>1. \A acc \in Sweeping(S), i \in S : Collapse(acc, i) \in Sweeping(S)
    BY CollapseFacts
  <2> HIDE DEF N
  <2> QED BY <2>1
<1>3. PICK f \in [0..N -> Sweeping(S)] :
         f[0] = none /\ \A n \in 1..N : f[n] = next[<<n, f[n - 1]>>]
  <2>1. IsLoop(N, Sweeping(S), next)
    BY <1>2 DEF IsLoop
  <2>2. PICK f : Runs(N, Sweeping(S), none, next, f)
    <3> HIDE DEF N, next, none
    <3> QED BY <1>1, <2>1, Recursion
  <2> QED BY <2>2 DEF Runs
<1>4. \A n \in 1..N : f[n] = IF DirOrder[n] \in S THEN Collapse(f[n - 1], DirOrder[n]) ELSE f[n - 1]
  <2> TAKE n \in 1..N
  <2>1. n - 1 \in 0..N
    BY <1>1
  <2>2. f[n - 1] \in Sweeping(S)
    BY <2>1
  <2> QED BY <1>3, <2>2
<1>5. f = [n \in 0..N |->
             IF n = 0 THEN [kept |-> <<>>, drop |-> <<>>]
             ELSE IF DirOrder[n] \in S THEN Collapse(f[n - 1], DirOrder[n]) ELSE f[n - 1]]
  <2>1. \A n \in 0..N : f[n] =
             IF n = 0 THEN [kept |-> <<>>, drop |-> <<>>]
             ELSE IF DirOrder[n] \in S THEN Collapse(f[n - 1], DirOrder[n]) ELSE f[n - 1]
    <3> TAKE n \in 0..N
    <3>1. CASE n = 0
      BY <1>3, <3>1
    <3>2. CASE n \in 1..N
      <4>1. n # 0
        BY <1>1, <3>2
      <4>2. f[n] = IF DirOrder[n] \in S THEN Collapse(f[n - 1], DirOrder[n]) ELSE f[n - 1]
        BY <1>4, <3>2, Zenon
      <4> QED BY <4>1, <4>2, Zenon
    <3>3. n = 0 \/ n \in 1..N
      BY <1>1
    <3> QED BY <3>1, <3>2, <3>3, Zenon
  <2>2. f = [n \in 0..N |-> f[n]]
    OBVIOUS
  <2> QED BY <2>1, <2>2, Zenon
<1>6. after = [n \in 0..N |->
             IF n = 0 THEN [kept |-> <<>>, drop |-> <<>>]
             ELSE IF DirOrder[n] \in S THEN Collapse(after[n - 1], DirOrder[n]) ELSE after[n - 1]]
  <2> HIDE DEF N
  <2> QED BY <1>5
<1>7. Losers(S) = after[N].drop
  BY DEF Losers
<1> HIDE DEF after, next
<1> DEFINE Sound(n, acc) ==
               /\ acc \in Sweeping(S)
               /\ \A h : Keeps(acc, h) => \E m \in 1..n : DirOrder[m] = h
               /\ \A k \in DOMAIN acc.drop :
                    NearDuplicate(acc.drop[k].by, acc.drop[k].id) /\ Over(acc.drop[k].by, acc.drop[k].id)
           T == {n \in 0..N : Sound(n, after[n])}
<1>8. 0 \in T
  <2>1. after[0] = none /\ 0 \in 0..N
    BY <1>1, <1>6
  <2>2. Sound(0, none)
    BY <1>1 DEF Keeps
  <2> HIDE DEF Sound, none
  <2> QED BY <2>1, <2>2
<1>9. ASSUME NEW n \in 1..N, n - 1 \in T PROVE n \in T
  <2>1. n \in 0..N /\ n # 0
    BY <1>1
  <2>2. after[n] = IF DirOrder[n] \in S THEN Collapse(after[n - 1], DirOrder[n]) ELSE after[n - 1]
    BY <1>6, <2>1
  <2>3. Sound(n - 1, after[n - 1])
    BY <1>9
  <2>4. PICK acc \in Sweeping(S) : acc = after[n - 1]
    BY <2>3
  <2>5. Sound(n - 1, acc)
    BY <2>3, <2>4
  <2>6. \A m \in 1..(n - 1) : m \in 1..n /\ m < n
    BY <1>1
  <2>7. CASE DirOrder[n] \in S
    <3>1. PICK i \in S : i = DirOrder[n]
      BY <2>7
    <3>2. PICK new \in Sweeping(S) : new = Collapse(acc, i)
      BY CollapseFacts
    <3>3. /\ \A h : Keeps(new, h) => h = i \/ Keeps(acc, h)
          /\ \A k \in DOMAIN new.drop :
               (k \in DOMAIN acc.drop /\ new.drop[k] = acc.drop[k]) \/ Loses(acc, i, new.drop[k])
      BY <3>2, CollapseFacts
    <3>4. n \in 1..n
      BY <1>1
    <3>5. \A h : Keeps(new, h) => \E m \in 1..n : DirOrder[m] = h
      BY <2>5, <2>6, <3>1, <3>3, <3>4
    <3>6. ASSUME NEW r \in [id : S, by : S], Loses(acc, i, r)
          PROVE  NearDuplicate(r.by, r.id) /\ Over(r.by, r.id)
      <4>1. Priority(r.by) \in Nat /\ Priority(r.id) \in Nat
        BY PriorityType
      <4>2. CASE r.by = i /\ NearDuplicate(i, r.id) /\ Priority(i) > Priority(r.id)
        BY <4>2 DEF Over
      <4>3. CASE r.id = i /\ Keeps(acc, r.by) /\ NearDuplicate(r.by, i) /\ Priority(r.by) >= Priority(i)
        <5>1. PICK m \in 1..(n - 1) : DirOrder[m] = r.by
          BY <2>5, <4>3
        <5>2. m \in DOMAIN DirOrder /\ n \in DOMAIN DirOrder /\ m < n
          BY <2>6, Numbers
        <5>3. ListedBefore(r.by, i)
          BY <3>1, <5>1, <5>2 DEF ListedBefore
        <5> QED BY <4>1, <4>3, <5>3 DEF Over
      <4> QED BY <3>6, <4>2, <4>3 DEF Loses
    <3>7. \A k \in DOMAIN new.drop : new.drop[k] \in [id : S, by : S]
      <4>1. PICK drop \in Seq([id : S, by : S]) : drop = new.drop
        BY DEF Sweeping
      <4>2. \A k \in DOMAIN drop : drop[k] \in [id : S, by : S]
        <5> HIDE DEF N
        <5> DEFINE R == [id : S, by : S]
        <5> HIDE DEF R
        <5>1. drop \in Seq(R)
          BY DEF R
        <5>2. \A k \in DOMAIN drop : drop[k] \in R
          BY <5>1
        <5> QED BY <5>2 DEF R
      <4> QED BY <4>1, <4>2
    <3>8. \A k \in DOMAIN new.drop :
              NearDuplicate(new.drop[k].by, new.drop[k].id) /\ Over(new.drop[k].by, new.drop[k].id)
      BY <2>5, <3>3, <3>6, <3>7
    <3>9. Sound(n, new)
      BY <3>5, <3>8
    <3>10. after[n] = new
      BY <2>2, <2>4, <2>7, <3>1, <3>2
    <3> HIDE DEF Sound
    <3> QED BY <2>1, <3>9, <3>10
  <2>8. CASE DirOrder[n] \notin S
    <3>1. Sound(n, acc)
      BY <2>5, <2>6
    <3>2. after[n] = acc
      BY <2>2, <2>4, <2>8
    <3> HIDE DEF Sound
    <3> QED BY <2>1, <3>1, <3>2
  <2> QED BY <2>7, <2>8
<1>10. N \in T
  <2>1. N \in 0..N
    BY <1>1
  <2> HIDE DEF T, N
  <2> QED BY <1>1, <1>8, <1>9, <2>1, Induction
<1>11. Sound(N, after[N])
  BY <1>10
<1> HIDE DEF N
<1> QED BY <1>7, <1>11 DEF Sweeping

\* The best of several questions is one of them, and no other has a higher priority.
LEMMA BestFacts ==
    ASSUME NEW s \in Seq(Items), s # <<>>
    PROVE  \E k \in DOMAIN s :
               Best(s) = s[k] /\ \A j \in DOMAIN s : Priority(s[j]) <= Priority(s[k])
<1> DEFINE Ahead(k, j) == Priority(s[j]) < Priority(s[k]) \/ (Priority(s[j]) = Priority(s[k]) /\ j < k)
           T == {n \in 0..Len(s) : n = 0 \/ \E k \in 1..n : \A j \in (1..n) \ {k} : Ahead(k, j)}
<1>1. Len(s) \in Nat /\ DOMAIN s = 1..Len(s) /\ Len(s) # 0
  OBVIOUS
<1>2. \A k \in 1..Len(s) : Priority(s[k]) \in Nat
  BY <1>1, PriorityType
<1>3. 0 \in T
  BY <1>1
<1>4. ASSUME NEW n \in 1..Len(s), n - 1 \in T PROVE n \in T
  <2>1. n \in 0..Len(s) /\ n \in 1..n /\ \A j \in 1..n : j = n \/ j \in 1..(n - 1)
    BY <1>1
  <2>2. CASE n = 1
    BY <2>1, <2>2
  <2>3. CASE n # 1
    <3>1. PICK k \in 1..(n - 1) : \A j \in (1..(n - 1)) \ {k} : Ahead(k, j)
      BY <1>1, <1>4, <2>3
    <3>2. k \in 1..n /\ k < n /\ k \in 1..Len(s)
      BY <1>1
    <3>3. CASE Priority(s[n]) < Priority(s[k])
      <4>1. \A j \in (1..n) \ {k} : Ahead(k, j)
        BY <2>1, <3>1, <3>3
      <4> QED BY <2>1, <3>2, <4>1
    <3>4. CASE Priority(s[n]) >= Priority(s[k])
      <4>1. ASSUME NEW j \in (1..n) \ {n} PROVE Ahead(n, j)
        <5>1. j \in 1..(n - 1) /\ j < n /\ j \in 1..Len(s)
          BY <1>1
        <5>2. Priority(s[j]) <= Priority(s[k])
          BY <1>2, <3>1, <3>2, <5>1
        <5> QED BY <1>2, <3>2, <3>4, <5>1, <5>2
      <4> QED BY <2>1, <4>1
    <3> QED BY <1>2, <3>2, <3>3, <3>4
  <2> QED BY <2>2, <2>3
<1>5. Len(s) \in T
  <2>1. Len(s) \in 0..Len(s)
    BY <1>1
  <2> HIDE DEF T
  <2> QED BY <1>1, <1>3, <1>4, <2>1, Induction
<1> DEFINE best == CHOOSE k \in DOMAIN s : \A j \in DOMAIN s \ {k} : Ahead(k, j)
<1>6. best \in DOMAIN s /\ \A j \in DOMAIN s \ {best} : Ahead(best, j)
  <2> HIDE DEF Ahead
  <2>1. \E k \in DOMAIN s : \A j \in DOMAIN s \ {k} : Ahead(k, j)
    BY <1>1, <1>5
  <2> QED BY <2>1
<1>7. Best(s) = s[best]
  BY DEF Best
<1> HIDE DEF best
<1>8. \A j \in DOMAIN s : Priority(s[j]) <= Priority(s[best])
  BY <1>1, <1>2, <1>6
<1> QED BY <1>6, <1>7, <1>8

-----------------------------------------------------------------------------
(* Following what questions gave way to.                                   *)

Follow(h) == IF fate[h] \in Items THEN fate[h] ELSE h

LEMMA ItemCount == Cardinality(Items) \in Nat /\ IsFiniteSet(Items)
BY FS_CardinalityType, InterviewAssumption DEF InterviewAssumption

LEMMA HeirFacts ==
    ASSUME TypeOK
    PROVE  /\ \A i \in Items : Heir[0][i] = i
           /\ \A n \in 1..Cardinality(Items) : \A i \in Items :
                Heir[n][i] = Follow(Heir[n - 1][i])
           /\ \A n \in 0..Cardinality(Items) : \A i \in Items : Heir[n][i] \in Items
<1> DEFINE N == Cardinality(Items)
           same == [i \in Items |-> i]
           next == [x \in (1..N) \X [Items -> Items] |-> [i \in Items |-> Follow(x[2][i])]]
<1>1. N \in Nat /\ same \in [Items -> Items]
  BY ItemCount
<1>2. \A h \in Items : Follow(h) \in Items
  BY DEF Follow
<1>3. next \in [(1..N) \X [Items -> Items] -> [Items -> Items]]
  <2> HIDE DEF N
  <2> QED BY <1>2
<1>4. PICK f \in [0..N -> [Items -> Items]] :
         f[0] = same /\ \A n \in 1..N : f[n] = next[<<n, f[n - 1]>>]
  <2>1. IsLoop(N, [Items -> Items], next)
    BY <1>3 DEF IsLoop
  <2>2. PICK f : Runs(N, [Items -> Items], same, next, f)
    <3> HIDE DEF N, next, same
    <3> QED BY <1>1, <2>1, Recursion
  <2> QED BY <2>2 DEF Runs
<1>5. \A n \in 1..N : f[n] = [i \in Items |-> Follow(f[n - 1][i])]
  <2> TAKE n \in 1..N
  <2>1. n - 1 \in 0..N
    BY <1>1
  <2>2. f[n - 1] \in [Items -> Items]
    BY <2>1
  <2> QED BY <1>4, <2>2
<1>6. f = [n \in 0..N |->
             IF n = 0 THEN [i \in Items |-> i]
             ELSE [i \in Items |-> LET h == f[n - 1][i] IN IF fate[h] \in Items THEN fate[h] ELSE h]]
  <2>1. \A n \in 0..N : f[n] =
             IF n = 0 THEN [i \in Items |-> i]
             ELSE [i \in Items |-> LET h == f[n - 1][i] IN IF fate[h] \in Items THEN fate[h] ELSE h]
    <3> TAKE n \in 0..N
    <3>1. CASE n = 0
      BY <1>4, <3>1
    <3>2. CASE n \in 1..N
      <4>1. n # 0
        BY <1>1, <3>2
      <4>2. f[n] = [i \in Items |-> LET h == f[n - 1][i] IN IF fate[h] \in Items THEN fate[h] ELSE h]
        BY <1>5, <3>2, Zenon DEF Follow
      <4> QED BY <4>1, <4>2, Zenon
    <3>3. n = 0 \/ n \in 1..N
      BY <1>1
    <3> QED BY <3>1, <3>2, <3>3, Zenon
  <2>2. f = [n \in 0..N |-> f[n]]
    OBVIOUS
  <2> QED BY <2>1, <2>2, Zenon
<1>7. Heir = [n \in 0..N |->
             IF n = 0 THEN [i \in Items |-> i]
             ELSE [i \in Items |-> LET h == Heir[n - 1][i] IN IF fate[h] \in Items THEN fate[h] ELSE h]]
  BY <1>6 DEF Heir
<1>8. \A i \in Items : Heir[0][i] = i
  BY <1>1, <1>7
<1>9. ASSUME NEW n \in 1..N, NEW i \in Items PROVE Heir[n][i] = Follow(Heir[n - 1][i])
  <2>1. n \in 0..N /\ n # 0
    BY <1>1
  <2>2. Heir[n] = [k \in Items |-> LET h == Heir[n - 1][k] IN IF fate[h] \in Items THEN fate[h] ELSE h]
    BY <1>7, <2>1
  <2> QED BY <2>2 DEF Follow
<1> DEFINE S == {n \in 0..N : \A i \in Items : Heir[n][i] \in Items}
<1>10. 0 \in S
  BY <1>1, <1>8
<1>11. ASSUME NEW n \in 1..N, n - 1 \in S PROVE n \in S
  BY <1>1, <1>2, <1>9, <1>11
<1>12. \A n \in 0..N : n \in S
  <2> HIDE DEF S, N
  <2> QED BY <1>1, <1>10, <1>11, Induction
<1> QED BY <1>8, <1>9, <1>12

LEMMA OverIsAnOrder ==
    /\ \A i \in Items : ~Over(i, i)
    /\ \A i, j, k \in Items : Over(k, j) /\ Over(j, i) => Over(k, i)
<1>1. \A i \in Items : ~ListedBefore(i, i)
  BY Numbers DEF ListedBefore
<1>2. ASSUME NEW i, NEW j, NEW k, ListedBefore(k, j), ListedBefore(j, i) PROVE ListedBefore(k, i)
  <2>1. PICK l, m \in DOMAIN DirOrder : l < m /\ DirOrder[l] = k /\ DirOrder[m] = j
    BY <1>2 DEF ListedBefore
  <2>2. PICK m2, n \in DOMAIN DirOrder : m2 < n /\ DirOrder[m2] = j /\ DirOrder[n] = i
    BY <1>2 DEF ListedBefore
  <2>3. m = m2 /\ l < n
    BY <2>1, <2>2, Numbers
  <2> QED BY <2>1, <2>2, <2>3 DEF ListedBefore
<1>3. \A i \in Items : ~Over(i, i)
  BY <1>1, PriorityType DEF Over
<1>4. ASSUME NEW i \in Items, NEW j \in Items, NEW k \in Items, Over(k, j), Over(j, i)
      PROVE  Over(k, i)
  <2>1. Priority(i) \in Nat /\ Priority(j) \in Nat /\ Priority(k) \in Nat
    BY PriorityType
  <2> QED BY <1>2, <1>4, <2>1 DEF Over
<1> QED BY <1>3, <1>4

\* What nothing gave way to comes first, then the order of replacement decides.
Leaf(i) == \A k \in Items : fate[k] # i

Higher(j, i) == (Leaf(i) /\ ~Leaf(j)) \/ ((Leaf(i) <=> Leaf(j)) /\ Over(j, i))

AllHigher(i) == {j \in Items : Higher(j, i)}

LEMMA OneUp ==
    ASSUME TypeOK, GivesWay, NEW i \in Items, fate[i] \in Items
    PROVE  Cardinality(AllHigher(fate[i])) < Cardinality(AllHigher(i))
<1>1. PICK j \in Items : j = fate[i]
  OBVIOUS
<1>2. ~Leaf(j)
  BY <1>1 DEF Leaf
<1>3. ~Leaf(i) => Over(j, i)
  <2> SUFFICES ASSUME ~Leaf(i) PROVE Over(j, i)
    OBVIOUS
  <2>1. Mentioned(i)
    BY DEF Leaf, Mentioned
  <2> QED BY <1>1, <2>1 DEF GivesWay
<1>4. Higher(j, i)
  BY <1>2, <1>3 DEF Higher
<1>5. ~Higher(j, j)
  BY <1>2, OverIsAnOrder DEF Higher
<1>6. ASSUME NEW k \in Items, Higher(k, j) PROVE Higher(k, i)
  <2>1. ~Leaf(k) /\ Over(k, j)
    BY <1>2, <1>6 DEF Higher
  <2> QED BY <1>3, <2>1, OverIsAnOrder DEF Higher
<1>7. AllHigher(j) \subseteq AllHigher(i) /\ j \in AllHigher(i) /\ j \notin AllHigher(j)
  BY <1>4, <1>5, <1>6 DEF AllHigher
<1>8. IsFiniteSet(AllHigher(i))
  BY ItemCount, FS_Subset DEF AllHigher
<1>9. IsFiniteSet(AllHigher(j)) /\ Cardinality(AllHigher(j)) <= Cardinality(AllHigher(i))
      /\ Cardinality(AllHigher(j)) # Cardinality(AllHigher(i))
  BY <1>7, <1>8, FS_Subset
<1>10. Cardinality(AllHigher(i)) \in Nat /\ Cardinality(AllHigher(j)) \in Nat
  BY <1>8, <1>9, FS_CardinalityType
<1> QED BY <1>1, <1>9, <1>10

\* Following long enough, one arrives.
LEMMA ChainEnds ==
    ASSUME TypeOK, GivesWay, NEW i \in Items
    PROVE  fate[Heir[Cardinality(Items)][i]] \notin Items
<1> DEFINE N == Cardinality(Items)
           At_(n) == Heir[n][i]
           Left(n) == Cardinality(AllHigher(At_(n)))
           S == {n \in 0..N : fate[At_(n)] \notin Items \/ Left(n) + n < N}
<1>1. N \in Nat /\ \A n \in 0..N : At_(n) \in Items
  BY ItemCount, HeirFacts
<1>2. \A k \in Items : Cardinality(AllHigher(k)) \in Nat
  BY ItemCount, FS_Subset, FS_CardinalityType DEF AllHigher
<1>3. 0 \in S
  <2>1. ASSUME fate[i] \in Items PROVE Cardinality(AllHigher(i)) < N
    <3>1. ~Higher(i, i)
      BY OverIsAnOrder DEF Higher
    <3>2. AllHigher(i) \subseteq Items /\ AllHigher(i) # Items
      BY <3>1 DEF AllHigher
    <3>3. Cardinality(AllHigher(i)) <= N /\ Cardinality(AllHigher(i)) # N
      BY <3>2, ItemCount, FS_Subset
    <3> QED BY <1>1, <1>2, <3>3
  <2>2. At_(0) = i
    BY HeirFacts
  <2> QED BY <1>1, <1>2, <2>1, <2>2
<1>4. ASSUME NEW n \in 1..N, n - 1 \in S PROVE n \in S
  <2>1. n \in 0..N /\ n - 1 \in 0..N
    BY <1>1
  <2>2. PICK h \in Items : h = At_(n - 1)
    BY <1>1, <2>1
  <2>3. At_(n) = Follow(h)
    BY <2>2, HeirFacts
  <2>4. CASE fate[h] \notin Items
    <3>1. At_(n) = h
      BY <2>3, <2>4 DEF Follow
    <3> QED BY <2>1, <2>4, <3>1
  <2>5. CASE fate[h] \in Items
    <3>1. At_(n) = fate[h]
      BY <2>3, <2>5 DEF Follow
    <3>2. Left(n) < Left(n - 1)
      BY <2>2, <2>5, <3>1, OneUp
    <3>3. Left(n - 1) + (n - 1) < N
      BY <1>4, <2>2, <2>5
    <3>4. Left(n) \in Nat /\ Left(n - 1) \in Nat
      BY <1>1, <1>2, <2>1
    <3> HIDE DEF Left
    <3>5. Left(n) + n < N
      BY <1>1, <3>2, <3>3, <3>4
    <3> QED BY <2>1, <3>5
  <2> QED BY <2>4, <2>5
<1>5. N \in S
  <2>1. N \in 0..N
    BY <1>1
  <2> HIDE DEF S, N
  <2> QED BY <1>1, <1>3, <1>4, <2>1, Induction
<1>6. Left(N) \in Nat
  BY <1>1, <1>2
<1> QED BY <1>1, <1>5, <1>6

LEMMA StandInsSuffice ==
    ASSUME IInv
    PROVE  NothingVanishes
<1> SUFFICES ASSUME faults + crashes = 0, NEW i \in Items, fate[i] \in Items,
                    NEW last, last = Heir[Cardinality(Items)][i]
             PROVE  /\ NearDuplicate(fate[i], i) /\ Priority(fate[i]) >= Priority(i)
                    /\ fate[last] \notin Items
                    /\ last \in queue \/ InFlight(last) \/ fate[last] \in Ends \ {None}
  BY DEF NothingVanishes
<1> USE DEF IInv
<1> DEFINE N == Cardinality(Items)
           S == {n \in 0..N : Heir[n][i] = i \/ Mentioned(Heir[n][i])}
<1>1. NearDuplicate(fate[i], i) /\ Priority(fate[i]) >= Priority(i)
  BY DEF GivesWay
<1>2. fate[last] \notin Items /\ last \in Items
  BY ChainEnds, HeirFacts, ItemCount
<1>3. N \in Nat
  BY ItemCount
<1>4. 0 \in S
  BY <1>3, HeirFacts
<1>5. ASSUME NEW n \in 1..N, n - 1 \in S PROVE n \in S
  <2>1. n \in 0..N /\ n - 1 \in 0..N
    BY <1>3
  <2>2. PICK h \in Items : h = Heir[n - 1][i]
    BY <2>1, HeirFacts
  <2>3. Heir[n][i] = Follow(h)
    BY <2>2, HeirFacts
  <2>4. CASE fate[h] \in Items
    BY <2>1, <2>3, <2>4 DEF Follow, Mentioned
  <2>5. CASE fate[h] \notin Items
    BY <1>5, <2>1, <2>2, <2>3, <2>5 DEF Follow
  <2> QED BY <2>4, <2>5
<1>6. N \in S
  <2>1. N \in 0..N
    BY <1>3
  <2> HIDE DEF S, N
  <2> QED BY <1>3, <1>4, <1>5, <2>1, Induction
<1>7. Mentioned(last)
  BY <1>2, <1>6
<1>8. Stands(last)
  BY <1>2, <1>7 DEF StandIns
<1>9. fate[last] \in Items \cup Ends
  BY <1>2 DEF TypeOK
<1> QED BY <1>1, <1>2, <1>8, <1>9 DEF Stands

-----------------------------------------------------------------------------
(* What a step of one call leaves as it is.                                *)

LEMMA Outcomes ==
    /\ None \notin Items /\ Lapsed \notin Items /\ Accepted \notin Items /\ Rejected \notin Items
    /\ Lapsed # None /\ Accepted # None /\ Rejected # None
    /\ Lapsed # Accepted /\ Rejected # Accepted
    /\ {None, Lapsed, Accepted, Rejected} \subseteq Ends
<1> DEFINE four == <<None, Lapsed, Accepted, Rejected>>
<1>1. \A m, n \in DOMAIN four : four[m] = four[n] => m = n
  BY InterviewAssumption DEF InterviewAssumption, IsInjective
<1>2. DOMAIN four = 1..4 /\ four[1] = None /\ four[2] = Lapsed /\ four[3] = Accepted /\ four[4] = Rejected
  OBVIOUS
<1> HIDE DEF four
<1>3. 1 \in 1..4 /\ 2 \in 1..4 /\ 3 \in 1..4 /\ 4 \in 1..4
  OBVIOUS
<1>4. Lapsed # None /\ Accepted # None /\ Rejected # None /\ Lapsed # Accepted /\ Rejected # Accepted
  BY <1>1, <1>2, <1>3
<1>5. Items \cap Ends = {}
  BY InterviewAssumption DEF InterviewAssumption
<1> QED BY <1>4, <1>5 DEF Ends

LEMMA IdleFits == Idle \in Task /\ TaskFits(Idle)
<1>1. <<>> \in Seq(Removal)
  OBVIOUS
<1> QED BY <1>1 DEF Idle, Task, TaskFits

LEMMA OneTask ==
    ASSUME TypeOK, NEW p \in Callers, NEW t \in Task, Become(p, t)
    PROVE  /\ task' \in [Callers -> Task]
           /\ task'[p] = t
           /\ \A q \in Callers \ {p} : task'[q] = task[q]
BY DEF TypeOK, Become

\* The parts of a task that other calls care about.
FreshOf(t) == t.ups \cup ({t.item} \ {None})
UntouchedOf(t) == t.ups \cup (IF t.step = "list" THEN {t.item} ELSE {})

LEMMA TasksKept ==
    ASSUME TypeOK, TasksFit, NEW p \in Callers, NEW t \in Task, Become(p, t), TaskFits(t)
    PROVE  TasksFit'
<1>1. \A q \in Callers : TaskFits(task'[q])
  BY OneTask DEF TasksFit
<1> QED BY <1>1 DEF TasksFit

LEMMA MentionedNext ==
    ASSUME TypeOK, NEW p \in Callers, NEW t \in Task, Become(p, t), NEW X,
           \A i \in queue' : Mentioned(i) \/ i \in X,
           \A k \in Items : fate'[k] \in Items => Mentioned(fate'[k]) \/ fate'[k] \in X,
           \A n \in DOMAIN t.todo : t.todo[n].by \in Items => Mentioned(t.todo[n].by) \/ t.todo[n].by \in X
    PROVE  \A i \in Items : Mentioned(i)' => Mentioned(i) \/ i \in X
<1> SUFFICES ASSUME NEW i \in Items, Mentioned(i)' PROVE Mentioned(i) \/ i \in X
  OBVIOUS
<1>1. \/ i \in queue'
      \/ \E k \in Items : fate'[k] = i
      \/ \E q \in Callers : \E n \in DOMAIN task'[q].todo : task'[q].todo[n].by = i
  BY DEF Mentioned
<1>2. CASE i \in queue'
  BY <1>2
<1>3. CASE \E k \in Items : fate'[k] = i
  BY <1>3
<1>4. CASE \E q \in Callers : \E n \in DOMAIN task'[q].todo : task'[q].todo[n].by = i
  <2>1. PICK q \in Callers : \E n \in DOMAIN task'[q].todo : task'[q].todo[n].by = i
    BY <1>4
  <2>2. CASE q = p
    BY <2>1, <2>2, OneTask
  <2>3. CASE q # p
    <3>1. task'[q] = task[q]
      BY <2>3, OneTask
    <3>2. \E n \in DOMAIN task[q].todo : task[q].todo[n].by = i
      BY <2>1, <3>1
    <3> QED BY <3>2 DEF Mentioned
  <2> QED BY <2>2, <2>3
<1> QED BY <1>1, <1>2, <1>3, <1>4

\* Questions still to be stored stay untouched by everyone else.
LEMMA FreshKept ==
    ASSUME TypeOK, TasksFit, FreshFit, NEW p \in Callers, NEW t \in Task, Become(p, t),
           used \subseteq used', queue' \subseteq used', queue' \subseteq queue \cup Fresh(p),
           FreshOf(t) \subseteq used', t.item \notin t.ups, queue' \cap FreshOf(t) = {},
           FreshOf(t) \subseteq Items,
           \A i \in FreshOf(t) : i \in Fresh(p) \/ i \notin used,
           \A i \in UntouchedOf(t) : i \in FreshOf(t) /\ (i \in Untouched(p) \/ i \notin used),
           \A i \in Items : fate'[i] = fate[i] \/ i \in queue \/ i \in Fresh(p) \ FreshOf(t),
           \A i \in Items : Mentioned(i)' => Mentioned(i) \/ i \in Fresh(p) \ UntouchedOf(t)
    PROVE  FreshFit'
<1>1. Fresh(p) \subseteq used \ queue /\ \A i \in Fresh(p) : fate[i] = None
  BY DEF FreshFit
<1>2. Fresh(p)' = FreshOf(t) /\ Untouched(p)' = UntouchedOf(t) /\ task'[p] = t
  BY OneTask DEF Fresh, FreshOf, Untouched, UntouchedOf, At
<1>3. ASSUME NEW q \in Callers \ {p}
      PROVE  Fresh(q)' = Fresh(q) /\ Untouched(q)' = Untouched(q) /\ task'[q] = task[q]
  BY OneTask DEF Fresh, Untouched, At
<1>4. \A q \in Callers \ {p} : Fresh(q) \cap Fresh(p) = {} /\ Fresh(q) \subseteq used \ queue
  BY DEF FreshFit
<1>5. \A i \in Items : fate'[i] # None => i \in used'
  BY <1>1 DEF FreshFit
<1>6. \A i \in Items : Mentioned(i)' => i \in used'
  BY <1>1 DEF FreshFit
<1>7. \A i \in FreshOf(t) : fate'[i] = None
  BY <1>1 DEF FreshFit
<1>8. \A i \in UntouchedOf(t) : ~Mentioned(i)'
  BY DEF FreshFit
<1>9. ASSUME NEW q \in Callers \ {p}
      PROVE  /\ Fresh(q) \subseteq used' \ queue'
             /\ task[q].item \notin task[q].ups
             /\ \A i \in Fresh(q) : fate'[i] = None
             /\ \A i \in Untouched(q) : ~Mentioned(i)'
             /\ Fresh(q) \cap FreshOf(t) = {}
  <2>1. Fresh(q) \subseteq Items /\ Untouched(q) \subseteq Fresh(q)
    BY DEF Fresh, Untouched, TypeOK, Task, TasksFit, TaskFits, At
  <2>2. Fresh(q) \subseteq used' \ queue' /\ Fresh(q) \cap FreshOf(t) = {}
    BY <1>4
  <2>3. \A i \in Fresh(q) : fate'[i] = None
    BY <1>4, <2>1 DEF FreshFit
  <2>4. \A i \in Untouched(q) : ~Mentioned(i)'
    BY <1>4, <2>1 DEF FreshFit
  <2> QED BY <2>2, <2>3, <2>4 DEF FreshFit
<1>10. ASSUME NEW q \in Callers
       PROVE  /\ Fresh(q)' \subseteq used' \ queue'
              /\ task'[q].item \notin task'[q].ups
              /\ \A i \in Fresh(q)' : fate'[i] = None
              /\ \A i \in Untouched(q)' : ~Mentioned(i)'
              /\ \A r \in Callers \ {q} : Fresh(q)' \cap Fresh(r)' = {}
  <2>1. CASE q = p
    BY <1>2, <1>3, <1>7, <1>8, <1>9, <2>1
  <2>2. CASE q # p
    <3>1. \A r \in Callers \ {q} : Fresh(q)' \cap Fresh(r)' = {}
      BY <1>2, <1>3, <1>9, <2>2 DEF FreshFit
    <3> QED BY <1>3, <1>9, <2>2, <3>1
  <2> QED BY <2>1, <2>2
<1> QED BY <1>5, <1>6, <1>10 DEF FreshFit

LEMMA StoredKept ==
    ASSUME TypeOK, StoredFirst, NEW p \in Callers, NEW t \in Task, Become(p, t),
           \A i \in Items : made[i] > 0 => made'[i] > 0,
           t.answering # None /\ t.step \in {"list", "drop", "put", "close"} =>
               made'[t.answering] > 0 \/ (t.step = "close" /\ Refused(t))
    PROVE  StoredFirst'
<1>1. ASSUME NEW q \in Callers, task'[q].answering # None,
             task'[q].step \in {"list", "drop", "put", "close"}
      PROVE  made'[task'[q].answering] > 0 \/ (task'[q].step = "close" /\ Refused(task'[q]))
  <2>1. CASE q = p
    BY <1>1, <2>1, OneTask
  <2>2. CASE q # p
    <3>1. task'[q] = task[q] /\ task[q].answering \in Items
      BY <1>1, <2>2, OneTask DEF TypeOK, Task
    <3> QED BY <1>1, <3>1 DEF StoredFirst, At
  <2> QED BY <2>1, <2>2
<1> QED BY <1>1 DEF StoredFirst, At, Refused

LEMMA OneCallKept ==
    ASSUME TypeOK, OneCall, NEW p \in Callers, NEW t \in Task, Become(p, t), serial' => serial,
           serial' /\ t.step # "idle" => ~At(p, "idle") \/ \A q \in Callers : At(q, "idle")
    PROVE  OneCall'
<1> SUFFICES ASSUME serial', NEW q \in Callers, NEW r \in Callers,
                    task'[q].step # "idle", task'[r].step # "idle"
             PROVE  q = r
  BY DEF OneCall, At
<1> QED BY OneTask DEF OneCall, At

LEMMA DistinctKept ==
    ASSUME Distinct, serial' => serial, queue' \ due' \subseteq queue \ due
    PROVE  Distinct'
BY DEF Distinct, NearDuplicate

LEMMA ClearedKept ==
    ASSUME TypeOK, Cleared, NEW p \in Callers, NEW t \in Task, Become(p, t), serial' => serial,
           queue' \ due' \subseteq queue \ due,
           serial' /\ t.item # None /\ t.step \in {"drop", "put"} =>
               \A e \in queue' \ due' : NearDuplicate(e, t.item) =>
                   \E n \in DOMAIN t.todo : t.todo[n].id = e
    PROVE  Cleared'
<1>1. ASSUME serial', NEW q \in Callers, task'[q].item # None, task'[q].step \in {"drop", "put"},
             NEW e \in queue' \ due', NearDuplicate(e, task'[q].item)
      PROVE  \E n \in DOMAIN task'[q].todo : task'[q].todo[n].id = e
  <2>1. CASE q = p
    BY <1>1, <2>1, OneTask
  <2>2. CASE q # p
    <3>1. task'[q] = task[q]
      BY <2>2, OneTask
    <3> QED BY <1>1, <3>1 DEF Cleared
  <2> QED BY <2>1, <2>2
<1> QED BY <1>1 DEF Cleared, NearDuplicate

\* r removes its question for one above it.
Rightly(r) == r.by \in Items => NearDuplicate(r.by, r.id) /\ Over(r.by, r.id)

LEMMA GivesWayKept ==
    ASSUME TypeOK, FreshFit, GivesWay, NEW p \in Callers, NEW t \in Task, Become(p, t),
           \A n \in DOMAIN t.todo : Rightly(t.todo[n]),
           \A i \in Items : Mentioned(i)' => Mentioned(i) \/ i \in Fresh(p),
           \A i \in Items : fate'[i] = fate[i] \/ (fate'[i] \in Items =>
               /\ NearDuplicate(fate'[i], i) /\ Priority(fate'[i]) >= Priority(i)
               /\ Over(fate'[i], i) \/ ~Mentioned(i)')
    PROVE  GivesWay'
<1>1. ASSUME NEW i \in Items, fate'[i] \in Items
      PROVE  /\ NearDuplicate(fate'[i], i) /\ Priority(fate'[i]) >= Priority(i)
             /\ Over(fate'[i], i) \/ ~Mentioned(i)'
  <2>1. CASE fate'[i] # fate[i]
    BY <1>1, <2>1
  <2>2. CASE fate'[i] = fate[i]
    <3>1. NearDuplicate(fate[i], i) /\ Priority(fate[i]) >= Priority(i)
          /\ (Over(fate[i], i) \/ ~Mentioned(i))
      BY <1>1, <2>2 DEF GivesWay
    <3>2. i \notin Fresh(p)
      BY <1>1, <2>2, Outcomes DEF FreshFit
    <3> QED BY <2>2, <3>1, <3>2
  <2> QED BY <2>1, <2>2
<1>2. ASSUME NEW q \in Callers, NEW n \in DOMAIN task'[q].todo
      PROVE  Rightly(task'[q].todo[n])
  <2>1. CASE q = p
    BY <2>1, OneTask
  <2>2. CASE q # p
    <3>1. task'[q] = task[q]
      BY <2>2, OneTask
    <3> QED BY <3>1 DEF GivesWay, Rightly
  <2> QED BY <2>1, <2>2
<1>3. ASSUME NEW q \in Callers, NEW n \in DOMAIN task'[q].todo
      PROVE  LET r == task'[q].todo[n]
             IN  r.by \in Items => NearDuplicate(r.by, r.id) /\ Over(r.by, r.id)
  BY <1>2 DEF Rightly
<1>4. \A i \in Items : (~Mentioned(i))' <=> ~Mentioned(i)'
  OBVIOUS
<1> QED BY <1>1, <1>3 DEF GivesWay, NearDuplicate, Over, ListedBefore, Priority, Score

LEMMA StandInsKept ==
    ASSUME TypeOK, FreshFit, StandIns, NEW p \in Callers, NEW t \in Task, Become(p, t),
           faults' = faults, crashes' = crashes, torn' \subseteq torn,
           \A i \in Items : Mentioned(i)' => Mentioned(i) \/ i \in queue'
                                 \/ (t.item = i /\ t.step \in {"drop", "put"}),
           \A i \in queue : i \in queue' \/ fate'[i] # None,
           \A i \in Items : fate[i] # None => fate'[i] # None,
           task[p].item # None /\ task[p].step \in {"drop", "put"} =>
               \/ t.item = task[p].item /\ t.step \in {"drop", "put"}
               \/ task[p].item \in queue'
    PROVE  StandIns'
<1> SUFFICES ASSUME faults + crashes = 0
             PROVE  torn' = {} /\ \A i \in Items : Mentioned(i)' => Stands(i)'
  BY DEF StandIns
<1>1. torn' = {}
  BY DEF StandIns
<1>2. ASSUME NEW i \in Items, Mentioned(i)' PROVE Stands(i)'
  <2>1. CASE i \in queue'
    BY <2>1 DEF Stands
  <2>2. CASE t.item = i /\ t.step \in {"drop", "put"}
    BY <2>2, OneTask DEF Stands, InFlight
  <2>3. CASE Mentioned(i)
    <3>1. i \in queue \/ InFlight(i) \/ fate[i] # None
      BY <2>3 DEF StandIns, Stands
    <3>2. CASE i \in queue
      BY <3>2 DEF Stands
    <3>3. CASE fate[i] # None
      BY <3>3 DEF Stands
    <3>4. CASE InFlight(i)
      <4>1. PICK q \in Callers : task[q].item = i /\ task[q].step \in {"drop", "put"}
        BY <3>4 DEF InFlight
      <4>2. CASE q = p
        <5>1. i # None
          BY Outcomes
        <5> QED BY <4>1, <4>2, <5>1, <2>1, <2>2
      <4>3. CASE q # p
        <5>1. task'[q] = task[q]
          BY <4>3, OneTask
        <5> QED BY <4>1, <5>1 DEF Stands, InFlight
      <4> QED BY <4>2, <4>3
    <3> QED BY <3>1, <3>2, <3>3, <3>4
  <2> QED BY <1>2, <2>1, <2>2, <2>3
<1> QED BY <1>1, <1>2

-----------------------------------------------------------------------------
(* The steps.                                                              *)

LEMMA TaskParts ==
    ASSUME TypeOK, NEW p \in Callers
    PROVE  /\ task[p] \in Task
           /\ task[p].item \in Items \cup {None} /\ task[p].answering \in Items \cup {None}
           /\ task[p].todo \in Seq(Removal) /\ task[p].ups \in SUBSET Items
           /\ \A n \in DOMAIN task[p].todo :
                task[p].todo[n].id \in Items /\ task[p].todo[n].by \in Items \cup {Lapsed}
<1>1. task[p] \in Task
  BY DEF TypeOK
<1>2. task[p].todo \in Seq(Removal)
  BY <1>1 DEF Task
<1>3. \A n \in DOMAIN task[p].todo : task[p].todo[n] \in Removal
  BY <1>2
<1> QED BY <1>1, <1>2, <1>3 DEF Task, Removal

\* A step that only changes what its own call carries.
LEMMA QuietStep ==
    ASSUME IInv, NEW p \in Callers, NEW t \in Task, Become(p, t), TaskFits(t), TypeOK',
           UNCHANGED <<queue, due, fate>>, used \subseteq used',
           \A i \in Items : made[i] > 0 => made'[i] > 0,
           serial' => serial,
           serial' /\ t.step # "idle" => ~At(p, "idle") \/ \A q \in Callers : At(q, "idle"),
           t.item \notin t.ups,
           \A i \in FreshOf(t) : i \in Fresh(p) \/ i \in used' \ used,
           \A i \in UntouchedOf(t) : i \in Untouched(p) \/ i \in used' \ used,
           t.answering # None /\ t.step \in {"list", "drop", "put", "close"} =>
               made'[t.answering] > 0 \/ (t.step = "close" /\ Refused(t)),
           serial' /\ t.item # None /\ t.step \in {"drop", "put"} =>
               \A e \in queue \ due : NearDuplicate(e, t.item) =>
                   \E n \in DOMAIN t.todo : t.todo[n].id = e,
           \A n \in DOMAIN t.todo :
               /\ Rightly(t.todo[n])
               /\ t.todo[n].by \in Items =>
                    \/ t.todo[n].by \in queue
                    \/ t.todo[n].by = t.item /\ t.step = "drop" /\ t.item \in Fresh(p),
           \/ faults' + crashes' # 0
           \/ /\ UNCHANGED <<faults, crashes, torn>>
              /\ task[p].item # None /\ task[p].step \in {"drop", "put"} =>
                    t.item = task[p].item /\ t.step \in {"drop", "put"}
    PROVE  IInv'
<1> USE DEF IInv
<1>1. TasksFit'
  BY TasksKept
<1>2. FreshOf(t) \subseteq Items /\ UntouchedOf(t) \subseteq FreshOf(t)
  BY Outcomes DEF FreshOf, UntouchedOf, Task, TaskFits
<1>3. Fresh(p) \subseteq used \ queue /\ queue \subseteq used
  BY DEF FreshFit
<1> DEFINE X == {i \in Fresh(p) : i = t.item /\ t.step = "drop"}
<1>4. \A n \in DOMAIN t.todo :
         t.todo[n].by \in Items => Mentioned(t.todo[n].by) \/ t.todo[n].by \in X
  BY DEF Mentioned
<1>5. \A i \in Items : Mentioned(i)' => Mentioned(i) \/ i \in X
  <2>1. \A k \in Items : fate'[k] \in Items => Mentioned(fate'[k]) \/ fate'[k] \in X
    BY DEF Mentioned
  <2>2. \A i \in queue' : Mentioned(i) \/ i \in X
    BY DEF Mentioned
  <2> HIDE DEF X
  <2> QED BY <1>4, <2>1, <2>2, MentionedNext
<1>6. \A i \in X : i \in Fresh(p) \ UntouchedOf(t)
  BY DEF UntouchedOf
<1>7. FreshFit'
  <2>1. FreshOf(t) \subseteq used' /\ queue' \cap FreshOf(t) = {}
    BY <1>3 DEF TypeOK
  <2>2. \A i \in UntouchedOf(t) : i \in FreshOf(t) /\ (i \in Untouched(p) \/ i \notin used)
    BY <1>2
  <2>3. \A i \in Items : Mentioned(i)' => Mentioned(i) \/ i \in Fresh(p) \ UntouchedOf(t)
    BY <1>5, <1>6
  <2> HIDE DEF X
  <2> QED BY <1>2, <1>3, <2>1, <2>2, <2>3, FreshKept
<1>8. StoredFirst'
  BY StoredKept
<1>9. AnswersAreKept'
  BY DEF AnswersAreKept
<1>10. OneCall' /\ Distinct' /\ Cleared'
  BY OneCallKept, DistinctKept, ClearedKept
<1>11. GivesWay'
  BY <1>5, GivesWayKept
<1>12. StandIns'
  <2>1. CASE faults' + crashes' # 0
    BY <2>1 DEF StandIns
  <2>2. CASE faults' + crashes' = 0
    <3>1. task[p].item # None /\ task[p].step \in {"drop", "put"} =>
            t.item = task[p].item /\ t.step \in {"drop", "put"}
      BY <2>2
    <3>2. faults' = faults /\ crashes' = crashes /\ torn' \subseteq torn
      BY <2>2
    <3>3. \A i \in Items : Mentioned(i)' => Mentioned(i) \/ i \in queue'
                                 \/ (t.item = i /\ t.step \in {"drop", "put"})
      BY <1>5
    <3> HIDE DEF X
    <3> QED BY <3>1, <3>2, <3>3, StandInsKept
  <2> QED BY <2>1, <2>2
<1> QED BY <1>1, <1>7, <1>8, <1>9, <1>10, <1>11, <1>12

LEMMA InitFits ==
    ASSUME Init
    PROVE  IInv
<1> USE DEF Init
<1>1. Legacy \subseteq Items /\ queue \subseteq Items
  BY InterviewAssumption DEF InterviewAssumption
<1>2. \A p \in Callers : task[p] = Idle
  OBVIOUS
<1>3. TypeOK
  BY <1>1, IdleFits, Outcomes DEF TypeOK
<1>4. TasksFit
  BY <1>2, IdleFits DEF TasksFit
<1>5. \A i \in Items : Mentioned(i) => i \in queue
  BY <1>2, Outcomes DEF Mentioned, Idle
<1>6. \A p \in Callers : Fresh(p) = {} /\ Untouched(p) = {} /\ task[p].item = None
  BY <1>2 DEF Fresh, Untouched, Idle, At
<1>7. FreshFit
  BY <1>2, <1>5, <1>6 DEF FreshFit, Idle
<1>8. StoredFirst /\ AnswersAreKept /\ OneCall /\ Distinct /\ Cleared
  BY <1>1, <1>2, Outcomes DEF StoredFirst, AnswersAreKept, OneCall, Distinct, Cleared, Idle, At
<1>9. GivesWay
  BY <1>2, Outcomes DEF GivesWay, Idle
<1>10. StandIns
  BY <1>5 DEF StandIns, Stands
<1> QED BY <1>3, <1>4, <1>7, <1>8, <1>9, <1>10 DEF IInv

LEMMA BeginFacts ==
    ASSUME IInv, NEW p \in Callers, NEW t \in Task, Begin(p, t), used' \subseteq Items, used \subseteq used'
    PROVE  /\ TypeOK' /\ Become(p, t)
           /\ UNCHANGED <<queue, torn, due, made, fate, faults, crashes>>
           /\ serial' => serial
           /\ At(p, "idle") /\ task[p] = Idle
           /\ serial' /\ t.step # "idle" => ~At(p, "idle") \/ \A q \in Callers : At(q, "idle")
<1>1. Become(p, t) /\ UNCHANGED <<queue, torn, due, made, fate, faults, crashes>>
      /\ calls' = calls + 1 /\ At(p, "idle")
      /\ serial' = (serial /\ \A q \in Callers : At(q, "idle"))
  BY DEF Begin, disk
<1>2. serial' \in BOOLEAN /\ (serial' => serial /\ \A q \in Callers : At(q, "idle"))
  BY <1>1 DEF IInv, TypeOK
<1>3. TypeOK'
  BY <1>1, <1>2, OneTask DEF IInv, TypeOK
<1>4. task[p] = Idle
  BY <1>1 DEF IInv, TasksFit, TaskFits, At
<1> QED BY <1>1, <1>2, <1>3, <1>4

LEMMA BeginStep ==
    ASSUME IInv, NEW p \in Callers, NEW t \in Task, Begin(p, t), TaskFits(t),
           used' \subseteq Items, used \subseteq used',
           t.todo = <<>>, t.ups = {}, t.step \in {"list", "get", "sweep"},
           t.step = "list" => t.answering = None,
           FreshOf(t) \subseteq used' \ used, UntouchedOf(t) \subseteq used' \ used
    PROVE  IInv'
<1>1. /\ TypeOK' /\ Become(p, t)
      /\ UNCHANGED <<queue, torn, due, made, fate, faults, crashes>>
      /\ serial' => serial
      /\ At(p, "idle") /\ task[p] = Idle
      /\ serial' /\ t.step # "idle" => ~At(p, "idle") \/ \A q \in Callers : At(q, "idle")
  BY BeginFacts
<1>2. \A i \in FreshOf(t) : i \in Fresh(p) \/ i \in used' \ used
  OBVIOUS
<1>3. \A i \in UntouchedOf(t) : i \in Untouched(p) \/ i \in used' \ used
  OBVIOUS
<1>4. ~(t.answering # None /\ t.step \in {"list", "drop", "put", "close"})
  OBVIOUS
<1>5. DOMAIN t.todo = {} /\ t.step \notin {"drop", "put"} /\ t.item \notin t.ups
  OBVIOUS
<1>6. task[p].item = None
  BY <1>1 DEF Idle
<1> QED BY <1>1, <1>2, <1>3, <1>4, <1>5, <1>6, QuietStep

LEMMA BeginEnqueueStep ==
    ASSUME IInv, NEW p \in Callers, BeginEnqueue(p)
    PROVE  IInv'
<1>1. PICK i \in Items \ used :
         Begin(p, [Idle EXCEPT !.step = "list", !.item = i]) /\ used' = used \cup {i}
  BY DEF BeginEnqueue
<1>2. PICK t : t = [Idle EXCEPT !.step = "list", !.item = i]
  OBVIOUS
<1>3. /\ t.step = "list" /\ t.item = i /\ t.answering = None /\ t.reply = "none"
      /\ t.todo = <<>> /\ t.ups = {}
  BY <1>2 DEF Idle
<1>4. t \in Task /\ TaskFits(t)
  BY <1>2, <1>3, Outcomes, IdleFits DEF Task, Idle, TaskFits
<1>5. used \subseteq Items
  BY DEF IInv, TypeOK
<1>6. FreshOf(t) = {i} /\ UntouchedOf(t) = {i}
  BY <1>3, Outcomes DEF FreshOf, UntouchedOf
<1> QED BY <1>1, <1>2, <1>3, <1>4, <1>5, <1>6, BeginStep

LEMMA BeginAnswerStep ==
    ASSUME IInv, NEW p \in Callers, BeginAnswer(p)
    PROVE  IInv'
<1>1. PICK i \in used, r \in {"skip", "reject", "accept"} :
         Begin(p, [Idle EXCEPT !.step = "get", !.answering = i, !.reply = r]) /\ used' = used
  BY DEF BeginAnswer
<1>2. PICK t : t = [Idle EXCEPT !.step = "get", !.answering = i, !.reply = r]
  OBVIOUS
<1>3. /\ t.step = "get" /\ t.item = None /\ t.answering = i /\ t.reply = r
      /\ t.todo = <<>> /\ t.ups = {}
  BY <1>2 DEF Idle
<1>4. i \in Items
  BY DEF IInv, TypeOK
<1>5. t \in Task /\ TaskFits(t)
  BY <1>2, <1>3, <1>4, Outcomes, IdleFits DEF Task, Idle, TaskFits
<1>6. used \subseteq Items
  BY DEF IInv, TypeOK
<1>7. FreshOf(t) = {} /\ UntouchedOf(t) = {}
  BY <1>3 DEF FreshOf, UntouchedOf
<1> QED BY <1>1, <1>2, <1>3, <1>5, <1>6, <1>7, BeginStep

LEMMA BeginExpireStep ==
    ASSUME IInv, NEW p \in Callers, BeginExpire(p)
    PROVE  IInv'
<1>1. Begin(p, [Idle EXCEPT !.step = "sweep"]) /\ used' = used
  BY DEF BeginExpire
<1>2. PICK t : t = [Idle EXCEPT !.step = "sweep"]
  OBVIOUS
<1>3. /\ t.step = "sweep" /\ t.item = None /\ t.answering = None /\ t.reply = "none"
      /\ t.todo = <<>> /\ t.ups = {}
  BY <1>2 DEF Idle
<1>4. t \in Task /\ TaskFits(t)
  BY <1>2, <1>3, IdleFits DEF Task, Idle, TaskFits
<1>5. used \subseteq Items
  BY DEF IInv, TypeOK
<1>6. FreshOf(t) = {} /\ UntouchedOf(t) = {}
  BY <1>3 DEF FreshOf, UntouchedOf
<1> QED BY <1>1, <1>2, <1>3, <1>4, <1>5, <1>6, BeginStep

\* Where a finished enqueue leads: only the follow-ups are left to be stored.
LEMMA ResumedFacts ==
    ASSUME NEW t \in Task, t.todo = <<>>, t.answering = None => t.ups = {}, NEW n \in Resumed(t)
    PROVE  /\ n \in Task /\ TaskFits(n) /\ n.todo = <<>>
           /\ n.step \in {"idle", "close", "list"}
           /\ n.item \notin n.ups
           /\ FreshOf(n) \subseteq t.ups /\ UntouchedOf(n) \subseteq t.ups
           /\ n.answering # None => t.answering = n.answering
<1>1. t.ups \in SUBSET Items
  BY DEF Task
<1>2. CASE t.answering = None
  <2>1. n = Idle
    BY <1>2 DEF Resumed
  <2> QED BY <2>1, IdleFits DEF Idle, FreshOf, UntouchedOf
<1>3. CASE t.answering # None /\ t.ups = {}
  <2>1. n = [t EXCEPT !.step = "close", !.item = None]
    BY <1>3 DEF Resumed
  <2>2. /\ n.step = "close" /\ n.item = None /\ n.answering = t.answering /\ n.reply = t.reply
        /\ n.todo = t.todo /\ n.ups = t.ups
    BY <2>1 DEF Task
  <2>3. n \in Task
    BY <2>1 DEF Task
  <2> QED BY <1>3, <2>2, <2>3 DEF TaskFits, FreshOf, UntouchedOf
<1>4. CASE t.answering # None /\ t.ups # {}
  <2>1. PICK u \in t.ups : n = [t EXCEPT !.step = "list", !.item = u, !.ups = @ \ {u}]
    BY <1>4 DEF Resumed
  <2>2. /\ n.step = "list" /\ n.item = u /\ n.answering = t.answering /\ n.reply = t.reply
        /\ n.todo = t.todo /\ n.ups = t.ups \ {u}
    BY <2>1 DEF Task
  <2>3. u \in Items /\ u # None
    BY <1>1, Outcomes
  <2>4. n \in Task
    BY <2>1, <2>3 DEF Task
  <2> QED BY <1>4, <2>2, <2>3, <2>4 DEF TaskFits, FreshOf, UntouchedOf
<1> QED BY <1>2, <1>3, <1>4

LEMMA LiveFacts ==
    ASSUME TypeOK, NEW i
    PROVE  /\ LiveDuplicates(i) \in Seq(Items)
           /\ \A k \in DOMAIN LiveDuplicates(i) :
                LiveDuplicates(i)[k] \in queue \ due /\ NearDuplicate(LiveDuplicates(i)[k], i)
           /\ \A e \in queue \ due : NearDuplicate(e, i) =>
                \E k \in DOMAIN LiveDuplicates(i) : LiveDuplicates(i)[k] = e
<1> DEFINE S == {e \in queue \ due : NearDuplicate(e, i)}
<1>1. S \in SUBSET Items
  BY DEF TypeOK
<1>2. PICK s : s = LiveDuplicates(i)
  OBVIOUS
<1>3. s \in Seq(S) /\ \A e \in S : \E k \in DOMAIN s : s[k] = e
  BY <1>1, <1>2, ListedFacts DEF LiveDuplicates
<1>4. s \in Seq(Items)
  <2> HIDE DEF S
  <2> QED BY <1>1, <1>3
<1>5. \A k \in DOMAIN s : s[k] \in S
  <2> HIDE DEF S
  <2> QED BY <1>3
<1> QED BY <1>2, <1>3, <1>4, <1>5

LEMMA ReadFailsStep ==
    ASSUME IInv, NEW p \in Callers, ReadFails(p)
    PROVE  IInv'
<1>1. /\ task[p].step \in {"list", "sweep", "get"}
      /\ Become(p, Idle)
      /\ UNCHANGED <<queue, torn, due, used, made, fate, calls, faults, crashes, serial>>
  BY DEF ReadFails, disk, seen, bounds, At
<1>2. TypeOK'
  BY <1>1, OneTask, IdleFits DEF IInv, TypeOK
<1>3. FreshOf(Idle) = {} /\ UntouchedOf(Idle) = {} /\ Idle.todo = <<>> /\ Idle.step = "idle"
      /\ Idle.answering = None /\ Idle.item = None /\ Idle.ups = {}
  BY DEF FreshOf, UntouchedOf, Idle
<1>4. DOMAIN Idle.todo = {} /\ Idle.item \notin Idle.ups
  BY <1>3
<1> QED BY <1>1, <1>2, <1>3, <1>4, IdleFits, QuietStep

LEMMA StoreFailsStep ==
    ASSUME IInv, NEW p \in Callers, StoreFails(p)
    PROVE  IInv'
<1>1. /\ faults' = faults + 1
      /\ Become(p, Idle)
      /\ (torn' = torn \/ (torn' = torn \cup {task[p].item} /\ At(p, "put"))) /\ queue' = queue
      /\ UNCHANGED <<due, used, made, fate, calls, crashes, serial>>
  BY DEF StoreFails, TearItem, disk, seen
<1>2. faults \in Nat /\ crashes \in Nat /\ torn \subseteq Items
  BY DEF IInv, TypeOK
<1>3. faults' \in Nat /\ faults' + crashes' # 0
  BY <1>1, <1>2
<1>4. At(p, "put") => task[p].item \in Items
  BY TaskParts DEF IInv, TasksFit, TaskFits, At
<1>5. TypeOK'
  BY <1>1, <1>2, <1>3, <1>4, OneTask, IdleFits DEF IInv, TypeOK
<1>6. FreshOf(Idle) = {} /\ UntouchedOf(Idle) = {} /\ Idle.todo = <<>> /\ Idle.step = "idle"
      /\ Idle.answering = None /\ Idle.item = None /\ Idle.ups = {}
  BY DEF FreshOf, UntouchedOf, Idle
<1>7. DOMAIN Idle.todo = {} /\ Idle.item \notin Idle.ups
  BY <1>6
<1> QED BY <1>1, <1>3, <1>5, <1>6, <1>7, IdleFits, QuietStep

LEMMA LookStep ==
    ASSUME IInv, NEW p \in Callers, Look(p)
    PROVE  IInv'
<1>1. /\ task[p].step = "get"
      /\ UNCHANGED <<queue, torn, due, used, made, fate, calls, faults, crashes, serial>>
      /\ \/ Become(p, Idle)
         \/ Become(p, [task[p] EXCEPT !.step = "close"])
              /\ task[p].reply = "reject" /\ Content[task[p].answering].kind = "confirm"
         \/ Become(p, [task[p] EXCEPT !.step = "upsert"])
  BY DEF Look, disk, seen, bounds, At
<1>2. PICK t : /\ Become(p, t)
               /\ \/ t = Idle
                  \/ t = [task[p] EXCEPT !.step = "close"]
                       /\ task[p].reply = "reject" /\ Content[task[p].answering].kind = "confirm"
                  \/ t = [task[p] EXCEPT !.step = "upsert"]
  BY <1>1
<1>3. TaskFits(task[p]) /\ task[p] \in Task
  BY TaskParts DEF IInv, TasksFit
<1>4. /\ task[p].item = None /\ task[p].answering # None /\ task[p].todo = <<>> /\ task[p].ups = {}
  BY <1>1, <1>3 DEF TaskFits
<1>5. /\ t \in Task /\ t.item = None /\ t.todo = <<>> /\ t.ups = {}
      /\ t.step \in {"idle", "close", "upsert"} /\ TaskFits(t)
      /\ t.step = "close" => Refused(t)
  <2>1. CASE t = Idle
    BY <2>1, IdleFits DEF Idle
  <2>2. CASE t # Idle
    <3>1. /\ t \in Task /\ t.item = task[p].item /\ t.answering = task[p].answering
          /\ t.reply = task[p].reply /\ t.todo = task[p].todo /\ t.ups = task[p].ups
          /\ \/ t.step = "close" /\ task[p].reply = "reject" /\ Content[task[p].answering].kind = "confirm"
             \/ t.step = "upsert"
      BY <1>2, <1>3, <2>2 DEF Task
    <3> QED BY <1>4, <3>1 DEF TaskFits, Refused
  <2> QED BY <2>1, <2>2
<1>6. TypeOK'
  BY <1>1, <1>2, <1>5, OneTask DEF IInv, TypeOK
<1>7. FreshOf(t) = {} /\ UntouchedOf(t) = {} /\ DOMAIN t.todo = {}
  BY <1>5 DEF FreshOf, UntouchedOf
<1>8. At(p, "idle") => FALSE
  BY <1>1 DEF At
<1> QED BY <1>1, <1>2, <1>4, <1>5, <1>6, <1>7, <1>8, QuietStep

LEMMA WinStep ==
    ASSUME IInv, NEW p \in Callers, Win(p)
    PROVE  IInv'
<1>1. PICK t0 \in Task : t0 = task[p]
  BY TaskParts DEF IInv
<1>2. PICK s : s = LiveDuplicates(t0.item)
  OBVIOUS
<1>3. PICK todo : todo = [k \in DOMAIN s |-> [id |-> s[k], by |-> t0.item]]
  OBVIOUS
<1>4. PICK t : t = [t0 EXCEPT !.step = IF s = <<>> THEN "put" ELSE "drop", !.todo = todo]
  OBVIOUS
<1>5. /\ t0.step = "list" /\ torn = {}
      /\ s # <<>> => Priority(Best(s)) < Priority(t0.item)
      /\ Become(p, t)
      /\ UNCHANGED <<queue, torn, due, used, made, fate, calls, faults, crashes, serial>>
  BY <1>1, <1>2, <1>3, <1>4 DEF Win, disk, seen, bounds, At
<1>6. /\ TaskFits(t0) /\ t0.item \in Items /\ t0.item # None
      /\ t0.item \in Fresh(p) /\ Untouched(p) = UntouchedOf(t0) /\ Fresh(p) = FreshOf(t0)
      /\ t0.item \notin t0.ups
  BY <1>1, <1>5, TaskParts, Outcomes
     DEF IInv, TasksFit, TaskFits, Fresh, Untouched, FreshOf, UntouchedOf, FreshFit, At
<1>7. /\ s \in Seq(Items)
      /\ \A k \in DOMAIN s : s[k] \in queue \ due /\ NearDuplicate(s[k], t0.item)
      /\ \A e \in queue \ due : NearDuplicate(e, t0.item) => \E k \in DOMAIN s : s[k] = e
  BY <1>2, LiveFacts DEF IInv
<1>8. /\ todo \in Seq(Removal) /\ DOMAIN todo = DOMAIN s /\ (s = <<>> <=> todo = <<>>)
      /\ \A k \in DOMAIN s : todo[k].id = s[k] /\ todo[k].by = t0.item
  <2>1. \A k \in DOMAIN s : [id |-> s[k], by |-> t0.item] \in Removal
    BY <1>6, <1>7 DEF Removal
  <2>2. DOMAIN s = 1..Len(s) /\ Len(s) \in Nat
    BY <1>7
  <2>3. todo \in [1..Len(s) -> Removal]
    BY <1>3, <2>1, <2>2
  <2> QED BY <1>3, <1>7, <2>2, <2>3
<1>9. /\ t.step = (IF s = <<>> THEN "put" ELSE "drop") /\ t.todo = todo
      /\ t.item = t0.item /\ t.answering = t0.answering /\ t.reply = t0.reply /\ t.ups = t0.ups
      /\ t \in Task
  BY <1>4, <1>8 DEF Task
<1>10. TaskFits(t)
  BY <1>5, <1>6, <1>8, <1>9 DEF TaskFits
<1>11. TypeOK'
  BY <1>5, <1>9, OneTask DEF IInv, TypeOK
<1>12. \A k \in DOMAIN s : Priority(t0.item) > Priority(s[k])
  <2> SUFFICES ASSUME NEW k \in DOMAIN s PROVE Priority(t0.item) > Priority(s[k])
    OBVIOUS
  <2>1. s # <<>> /\ s[k] \in Items
    BY <1>7
  <2>2. PICK b \in DOMAIN s : Best(s) = s[b] /\ Priority(s[k]) <= Priority(s[b])
    BY <1>7, <2>1, BestFacts
  <2>3. s[b] \in Items
    BY <1>7
  <2>4. Priority(s[k]) \in Nat /\ Priority(s[b]) \in Nat /\ Priority(t0.item) \in Nat
    BY <1>6, <2>1, <2>3, PriorityType
  <2> QED BY <1>5, <2>1, <2>2, <2>4
<1>13. \A n \in DOMAIN t.todo :
         /\ Rightly(t.todo[n])
         /\ t.todo[n].by = t.item /\ t.step = "drop" /\ t.item \in Fresh(p)
  BY <1>6, <1>7, <1>8, <1>9, <1>12, NearIsSymmetric DEF Rightly, Over
<1>14. \A e \in queue \ due : NearDuplicate(e, t.item) => \E n \in DOMAIN t.todo : t.todo[n].id = e
  BY <1>7, <1>8, <1>9
<1>15. FreshOf(t) = FreshOf(t0) /\ UntouchedOf(t) \subseteq UntouchedOf(t0)
  BY <1>9 DEF FreshOf, UntouchedOf
<1>16. t.answering # None => made[t.answering] > 0
  BY <1>1, <1>5, <1>9 DEF IInv, StoredFirst, At
<1>17. ~At(p, "idle") /\ ~(task[p].step \in {"drop", "put"})
  BY <1>1, <1>5 DEF At
<1> QED BY <1>5, <1>6, <1>9, <1>10, <1>11, <1>13, <1>14, <1>15, <1>16, <1>17, QuietStep

LEMMA SweepStep ==
    ASSUME IInv, NEW p \in Callers, Sweep(p)
    PROVE  IInv'
<1> USE DEF IInv
<1>1. PICK past : past = Listed(queue \cap due)
  OBVIOUS
<1>2. PICK lapsed : lapsed = [k \in DOMAIN past |-> [id |-> past[k], by |-> Lapsed]]
  OBVIOUS
<1>3. PICK lost : lost = Losers(queue \ due)
  OBVIOUS
<1>4. PICK todo : todo = lapsed \o lost
  OBVIOUS
<1>5. PICK t : t = IF todo = <<>> THEN Idle ELSE [task[p] EXCEPT !.step = "drop", !.todo = todo]
  OBVIOUS
<1>6. /\ task[p].step = "sweep" /\ torn = {}
      /\ Become(p, t)
      /\ UNCHANGED <<queue, torn, due, used, made, fate, calls, faults, crashes, serial>>
  BY <1>1, <1>2, <1>3, <1>4, <1>5 DEF Sweep, disk, seen, bounds, At
<1>7. queue \subseteq Items
  BY DEF TypeOK
<1>8. /\ lapsed \in Seq(Removal)
      /\ \A k \in DOMAIN lapsed : lapsed[k].by = Lapsed
  <2>1. past \in Seq(queue \cap due)
    BY <1>1, <1>7, ListedFacts
  <2>2. DOMAIN past = 1..Len(past) /\ Len(past) \in Nat /\ \A k \in DOMAIN past : past[k] \in Items
    BY <1>7, <2>1
  <2>3. \A k \in DOMAIN past : [id |-> past[k], by |-> Lapsed] \in Removal
    BY <2>2 DEF Removal
  <2>4. lapsed \in [1..Len(past) -> Removal]
    BY <1>2, <2>2, <2>3
  <2> QED BY <1>2, <2>2, <2>4
<1>9. /\ lost \in Seq(Removal)
      /\ \A k \in DOMAIN lost : lost[k].by \in queue /\ Rightly(lost[k])
  <2> DEFINE S == queue \ due
             R == [id : S, by : S]
  <2>1. S \in SUBSET Items /\ R \subseteq Removal
    BY <1>7 DEF Removal
  <2>2. /\ lost \in Seq(R)
        /\ \A k \in DOMAIN lost : NearDuplicate(lost[k].by, lost[k].id) /\ Over(lost[k].by, lost[k].id)
    BY <1>3, <2>1, LosersFacts
  <2>3. \A r \in R : r.by \in queue
    OBVIOUS
  <2> HIDE DEF R
  <2>4. \A k \in DOMAIN lost : lost[k] \in R
    BY <2>2
  <2>5. lost \in Seq(Removal)
    BY <2>1, <2>2
  <2> QED BY <2>2, <2>3, <2>4, <2>5 DEF Rightly
<1>10. /\ todo \in Seq(Removal)
       /\ \A k \in DOMAIN todo : Rightly(todo[k]) /\ (todo[k].by \in Items => todo[k].by \in queue)
  <2>1. todo \in Seq(Removal)
    BY <1>4, <1>8, <1>9
  <2> SUFFICES ASSUME NEW k \in DOMAIN todo
               PROVE  Rightly(todo[k]) /\ (todo[k].by \in Items => todo[k].by \in queue)
    BY <2>1
  <2>2. \/ k \in DOMAIN lapsed /\ todo[k] = lapsed[k]
        \/ (k - Len(lapsed)) \in DOMAIN lost /\ todo[k] = lost[k - Len(lapsed)]
    BY <1>4, <1>8, <1>9
  <2> QED BY <1>8, <1>9, <2>2, Outcomes DEF Rightly
<1>11. TaskFits(task[p]) /\ task[p] \in Task
  BY TaskParts DEF TasksFit
<1>12. task[p].item = None /\ task[p].answering = None /\ task[p].ups = {}
  BY <1>6, <1>11 DEF TaskFits
<1>13. /\ t \in Task /\ TaskFits(t) /\ t.item = None /\ t.answering = None /\ t.ups = {}
       /\ t.step \in {"idle", "drop"} /\ (t.todo = <<>> \/ t.todo = todo)
  <2>1. CASE todo = <<>>
    BY <1>5, <2>1, IdleFits DEF Idle
  <2>2. CASE todo # <<>>
    <3>1. t = [task[p] EXCEPT !.step = "drop", !.todo = todo]
      BY <1>5, <2>2
    <3>2. /\ t \in Task /\ t.step = "drop" /\ t.todo = todo /\ t.item = None /\ t.answering = None
          /\ t.ups = {}
      BY <1>10, <1>11, <1>12, <3>1 DEF Task
    <3> QED BY <2>2, <3>2 DEF TaskFits
  <2> QED BY <2>1, <2>2
<1>14. TypeOK'
  BY <1>6, <1>13, OneTask DEF TypeOK
<1>15. FreshOf(t) = {} /\ UntouchedOf(t) = {}
  BY <1>13 DEF FreshOf, UntouchedOf
<1>16. \A n \in DOMAIN t.todo : Rightly(t.todo[n]) /\ (t.todo[n].by \in Items => t.todo[n].by \in queue)
  BY <1>10, <1>13
<1>17. ~At(p, "idle") /\ ~(task[p].step \in {"drop", "put"})
  BY <1>6 DEF At
<1> HIDE DEF IInv
<1> QED BY <1>6, <1>13, <1>14, <1>15, <1>16, <1>17, QuietStep

LEMMA UpsertStep ==
    ASSUME IInv, NEW p \in Callers, Upsert(p)
    PROVE  IInv'
<1> USE DEF IInv
<1>1. PICK t0 \in Task : t0 = task[p]
  BY TaskParts
<1>2. PICK ups \in FollowUps(t0.answering) :
         /\ used' = used \cup ups
         /\ \E n \in Resumed([t0 EXCEPT !.ups = ups]) : Become(p, n)
  BY <1>1 DEF Upsert
<1>3. /\ t0.step = "upsert"
      /\ made' = [made EXCEPT ![t0.answering] = @ + 1]
      /\ UNCHANGED <<queue, torn, due, fate, calls, faults, crashes, serial>>
  BY <1>1 DEF Upsert, disk, bounds, At
<1>4. TaskFits(t0) /\ t0.item = None /\ t0.answering \in Items /\ t0.ups = {} /\ t0.todo = <<>>
  BY <1>1, <1>3, TaskParts DEF TasksFit, TaskFits
<1>5. ups \subseteq Items \ used
  BY DEF FollowUps
<1>6. PICK t1 : t1 = [t0 EXCEPT !.ups = ups]
  OBVIOUS
<1>7. t1 \in Task /\ t1.todo = <<>> /\ t1.answering = t0.answering /\ t1.ups = ups
  BY <1>4, <1>5, <1>6 DEF Task
<1>8. PICK n \in Resumed(t1) : Become(p, n)
  BY <1>2, <1>6
<1>9. /\ n \in Task /\ TaskFits(n) /\ n.todo = <<>>
      /\ n.step \in {"idle", "close", "list"}
      /\ n.item \notin n.ups
      /\ FreshOf(n) \subseteq ups /\ UntouchedOf(n) \subseteq ups
      /\ n.answering # None => t0.answering = n.answering
  BY <1>4, <1>7, ResumedFacts, Outcomes
<1>10. made \in [Items -> Nat] /\ made' \in [Items -> Nat] /\ made'[t0.answering] > 0
       /\ \A i \in Items : made[i] > 0 => made'[i] > 0
  BY <1>3, <1>4 DEF TypeOK
<1>11. used' \subseteq Items /\ used \subseteq used' /\ ups \subseteq used' \ used
  BY <1>2, <1>5 DEF TypeOK
<1>12. TypeOK'
  BY <1>3, <1>8, <1>9, <1>10, <1>11, OneTask DEF TypeOK
<1>13. ~At(p, "idle") /\ task[p].item = None /\ DOMAIN n.todo = {}
  BY <1>1, <1>3, <1>4, <1>9 DEF At
<1> HIDE DEF IInv
<1> QED BY <1>3, <1>8, <1>9, <1>10, <1>11, <1>12, <1>13, QuietStep

LEMMA SuppressStep ==
    ASSUME IInv, NEW p \in Callers, Suppress(p)
    PROVE  IInv'
<1> USE DEF IInv
<1>1. PICK t0 \in Task : t0 = task[p]
  BY TaskParts
<1>2. PICK s : s = LiveDuplicates(t0.item)
  OBVIOUS
<1>3. PICK b : b = Best(s)
  OBVIOUS
<1>4. /\ t0.step = "list" /\ torn = {}
      /\ s # <<>> /\ Priority(b) >= Priority(t0.item)
      /\ fate' = [fate EXCEPT ![t0.item] = b]
      /\ \E n \in Resumed(t0) : Become(p, n)
      /\ UNCHANGED <<queue, torn, due, used, made, calls, faults, crashes, serial>>
  BY <1>1, <1>2, <1>3 DEF Suppress, disk, bounds, At
<1>5. /\ TaskFits(t0) /\ t0.item \in Items /\ t0.todo = <<>>
      /\ (t0.answering = None => t0.ups = {}) /\ t0.item \notin t0.ups
  BY <1>1, <1>4, TaskParts DEF TasksFit, TaskFits, FreshFit
<1>6. PICK t \in Resumed(t0) : Become(p, t)
  BY <1>4
<1>7. /\ t \in Task /\ TaskFits(t) /\ t.todo = <<>>
      /\ t.step \in {"idle", "close", "list"}
      /\ t.item \notin t.ups
      /\ FreshOf(t) \subseteq t0.ups /\ UntouchedOf(t) \subseteq t0.ups
      /\ t.answering # None => t0.answering = t.answering
  BY <1>5, ResumedFacts
<1>8. b \in queue /\ NearDuplicate(b, t0.item) /\ b \in Items
  <2>1. s \in Seq(Items) /\ \A k \in DOMAIN s : s[k] \in queue /\ NearDuplicate(s[k], t0.item)
    BY <1>2, LiveFacts
  <2>2. \E k \in DOMAIN s : b = s[k]
    BY <1>3, <1>4, <2>1, BestFacts
  <2> QED BY <2>1, <2>2 DEF TypeOK
<1>9. /\ t0.item \in Untouched(p) /\ t0.ups \subseteq Untouched(p) /\ t0.ups \subseteq Items
      /\ Fresh(p) = t0.ups \cup {t0.item} /\ Fresh(p) \subseteq used \ queue
  BY <1>1, <1>4, <1>5, TaskParts, Outcomes DEF Untouched, Fresh, At, FreshFit
<1>10. \A i \in Items : fate'[i] = IF i = t0.item THEN b ELSE fate[i]
  BY <1>4 DEF TypeOK
<1>11. TypeOK'
  <2>1. fate' \in [Items -> Items \cup Ends]
    BY <1>4, <1>8 DEF TypeOK
  <2> QED BY <1>4, <1>6, <1>7, <2>1, OneTask DEF TypeOK
<1>12. TasksFit'
  BY <1>6, <1>7, TasksKept
<1>13. \A i \in Items : Mentioned(i)' => Mentioned(i)
  <2>1. \A k \in Items : fate'[k] \in Items => Mentioned(fate'[k]) \/ fate'[k] \in {}
    BY <1>8, <1>10 DEF Mentioned
  <2>2. \A i \in queue' : Mentioned(i) \/ i \in {}
    BY <1>4 DEF Mentioned
  <2>3. \A n \in DOMAIN t.todo : t.todo[n].by \in Items => Mentioned(t.todo[n].by) \/ t.todo[n].by \in {}
    BY <1>7
  <2>4. \A i \in Items : Mentioned(i)' => Mentioned(i) \/ i \in {}
    BY <1>6, <1>7, <2>1, <2>2, <2>3, MentionedNext
  <2> QED BY <2>4
<1>14. FreshFit'
  <2>1. used \subseteq used' /\ queue' \subseteq used' /\ queue' \subseteq queue \cup Fresh(p)
    BY <1>4 DEF FreshFit
  <2>2. FreshOf(t) \subseteq used' /\ queue' \cap FreshOf(t) = {} /\ FreshOf(t) \subseteq Items
        /\ FreshOf(t) \subseteq Fresh(p) /\ t0.item \in Fresh(p) \ FreshOf(t)
    BY <1>4, <1>5, <1>7, <1>9
  <2>3. \A i \in UntouchedOf(t) : i \in FreshOf(t) /\ (i \in Untouched(p) \/ i \notin used)
    BY <1>7, <1>9, Outcomes DEF FreshOf, UntouchedOf
  <2> QED BY <1>6, <1>7, <1>10, <1>13, <2>1, <2>2, <2>3, FreshKept
<1>15. StoredFirst'
  <2>1. t.answering # None => made'[t.answering] > 0
    BY <1>1, <1>4, <1>7 DEF StoredFirst, At
  <2> QED BY <1>4, <1>6, <1>7, <2>1, StoredKept
<1>16. AnswersAreKept'
  BY <1>4, <1>8, <1>10, Outcomes DEF AnswersAreKept
<1>17. OneCall' /\ Distinct' /\ Cleared'
  BY <1>1, <1>4, <1>6, <1>7, OneCallKept, DistinctKept, ClearedKept DEF At
<1>18. GivesWay'
  <2>1. ~Mentioned(t0.item)'
    BY <1>5, <1>9, <1>13 DEF FreshFit
  <2>2. \A i \in Items : fate'[i] = fate[i] \/ (fate'[i] \in Items =>
               /\ NearDuplicate(fate'[i], i) /\ Priority(fate'[i]) >= Priority(i)
               /\ Over(fate'[i], i) \/ ~Mentioned(i)')
    BY <1>4, <1>8, <1>10, <2>1
  <2> QED BY <1>6, <1>7, <1>13, <2>2, GivesWayKept
<1>19. StandIns'
  <2>1. \A i \in Items : fate[i] # None => fate'[i] # None
    BY <1>8, <1>10, Outcomes
  <2> QED BY <1>1, <1>4, <1>6, <1>7, <1>13, <2>1, StandInsKept
<1> QED BY <1>11, <1>12, <1>14, <1>15, <1>16, <1>17, <1>18, <1>19

LEMMA PutStep ==
    ASSUME IInv, NEW p \in Callers, Put(p)
    PROVE  IInv'
<1> USE DEF IInv
<1>1. PICK t0 \in Task : t0 = task[p]
  BY TaskParts
<1>2. /\ t0.step = "put" /\ queue' = queue \cup {t0.item}
      /\ \E n \in Resumed(t0) : Become(p, n)
      /\ UNCHANGED <<torn, due, used, made, fate, calls, faults, crashes, serial>>
  BY <1>1 DEF Put, seen, bounds, At
<1>3. /\ TaskFits(t0) /\ t0.item \in Items /\ t0.todo = <<>>
      /\ (t0.answering = None => t0.ups = {}) /\ t0.item \notin t0.ups
  BY <1>1, <1>2, TaskParts DEF TasksFit, TaskFits, FreshFit
<1>4. PICK t \in Resumed(t0) : Become(p, t)
  BY <1>2
<1>5. /\ t \in Task /\ TaskFits(t) /\ t.todo = <<>>
      /\ t.step \in {"idle", "close", "list"}
      /\ t.item \notin t.ups
      /\ FreshOf(t) \subseteq t0.ups /\ UntouchedOf(t) \subseteq t0.ups
      /\ t.answering # None => t0.answering = t.answering
  BY <1>3, ResumedFacts
<1>6. /\ t0.ups \subseteq Untouched(p) /\ t0.ups \subseteq Items
      /\ Fresh(p) = t0.ups \cup {t0.item} /\ Fresh(p) \subseteq used \ queue
  BY <1>1, <1>2, <1>3, TaskParts, Outcomes DEF Untouched, Fresh, At, FreshFit
<1>7. TypeOK'
  BY <1>2, <1>3, <1>4, <1>5, OneTask DEF TypeOK
<1>8. TasksFit'
  BY <1>4, <1>5, TasksKept
<1>9. \A i \in Items : Mentioned(i)' => Mentioned(i) \/ i \in {t0.item}
  <2>1. \A k \in Items : fate'[k] \in Items => Mentioned(fate'[k]) \/ fate'[k] \in {t0.item}
    BY <1>2 DEF Mentioned
  <2>2. \A i \in queue' : Mentioned(i) \/ i \in {t0.item}
    BY <1>2 DEF Mentioned
  <2>3. \A n \in DOMAIN t.todo : t.todo[n].by \in Items => Mentioned(t.todo[n].by) \/ t.todo[n].by \in {t0.item}
    BY <1>5
  <2> QED BY <1>4, <1>5, <2>1, <2>2, <2>3, MentionedNext
<1>10. FreshFit'
  <2>1. used \subseteq used' /\ queue' \subseteq used' /\ queue' \subseteq queue \cup Fresh(p)
    BY <1>2, <1>6 DEF FreshFit
  <2>2. FreshOf(t) \subseteq used' /\ queue' \cap FreshOf(t) = {} /\ FreshOf(t) \subseteq Items
        /\ FreshOf(t) \subseteq Fresh(p)
    BY <1>2, <1>3, <1>5, <1>6
  <2>3. \A i \in UntouchedOf(t) : i \in FreshOf(t) /\ (i \in Untouched(p) \/ i \notin used)
    BY <1>5, <1>6, Outcomes DEF FreshOf, UntouchedOf
  <2>4. t0.item \in Fresh(p) \ UntouchedOf(t)
    BY <1>3, <1>5, <1>6
  <2>5. \A i \in Items : fate'[i] = fate[i]
    BY <1>2
  <2> QED BY <1>4, <1>5, <1>9, <2>1, <2>2, <2>3, <2>4, <2>5, FreshKept
<1>11. StoredFirst'
  <2>1. t.answering # None => made'[t.answering] > 0
    BY <1>1, <1>2, <1>5 DEF StoredFirst, At
  <2> QED BY <1>2, <1>4, <1>5, <2>1, StoredKept
<1>12. AnswersAreKept'
  BY <1>2 DEF AnswersAreKept
<1>13. OneCall'
  BY <1>1, <1>2, <1>4, <1>5, OneCallKept DEF At
<1>14. Distinct'
  <2> SUFFICES ASSUME serial, NEW i \in queue' \ due', NEW j \in queue' \ due',
                      i # j, NearDuplicate(i, j)
               PROVE  {i, j} \subseteq Legacy
    BY <1>2 DEF Distinct, NearDuplicate
  <2>1. \A e \in queue \ due : ~NearDuplicate(e, t0.item)
    BY <1>1, <1>2, <1>3, Outcomes DEF Cleared
  <2>2. i # t0.item /\ j # t0.item
    BY <1>2, <2>1, NearIsSymmetric
  <2> QED BY <1>2, <2>2 DEF Distinct
<1>15. Cleared'
  <2>1. ASSUME serial', NEW q \in Callers, task'[q].step \in {"drop", "put"} PROVE FALSE
    <3>1. q # p /\ task'[q] = task[q]
      BY <1>4, <1>5, <2>1, OneTask
    <3> QED BY <1>1, <1>2, <2>1, <3>1 DEF OneCall, At
  <2> QED BY <2>1 DEF Cleared
<1>16. GivesWay'
  <2>1. \A i \in Items : fate'[i] = fate[i]
    BY <1>2
  <2> QED BY <1>4, <1>5, <1>6, <1>9, <2>1, GivesWayKept
<1>17. StandIns'
  <2>1. task[p].item \in queue' /\ t0.item \in queue'
    BY <1>1, <1>2
  <2>2. \A i \in queue : i \in queue'
    BY <1>2
  <2>3. \A i \in Items : fate[i] # None => fate'[i] # None
    BY <1>2
  <2>4. faults' = faults /\ crashes' = crashes /\ torn' \subseteq torn
    BY <1>2
  <2>5. \A i \in Items : Mentioned(i)' => Mentioned(i) \/ i \in queue'
    BY <1>9, <2>1
  <2> QED BY <1>4, <1>5, <2>1, <2>2, <2>3, <2>4, <2>5, StandInsKept
<1> QED BY <1>7, <1>8, <1>10, <1>11, <1>12, <1>13, <1>14, <1>15, <1>16, <1>17

LEMMA DropStep ==
    ASSUME IInv, NEW p \in Callers, Drop(p)
    PROVE  IInv'
<1> USE DEF IInv
<1>1. PICK t0 \in Task : t0 = task[p]
  BY TaskParts
<1>2. PICK todo : todo = t0.todo
  OBVIOUS
<1>3. PICK h, rest : h = Head(todo) /\ rest = Tail(todo)
  OBVIOUS
<1>4. PICK t : t = IF rest # <<>> THEN [t0 EXCEPT !.todo = rest]
                   ELSE IF t0.item = None THEN Idle
                   ELSE [t0 EXCEPT !.todo = rest, !.step = "put"]
  OBVIOUS
<1>5. /\ t0.step = "drop"
      /\ queue' = queue \ {h.id} /\ torn' = torn \ {h.id}
      /\ fate' = IF h.id \in queue THEN [fate EXCEPT ![h.id] = h.by] ELSE fate
      /\ Become(p, t)
      /\ UNCHANGED <<due, used, made, calls, faults, crashes, serial>>
  BY <1>1, <1>2, <1>3, <1>4 DEF Drop, bounds, At
<1>6. TaskFits(t0) /\ todo \in Seq(Removal) /\ todo # <<>>
  BY <1>1, <1>2, <1>5, TaskParts DEF TasksFit, TaskFits
<1>7. /\ 1 \in DOMAIN todo /\ h = todo[1] /\ h \in Removal /\ rest \in Seq(Removal)
      /\ \A n \in DOMAIN rest : n + 1 \in DOMAIN todo /\ rest[n] = todo[n + 1]
      /\ \A n \in DOMAIN todo : n = 1 \/ (n - 1 \in DOMAIN rest /\ rest[n - 1] = todo[n])
  BY <1>3, <1>6
<1>8. h.id \in Items /\ h.by \in Items \cup {Lapsed} /\ h.by # None /\ h.by # Accepted
  BY <1>7, Outcomes DEF Removal
<1>9. /\ t \in Task /\ TaskFits(t) /\ t.todo = rest
      /\ t.step \in {"idle", "drop", "put"}
      /\ \/ t = Idle /\ t0.item = None
         \/ t.item = t0.item /\ t.answering = t0.answering /\ t.ups = t0.ups /\ t.step \in {"drop", "put"}
  <2>1. CASE rest # <<>>
    <3>1. t = [t0 EXCEPT !.todo = rest]
      BY <1>4, <2>1
    <3>2. /\ t \in Task /\ t.step = "drop" /\ t.todo = rest /\ t.item = t0.item
          /\ t.answering = t0.answering /\ t.ups = t0.ups
      BY <1>5, <1>7, <3>1 DEF Task
    <3> QED BY <1>5, <1>6, <2>1, <3>2 DEF TaskFits
  <2>2. CASE rest = <<>> /\ t0.item = None
    BY <1>4, <2>2, IdleFits DEF Idle
  <2>3. CASE rest = <<>> /\ t0.item # None
    <3>1. t = [t0 EXCEPT !.todo = rest, !.step = "put"]
      BY <1>4, <2>3
    <3>2. /\ t \in Task /\ t.step = "put" /\ t.todo = rest /\ t.item = t0.item
          /\ t.answering = t0.answering /\ t.ups = t0.ups
      BY <1>7, <3>1 DEF Task
    <3> QED BY <1>5, <1>6, <2>3, <3>2 DEF TaskFits
  <2> QED BY <2>1, <2>2, <2>3
<1>10. \A i \in Items : fate'[i] = IF i = h.id /\ h.id \in queue THEN h.by ELSE fate[i]
  BY <1>5, <1>8 DEF TypeOK
<1>11. Fresh(p) = FreshOf(t0) /\ Untouched(p) = UntouchedOf(t0) /\ Fresh(p) \subseteq used \ queue
  BY <1>1 DEF Fresh, FreshOf, Untouched, UntouchedOf, At, FreshFit
<1>12. FreshOf(t) \subseteq FreshOf(t0) /\ UntouchedOf(t) \subseteq UntouchedOf(t0)
       /\ UntouchedOf(t) \subseteq FreshOf(t) /\ t.item \notin t.ups
  BY <1>1, <1>9 DEF FreshOf, UntouchedOf, Idle, FreshFit
<1>13. TypeOK'
  <2>1. fate' \in [Items -> Items \cup Ends]
    BY <1>5, <1>8, Outcomes DEF TypeOK
  <2> QED BY <1>5, <1>9, <2>1, OneTask DEF TypeOK
<1>14. TasksFit'
  BY <1>5, <1>9, TasksKept
<1>15. \A n \in DOMAIN todo : Rightly(todo[n]) /\ (todo[n].by \in Items => Mentioned(todo[n].by))
  BY <1>1, <1>2 DEF GivesWay, Rightly, Mentioned
<1>16. \A i \in Items : Mentioned(i)' => Mentioned(i)
  <2>1. \A k \in Items : fate'[k] \in Items => Mentioned(fate'[k]) \/ fate'[k] \in {}
    BY <1>7, <1>10, <1>15 DEF Mentioned
  <2>2. \A i \in queue' : Mentioned(i) \/ i \in {}
    BY <1>5 DEF Mentioned
  <2>3. \A n \in DOMAIN t.todo : t.todo[n].by \in Items => Mentioned(t.todo[n].by) \/ t.todo[n].by \in {}
    BY <1>7, <1>9, <1>15
  <2>4. \A i \in Items : Mentioned(i)' => Mentioned(i) \/ i \in {}
    BY <1>5, <1>9, <2>1, <2>2, <2>3, MentionedNext
  <2> QED BY <2>4
<1>17. FreshFit'
  <2>1. used \subseteq used' /\ queue' \subseteq used' /\ queue' \subseteq queue \cup Fresh(p)
    BY <1>5 DEF FreshFit
  <2>2. FreshOf(t) \subseteq used' /\ queue' \cap FreshOf(t) = {} /\ FreshOf(t) \subseteq Items
        /\ FreshOf(t) \subseteq Fresh(p)
    BY <1>5, <1>11, <1>12 DEF TypeOK
  <2>3. \A i \in UntouchedOf(t) : i \in FreshOf(t) /\ (i \in Untouched(p) \/ i \notin used)
    BY <1>11, <1>12
  <2>4. \A i \in Items : fate'[i] = fate[i] \/ i \in queue
    BY <1>10
  <2> QED BY <1>5, <1>9, <1>12, <1>16, <2>1, <2>2, <2>3, <2>4, FreshKept
<1>18. StoredFirst'
  <2>1. t.answering # None /\ t.step \in {"list", "drop", "put", "close"} => made'[t.answering] > 0
    BY <1>1, <1>5, <1>9 DEF StoredFirst, At, Idle
  <2> QED BY <1>5, <1>9, <2>1, StoredKept
<1>19. AnswersAreKept'
  BY <1>5, <1>8, <1>10 DEF AnswersAreKept
<1>20. OneCall' /\ Distinct'
  BY <1>1, <1>5, <1>9, OneCallKept, DistinctKept DEF At
<1>21. Cleared'
  <2>1. ASSUME serial', t.item # None, NEW e \in queue' \ due', NearDuplicate(e, t.item)
        PROVE  \E n \in DOMAIN t.todo : t.todo[n].id = e
    <3>1. t.item = t0.item
      BY <1>9, <2>1 DEF Idle
    <3>2. PICK n \in DOMAIN todo : todo[n].id = e
      BY <1>1, <1>2, <1>5, <2>1, <3>1 DEF Cleared
    <3>3. n # 1
      BY <1>5, <1>7, <2>1, <3>2
    <3> QED BY <1>7, <1>9, <3>2, <3>3
  <2>2. queue' \ due' \subseteq queue \ due /\ (serial' => serial)
    BY <1>5
  <2> QED BY <1>5, <1>9, <2>1, <2>2, ClearedKept
<1>22. GivesWay'
  <2>1. \A n \in DOMAIN t.todo : Rightly(t.todo[n])
    BY <1>7, <1>9, <1>15
  <2>2. h.by \in Items => NearDuplicate(h.by, h.id) /\ Over(h.by, h.id) /\ Priority(h.by) >= Priority(h.id)
    <3>1. h.by \in Items => Priority(h.by) \in Nat /\ Priority(h.id) \in Nat
      BY <1>8, PriorityType
    <3> QED BY <1>7, <1>15, <3>1 DEF Rightly, Over
  <2>3. \A i \in Items : fate'[i] = fate[i] \/ (fate'[i] \in Items =>
               /\ NearDuplicate(fate'[i], i) /\ Priority(fate'[i]) >= Priority(i)
               /\ Over(fate'[i], i) \/ ~Mentioned(i)')
    BY <1>10, <2>2
  <2> QED BY <1>5, <1>9, <1>16, <2>1, <2>3, GivesWayKept
<1>23. StandIns'
  <2>1. \A i \in queue : i \in queue' \/ fate'[i] # None
    BY <1>5, <1>8, <1>10 DEF TypeOK
  <2>2. \A i \in Items : fate[i] # None => fate'[i] # None
    BY <1>8, <1>10
  <2>3. task[p].item # None => t.item = task[p].item /\ t.step \in {"drop", "put"}
    BY <1>1, <1>9
  <2>4. faults' = faults /\ crashes' = crashes /\ torn' \subseteq torn
    BY <1>5
  <2>5. \A i \in Items : Mentioned(i)' => Mentioned(i) \/ i \in queue'
                                 \/ (t.item = i /\ t.step \in {"drop", "put"})
    BY <1>16
  <2>6. task[p].item # None /\ task[p].step \in {"drop", "put"} =>
           \/ t.item = task[p].item /\ t.step \in {"drop", "put"}
           \/ task[p].item \in queue'
    BY <2>3
  <2>7. t \in Task /\ Become(p, t)
    BY <1>5, <1>9
  <2> QED BY <2>1, <2>2, <2>4, <2>5, <2>6, <2>7, StandInsKept
<1> QED BY <1>13, <1>14, <1>17, <1>18, <1>19, <1>20, <1>21, <1>22, <1>23

LEMMA CloseStep ==
    ASSUME IInv, NEW p \in Callers, Close(p)
    PROVE  IInv'
<1> USE DEF IInv
<1>1. PICK t0 \in Task : t0 = task[p]
  BY TaskParts
<1>2. PICK i0 : i0 = t0.answering
  OBVIOUS
<1>3. PICK end : end = IF t0.reply = "reject" /\ Content[i0].kind = "confirm" THEN Rejected ELSE Accepted
  OBVIOUS
<1>4. /\ t0.step = "close"
      /\ queue' = queue \ {i0} /\ torn' = torn \ {i0}
      /\ fate' = IF i0 \in queue THEN [fate EXCEPT ![i0] = end] ELSE fate
      /\ Become(p, Idle)
      /\ UNCHANGED <<due, used, made, calls, faults, crashes, serial>>
  BY <1>1, <1>2, <1>3 DEF Close, bounds, At
<1>5. TaskFits(t0) /\ t0.item = None /\ i0 \in Items
  BY <1>1, <1>2, <1>4, TaskParts DEF TasksFit, TaskFits
<1>6. \A i \in Items : fate'[i] = IF i = i0 /\ i0 \in queue THEN end ELSE fate[i]
  BY <1>4, <1>5 DEF TypeOK
<1>7. end \in Ends /\ end # None /\ end \notin Items
  BY <1>3, Outcomes
<1>8. /\ Idle \in Task /\ TaskFits(Idle) /\ FreshOf(Idle) = {} /\ UntouchedOf(Idle) = {}
      /\ Idle.todo = <<>> /\ DOMAIN Idle.todo = {} /\ Idle.step = "idle"
      /\ Idle.answering = None /\ Idle.item = None /\ Idle.item \notin Idle.ups
  BY IdleFits DEF FreshOf, UntouchedOf, Idle
<1>9. TypeOK'
  <2>1. fate' \in [Items -> Items \cup Ends]
    BY <1>4, <1>5, <1>7 DEF TypeOK
  <2> QED BY <1>4, <1>8, <2>1, OneTask DEF TypeOK
<1>10. TasksFit'
  BY <1>4, <1>8, TasksKept
<1>11. \A i \in Items : Mentioned(i)' => Mentioned(i)
  <2>1. \A k \in Items : fate'[k] \in Items => Mentioned(fate'[k]) \/ fate'[k] \in {}
    BY <1>6, <1>7 DEF Mentioned
  <2>2. \A i \in queue' : Mentioned(i) \/ i \in {}
    BY <1>4 DEF Mentioned
  <2>3. \A i \in Items : Mentioned(i)' => Mentioned(i) \/ i \in {}
    BY <1>4, <1>8, <2>1, <2>2, MentionedNext
  <2> QED BY <2>3
<1>12. FreshFit'
  <2>1. used \subseteq used' /\ queue' \subseteq used' /\ queue' \subseteq queue \cup Fresh(p)
    BY <1>4 DEF FreshFit
  <2>2. \A i \in Items : fate'[i] = fate[i] \/ i \in queue
    BY <1>6
  <2> QED BY <1>4, <1>8, <1>11, <2>1, <2>2, FreshKept
<1>13. StoredFirst'
  BY <1>4, <1>8, StoredKept
<1>14. AnswersAreKept'
  <2>1. end = Accepted => made[i0] > 0
    BY <1>1, <1>2, <1>3, <1>4, <1>5, Outcomes DEF StoredFirst, At, Refused
  <2> QED BY <1>4, <1>6, <2>1 DEF AnswersAreKept
<1>15. OneCall' /\ Distinct' /\ Cleared'
  BY <1>4, <1>8, OneCallKept, DistinctKept, ClearedKept
<1>16. GivesWay'
  <2>1. \A i \in Items : fate'[i] = fate[i] \/ fate'[i] \notin Items
    BY <1>6, <1>7
  <2> QED BY <1>4, <1>8, <1>11, <2>1, GivesWayKept
<1>17. StandIns'
  <2>1. \A i \in queue : i \in queue' \/ fate'[i] # None
    BY <1>4, <1>6, <1>7 DEF TypeOK
  <2>2. \A i \in Items : fate[i] # None => fate'[i] # None
    BY <1>6, <1>7
  <2>3. ~(task[p].item # None)
    BY <1>1, <1>5
  <2>4. faults' = faults /\ crashes' = crashes /\ torn' \subseteq torn
    BY <1>4
  <2>5. \A i \in Items : Mentioned(i)' => Mentioned(i) \/ i \in queue'
                                 \/ (Idle.item = i /\ Idle.step \in {"drop", "put"})
    BY <1>11
  <2> QED BY <1>4, <1>8, <2>1, <2>2, <2>3, <2>4, <2>5, StandInsKept
<1> QED BY <1>9, <1>10, <1>12, <1>13, <1>14, <1>15, <1>16, <1>17

\* Without a new task, what concerns the calls is as before.
LEMMA LapseStep ==
    ASSUME IInv, Lapse
    PROVE  IInv'
<1> USE DEF IInv
<1>1. /\ queue \ due' \subseteq queue \ due /\ due' \subseteq Items
      /\ UNCHANGED <<queue, torn, used, made, fate, task, calls, faults, crashes, serial>>
  BY DEF Lapse, disk, seen, bounds, TypeOK
<1>2. TypeOK' /\ TasksFit' /\ StoredFirst' /\ AnswersAreKept' /\ OneCall'
  BY <1>1 DEF TypeOK, TasksFit, StoredFirst, AnswersAreKept, OneCall, At, Refused
<1>3. \A i : Mentioned(i)' <=> Mentioned(i)
  BY <1>1 DEF Mentioned
<1>4. \A p : Fresh(p)' = Fresh(p) /\ Untouched(p)' = Untouched(p)
  BY <1>1 DEF Fresh, Untouched, At
<1>5. FreshFit'
  BY <1>1, <1>3, <1>4 DEF FreshFit
<1>6. Distinct' /\ Cleared'
  BY <1>1 DEF Distinct, Cleared, NearDuplicate
<1>7. GivesWay'
  BY <1>1, <1>3 DEF GivesWay
<1>8. \A i : Stands(i)' <=> Stands(i)
  BY <1>1 DEF Stands, InFlight
<1>9. StandIns'
  BY <1>1, <1>3, <1>8 DEF StandIns
<1> QED BY <1>2, <1>5, <1>6, <1>7, <1>9

LEMMA CrashStep ==
    ASSUME IInv, Crash
    PROVE  IInv'
<1> USE DEF IInv
<1>1. /\ crashes' = crashes + 1
      /\ queue' = queue /\ (torn' = torn \/ \E p \in Callers : At(p, "put") /\ torn' = torn \cup {task[p].item})
      /\ task' = [p \in Callers |-> Idle]
      /\ UNCHANGED <<due, used, made, fate, calls, faults, serial>>
  BY DEF Crash, TearItem, disk, seen
<1>2. torn' \subseteq Items
  BY <1>1, TaskParts DEF TasksFit, TaskFits, TypeOK, At
<1>3. \A p \in Callers : task'[p] = Idle
  BY <1>1
<1>4. TypeOK'
  BY <1>1, <1>2, IdleFits DEF TypeOK
<1>5. TasksFit'
  BY <1>3, IdleFits DEF TasksFit
<1>6. \A i \in Items : Mentioned(i)' => Mentioned(i)
  BY <1>1, <1>3 DEF Mentioned, Idle
<1>7. \A p \in Callers : Fresh(p)' = {} /\ Untouched(p)' = {}
  BY <1>3 DEF Fresh, Untouched, Idle, At
<1>8. FreshFit'
  BY <1>1, <1>3, <1>6, <1>7 DEF FreshFit, Idle
<1>9. StoredFirst' /\ AnswersAreKept' /\ OneCall' /\ Distinct' /\ Cleared'
  BY <1>1, <1>3 DEF StoredFirst, AnswersAreKept, OneCall, Distinct, Cleared, At, Idle, NearDuplicate
<1>10. GivesWay'
  BY <1>1, <1>3, <1>6 DEF GivesWay, Idle
<1>11. StandIns'
  BY <1>1 DEF StandIns, TypeOK
<1> QED BY <1>4, <1>5, <1>8, <1>9, <1>10, <1>11

-----------------------------------------------------------------------------
(* The theorems.                                                           *)

\* The strengthening of the invariants below holds in every state.
THEOREM InductiveInvariant == Spec => []IInv
<1>1. Init => IInv
  BY InitFits
<1>2. IInv /\ [Next]_vars => IInv'
  <2> SUFFICES ASSUME IInv, [Next]_vars PROVE IInv'
    OBVIOUS
  <2>1. CASE UNCHANGED vars
    <3>1. UNCHANGED <<queue, torn, due, used, made, fate, task, calls, faults, crashes, serial>>
      BY <2>1 DEF vars, disk, seen, bounds
    <3> QED BY <3>1 DEF IInv, TypeOK, TasksFit, FreshFit, StoredFirst, AnswersAreKept, OneCall, Distinct,
               Cleared, GivesWay, StandIns, Stands, InFlight, Mentioned, Fresh, Untouched, At
  <2>2. ASSUME NEW p \in Callers, BeginEnqueue(p) \/ BeginAnswer(p) \/ BeginExpire(p)
        PROVE  IInv'
    BY <2>2, BeginEnqueueStep, BeginAnswerStep, BeginExpireStep
  <2>3. ASSUME NEW p \in Callers, Work(p) PROVE IInv'
    BY <2>3, SuppressStep, WinStep, PutStep, SweepStep, DropStep, LookStep, UpsertStep,
       CloseStep, ReadFailsStep DEF Work
  <2>4. ASSUME NEW p \in Callers, StoreFails(p) PROVE IInv'
    BY <2>4, StoreFailsStep
  <2>5. CASE Lapse
    BY <2>5, LapseStep
  <2>6. CASE Crash
    BY <2>6, CrashStep
  <2> QED BY <2>1, <2>2, <2>3, <2>4, <2>5, <2>6 DEF Next
<1> QED BY <1>1, <1>2, PTL DEF Spec

\* Every variable keeps its type.
THEOREM TypeCorrect == Spec => []TypeOK
<1>1. IInv => TypeOK
  BY DEF IInv
<1> QED BY <1>1, InductiveInvariant, PTL

\* IR-4: with one call at a time, no two live questions ask the same thing, but for
\* questions older than the rule.
THEOREM NoTwoAlike == Spec => []Deduplicated
<1>1. IInv => Deduplicated
  BY DEF IInv, Distinct, Deduplicated
<1> QED BY <1>1, InductiveInvariant, PTL

\* What the owner said is stored before the question is closed.
THEOREM AnswersStay == Spec => []AnswersAreKept
<1>1. IInv => AnswersAreKept
  BY DEF IInv
<1> QED BY <1>1, InductiveInvariant, PTL

\* Following what a question gave way to ends at one that is asked, about to be
\* stored, or was answered or expired.
THEOREM NoneVanishes == Spec => []NothingVanishes
<1>1. IInv => NothingVanishes
  BY StandInsSuffice
<1> QED BY <1>1, InductiveInvariant, PTL
=============================================================================
