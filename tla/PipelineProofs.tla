--------------------------- MODULE PipelineProofs ---------------------------
(***************************************************************************)
(* Theorems about how a document becomes a fact, for every value of the    *)
(* constants.                                                              *)
(*                                                                         *)
(* Connectors: what a cursor has passed was collected, and a pass that     *)
(* leaves it where it was left nothing behind: both for any number of      *)
(* documents, changes, failures and passes, and any cap, page size and     *)
(* window.                                                                 *)
(*                                                                         *)
(* Processing: whatever the texts, the answers of the model, the           *)
(* interleaving of the calls and the number of failures, only masked text  *)
(* leaves, what is filed names only whom its item names, what the model    *)
(* said of an item is filed, and what is sent was recorded.                *)
(***************************************************************************)
EXTENDS Connectors, Processing, FiniteSetTheorems, WellFoundedInduction,
        SequenceTheorems, TLAPS

-----------------------------------------------------------------------------
(***************************************************************************)
(* Part one: Connectors.                                                   *)
(***************************************************************************)

(* The inductive invariant.                                                *)

\* Numbers that make up dedup keys stay within bounds.
NumbersFit ==
    /\ edits <= MaxEdits
    /\ \A d \in Docs : docs[d].ver <= edits + MaxTime /\ docs[d].res <= MaxTime
    /\ \A i \in DOMAIN pass.hits :
        pass.hits[i].ver <= edits + MaxTime /\ pass.hits[i].res <= MaxTime

\* now is the time of the latest change; without a tie no two documents share a time.
ClockFits ==
    /\ \A d \in Docs : docs[d].at <= now
    /\ now # 0 => \E d \in Docs : docs[d].at = now
    /\ kind = "file" => now <= 1
    /\ kind # "file" /\ "tie" \notin causes =>
          \A d, e \in Docs : d # e /\ docs[d].at = docs[e].at => docs[d].at = 0

\* A mark of which only sessions use the backward half.
MarkFits(m) ==
    /\ m.newest <= now
    /\ kind = "session" => m.oldest <= m.newest /\ (m.oldest = 0 <=> m.newest = 0)
    /\ kind # "session" => m.oldest = 0
    /\ kind = "file" => m.newest = 0

\* Which steps a connector goes through, and what a pass holds in each.
PassFits ==
    /\ kind # "session" => scope = Docs
    /\ MarkFits(cursor) /\ MarkFits(pass.mark)
    /\ Step("idle") => pass = NoPass
    /\ ~Step("idle") => pass.since = cursor
    /\ pass.step \in {"search", "hit"} => kind \in Remote
    /\ Step("read") => kind = "session"
    /\ pass.step \in {"hit", "read"} => pass.hits # <<>>
    /\ Step("search") \/ (Step("deliver") /\ kind \notin Remote) => pass.hits = <<>>
    /\ \A i \in DOMAIN pass.hits : 0 < pass.hits[i].at /\ pass.hits[i].at <= now

\* What is behind the cursor is done.
CursorFits == causes = {} => BetweenIsDone

\* What the file connector was given is accounted for.
UploadsFit == "forgotten" \notin causes => UploadsAreKept

\* How far a pass through a search has come: the hits of the first Passed positions
\* were looked at, the hits at hand are those that follow.
All == OldestFirst(InWindow(pass.since))
Passed == pass.start - Len(pass.hits)
Advanced == pass.since.newest < pass.mark.newest

Kept(h) == h.doc \in Blank \/ ExternalId(kind, h.doc, h) \in seen \cup refused \cup pass.items

SearchFits ==
    kind \in Remote /\ ~Step("idle") /\ "moved" \notin causes =>
        /\ Len(pass.hits) <= pass.start /\ pass.start <= Len(All)
        /\ \A i \in DOMAIN pass.hits : pass.hits[i] = All[Passed + i]
        /\ \A i \in 1..Passed :
              Behind(All[i]) \/ (Advanced /\ All[i].at <= pass.mark.newest /\ Kept(All[i]))
        /\ Advanced \/ pass.mark.newest = pass.since.newest
        /\ pass.mark.newest = pass.since.newest \/ \E i \in 1..Passed : All[i].at = pass.mark.newest
        /\ pass.items # {} => Advanced
        /\ Step("hit") /\ ~pass.more => pass.start = Len(All)
        /\ Step("deliver") => Advanced \/ Passed = Len(All)

\* A session file that a pass does not account for is newer or older than all it
\* will have covered.
Above(d) ==
    /\ pass.mark.newest < docs[d].at
    /\ \A i \in DOMAIN pass.hits : pass.hits[i].at < docs[d].at
Below(d) ==
    /\ pass.mark.newest # 0 => docs[d].at < pass.mark.oldest
    /\ \A i \in DOMAIN pass.hits : docs[d].at < pass.hits[i].at
Held(d) == <<d, 0>> \in pass.items \/ \E i \in DOMAIN pass.hits : pass.hits[i].doc = d

SessionFits ==
    kind = "session" /\ ~Step("idle") /\ causes = {} =>
        \A d \in Exists \cap scope : Given(d) \/ Held(d) \/ Above(d) \/ Below(d)

\* Every file that is read moves a watermark.
WatermarksMove ==
    kind = "session" /\ ~Step("idle") =>
        /\ \A i \in DOMAIN pass.hits : Outside(pass.since, pass.hits[i].at)
        /\ pass.since.newest <= pass.mark.newest
        /\ pass.since.newest # 0 => pass.mark.oldest <= pass.since.oldest
        /\ pass.mark = pass.since => pass.hits # <<>> \/ Remaining(pass.since) \subseteq pass.touched

ConnectorsIInv ==
    /\ ConnectorsTypeOK /\ NumbersFit /\ ClockFits /\ PassFits
    /\ CursorFits /\ UploadsFit /\ SearchFits /\ SessionFits /\ WatermarksMove
-----------------------------------------------------------------------------
(* How documents are listed.                                               *)

\* The bounds and the listing order.
LEMMA BoundsFit ==
    /\ MaxTime \in Nat /\ 1 \in Times /\ 0 \in Times /\ Times \subseteq Nat
    /\ MaxEdits \in Nat /\ MaxFailures \in Nat /\ Cap \in Nat /\ Cap > 0 /\ Limit \in Nat /\ Limit > 0
    /\ Day \in Nat /\ IsFiniteSet(Docs) /\ Docs # {} /\ Blank \subseteq Docs
BY ConnectorsAssumption DEF ConnectorsAssumption, Times

LEMMA RankFits ==
    ASSUME NEW d \in Docs
    PROVE  Rank(d) \in Nat /\ Order[Rank(d)] = d
<1>1. \E n \in DOMAIN Order : Order[n] = d
  BY ConnectorsAssumption DEF ConnectorsAssumption, ToSet
<1>2. DOMAIN Order \subseteq Nat
  BY ConnectorsAssumption, LenProperties DEF ConnectorsAssumption
<1> QED BY <1>1, <1>2 DEF Rank

DocsFit == docs \in [Docs -> [at : Times, ver : Nat, res : Nat]]

\* How many elements of S come before each in the order R.
Ahead(S, R) == [d \in S |-> Cardinality({e \in S : <<e, d>> \in R})]

StrictOrder(S, R) ==
    /\ \A a \in S : <<a, a>> \notin R
    /\ \A a, b \in S : a # b => <<a, b>> \in R \/ <<b, a>> \in R
    /\ \A a, b, c \in S : <<a, b>> \in R /\ <<b, c>> \in R => <<a, c>> \in R

\* A finite strict order numbers its elements by how many come before.
LEMMA Numbering ==
    ASSUME NEW S, IsFiniteSet(S), NEW R, StrictOrder(S, R)
    PROVE  /\ Cardinality(S) \in Nat
           /\ Ahead(S, R) \in [S -> 0..(Cardinality(S) - 1)]
           /\ \A a, b \in S : <<a, b>> \in R => Ahead(S, R)[a] < Ahead(S, R)[b]
           /\ \A n \in 1..Cardinality(S) : \E d \in S : Ahead(S, R)[d] = n - 1
<1> USE DEF StrictOrder
<1> DEFINE ahead == Ahead(S, R)
           B(d) == {e \in S : <<e, d>> \in R}
<1>1. Cardinality(S) \in Nat
  BY FS_CardinalityType
<1>2. ASSUME NEW d \in S
      PROVE  /\ IsFiniteSet(B(d)) /\ Cardinality(B(d)) \in Nat
             /\ Cardinality(B(d)) <= Cardinality(S) - 1
  <2>1. B(d) \in SUBSET S /\ d \notin B(d)
    OBVIOUS
  <2> HIDE DEF B
  <2>2. IsFiniteSet(B(d)) /\ Cardinality(B(d)) \in Nat
    BY <2>1, FS_Subset, FS_CardinalityType
  <2>3. Cardinality(B(d)) <= Cardinality(S) /\ Cardinality(B(d)) # Cardinality(S)
    BY <2>1, FS_Subset
  <2> QED BY <1>1, <2>2, <2>3
<1>3. ASSUME NEW a \in S, NEW b \in S, <<a, b>> \in R
      PROVE  Cardinality(B(a)) < Cardinality(B(b))
  <2>1. B(a) \in SUBSET B(b) /\ a \in B(b) /\ a \notin B(a)
    BY <1>3
  <2>2. /\ IsFiniteSet(B(b)) /\ Cardinality(B(b)) \in Nat
        /\ Cardinality(B(a)) \in Nat
    BY <1>2
  <2> HIDE DEF B
  <2>3. Cardinality(B(a)) <= Cardinality(B(b)) /\ Cardinality(B(a)) # Cardinality(B(b))
    BY <2>1, <2>2, FS_Subset
  <2> QED BY <2>2, <2>3
<1>4. \A d \in S : ahead[d] = Cardinality(B(d))
  BY DEF Ahead
<1>5. DOMAIN ahead = S /\ ahead = [d \in S |-> ahead[d]]
  BY DEF Ahead
<1> HIDE DEF B
<1>6. \A d \in S : ahead[d] \in 0..(Cardinality(S) - 1)
  BY <1>1, <1>2, <1>4
<1>7. ahead \in [S -> 0..(Cardinality(S) - 1)]
  BY <1>5, <1>6
<1>8. \A a, b \in S : <<a, b>> \in R => ahead[a] < ahead[b]
  BY <1>3, <1>4
<1>9. ahead \in Injection(S, 0..(Cardinality(S) - 1))
  <2>1. ASSUME NEW a \in S, NEW b \in S, ahead[a] = ahead[b], a # b PROVE FALSE
    <3>1. ahead[a] < ahead[b] \/ ahead[b] < ahead[a]
      BY <1>8, <2>1
    <3> QED BY <1>1, <1>6, <2>1, <3>1
  <2>2. DOMAIN ahead = S
    BY <1>5
  <2>3. IsInjective(ahead)
    BY <2>1, <2>2 DEF IsInjective
  <2> QED BY <1>7, <2>3 DEF Injection
<1>10. IsFiniteSet(0..(Cardinality(S) - 1)) /\ Cardinality(0..(Cardinality(S) - 1)) = Cardinality(S)
  <2>1. Cardinality(S) - 1 \in Int
    BY <1>1
  <2> QED BY <1>1, <2>1, FS_Interval
<1>11. ahead \in Surjection(S, 0..(Cardinality(S) - 1))
  BY <1>9, <1>10, FS_Injection
<1>12. ASSUME NEW n \in 1..Cardinality(S) PROVE \E d \in S : ahead[d] = n - 1
  BY <1>1, <1>11 DEF Surjection
<1> QED BY <1>1, <1>7, <1>8, <1>12

\* The hits of the documents S in the order R, each once.
LEMMA HitFits ==
    ASSUME DocsFit, NEW d \in Docs
    PROVE  /\ HitOf(d) \in Hit /\ HitOf(d).doc = d /\ HitOf(d).at = docs[d].at
           /\ HitOf(d).ver = docs[d].ver /\ HitOf(d).res = docs[d].res
BY DEF DocsFit, HitOf, Hit

LEMMA ListedFits ==
    ASSUME DocsFit, NEW S \in SUBSET Docs, NEW R, StrictOrder(S, R),
           NEW q, q = Listed(S, Ahead(S, R))
    PROVE  /\ q \in Seq(Hit) /\ Len(q) = Cardinality(S)
           /\ \A i \in 1..Cardinality(S) : \E d \in S : q[i] = HitOf(d)
           /\ \A d \in S : \E i \in 1..Cardinality(S) : q[i] = HitOf(d)
           /\ \A i, j \in 1..Cardinality(S) : i < j => <<q[i].doc, q[j].doc>> \in R
<1> DEFINE n == Cardinality(S)
           ahead == Ahead(S, R)
           pick(i) == CHOOSE d \in S : ahead[d] = i - 1
<1>1. IsFiniteSet(S)
  BY FS_Subset, BoundsFit
<1>2. /\ n \in Nat
      /\ ahead \in [S -> 0..(n - 1)]
      /\ \A a, b \in S : <<a, b>> \in R => ahead[a] < ahead[b]
      /\ \A i \in 1..n : \E d \in S : ahead[d] = i - 1
  BY <1>1, Numbering
<1> HIDE DEF ahead
<1>3. \A i \in 1..n : pick(i) \in S /\ ahead[pick(i)] = i - 1
  BY <1>2
<1>4. q = [i \in 1..n |-> HitOf(pick(i))]
  BY DEF Listed, ahead
<1> HIDE DEF n, pick
<1>5. \A i \in 1..n : q[i] = HitOf(pick(i)) /\ q[i] \in Hit /\ q[i].doc = pick(i)
  BY <1>3, <1>4, HitFits
<1>6. q \in Seq(Hit) /\ Len(q) = n
  BY <1>2, <1>4, <1>5
<1>7. ASSUME NEW d \in S PROVE \E i \in 1..n : q[i] = HitOf(d)
  <2>1. ahead[d] + 1 \in 1..n /\ (ahead[d] + 1) - 1 = ahead[d]
    BY <1>2
  <2>2. PICK i \in 1..n : i - 1 = ahead[d]
    BY <2>1
  <2>3. ahead[pick(i)] = ahead[d] /\ pick(i) \in S
    BY <1>3, <2>2
  <2>4. pick(i) = d
    <3>1. ahead[pick(i)] \in Nat
      BY <1>2, <2>3
    <3>2. ~(ahead[pick(i)] < ahead[d]) /\ ~(ahead[d] < ahead[pick(i)])
      BY <2>3, <3>1
    <3> QED BY <1>2, <2>3, <3>2 DEF StrictOrder
  <2> QED BY <1>5, <2>4
<1>8. ASSUME NEW i \in 1..n, NEW j \in 1..n, i < j
      PROVE  <<q[i].doc, q[j].doc>> \in R
  <2>1. /\ pick(i) \in S /\ pick(j) \in S
        /\ ahead[pick(i)] = i - 1 /\ ahead[pick(j)] = j - 1
    BY <1>3
  <2>2. pick(i) # pick(j) /\ ~(ahead[pick(j)] < ahead[pick(i)])
    BY <1>8, <2>1
  <2>3. <<pick(i), pick(j)>> \in R
    BY <1>2, <2>1, <2>2 DEF StrictOrder
  <2> QED BY <1>5, <2>3
<1>9. \A i \in 1..n : \E d \in S : q[i] = HitOf(d)
  BY <1>3, <1>5
<1> QED BY <1>6, <1>7, <1>8, <1>9 DEF n

\* A search returns every document once, the earliest change first.
LEMMA OldestFirstFits ==
    ASSUME DocsFit, NEW S \in SUBSET Docs
    PROVE  /\ OldestFirst(S) \in Seq(Hit) /\ Len(OldestFirst(S)) = Cardinality(S)
           /\ \A i \in 1..Cardinality(S) : \E d \in S : OldestFirst(S)[i] = HitOf(d)
           /\ \A d \in S : \E i \in 1..Cardinality(S) : OldestFirst(S)[i] = HitOf(d)
           /\ \A i, j \in 1..Cardinality(S) :
                 i < j => OldestFirst(S)[i].at <= OldestFirst(S)[j].at
<1> DEFINE R == {p \in Docs \X Docs : Earlier(p[1], p[2])}
           q == OldestFirst(S)
<1>1. \A d \in Docs : docs[d].at \in Nat /\ Rank(d) \in Nat /\ Order[Rank(d)] = d
  BY RankFits, BoundsFit DEF DocsFit
<1>2. \A a, b \in Docs : <<a, b>> \in R <=> Earlier(a, b)
  OBVIOUS
<1>3. \A a \in S : <<a, a>> \notin R
  BY <1>1, <1>2 DEF Earlier
<1>4. ASSUME NEW a \in S, NEW b \in S, a # b
      PROVE  <<a, b>> \in R \/ <<b, a>> \in R
  <2>1. Rank(a) # Rank(b)
    BY <1>1, <1>4
  <2> QED BY <1>1, <1>2, <2>1 DEF Earlier
<1>5. \A a, b, c \in S : <<a, b>> \in R /\ <<b, c>> \in R => <<a, c>> \in R
  BY <1>1, <1>2 DEF Earlier
<1>6. q = Listed(S, Ahead(S, R))
  <2>1. \A d \in S : {e \in S : Earlier(e, d)} = {e \in S : <<e, d>> \in R}
    BY <1>2
  <2>2. [d \in S |-> Cardinality({e \in S : Earlier(e, d)})] = Ahead(S, R)
    BY <2>1 DEF Ahead
  <2> QED BY <2>2 DEF OldestFirst
<1>8. StrictOrder(S, R)
  BY <1>3, <1>4, <1>5 DEF StrictOrder
<1> HIDE DEF R, q
<1>7. /\ q \in Seq(Hit) /\ Len(q) = Cardinality(S)
      /\ \A i \in 1..Cardinality(S) : \E d \in S : q[i] = HitOf(d)
      /\ \A d \in S : \E i \in 1..Cardinality(S) : q[i] = HitOf(d)
      /\ \A i, j \in 1..Cardinality(S) : i < j => <<q[i].doc, q[j].doc>> \in R
  BY <1>6, <1>8, ListedFits
<1>9. ASSUME NEW i \in 1..Cardinality(S), NEW j \in 1..Cardinality(S), i < j
      PROVE  q[i].at <= q[j].at
  <2>1. PICK a \in S : q[i] = HitOf(a)
    BY <1>7
  <2>2. PICK b \in S : q[j] = HitOf(b)
    BY <1>7
  <2>3. Earlier(a, b)
    <3>1. q[i].doc = a /\ q[j].doc = b
      BY <2>1, <2>2, HitFits
    <3>2. <<q[i].doc, q[j].doc>> \in R
      BY <1>7, <1>9
    <3> QED BY <1>2, <3>1, <3>2
  <2> QED BY <1>1, <2>1, <2>2, <2>3, HitFits DEF Earlier
<1> QED BY <1>7, <1>9 DEF q

\* The session connector lists the latest change first.
LEMMA NewestFirstFits ==
    ASSUME DocsFit, NEW S \in SUBSET Docs
    PROVE  /\ NewestFirst(S) \in Seq(Hit) /\ Len(NewestFirst(S)) = Cardinality(S)
           /\ \A i \in 1..Cardinality(S) : \E d \in S : NewestFirst(S)[i] = HitOf(d)
           /\ \A d \in S : \E i \in 1..Cardinality(S) : NewestFirst(S)[i] = HitOf(d)
           /\ \A i, j \in 1..Cardinality(S) :
                 i < j => NewestFirst(S)[j].at <= NewestFirst(S)[i].at
<1> DEFINE R == {p \in Docs \X Docs : Later(p[1], p[2])}
           q == NewestFirst(S)
<1>1. \A d \in Docs : docs[d].at \in Nat /\ Rank(d) \in Nat /\ Order[Rank(d)] = d
  BY RankFits, BoundsFit DEF DocsFit
<1>2. \A a, b \in Docs : <<a, b>> \in R <=> Later(a, b)
  OBVIOUS
<1>3. \A a \in S : <<a, a>> \notin R
  BY <1>1, <1>2 DEF Later
<1>4. ASSUME NEW a \in S, NEW b \in S, a # b
      PROVE  <<a, b>> \in R \/ <<b, a>> \in R
  <2>1. Rank(a) # Rank(b)
    BY <1>1, <1>4
  <2> QED BY <1>1, <1>2, <2>1 DEF Later
<1>5. \A a, b, c \in S : <<a, b>> \in R /\ <<b, c>> \in R => <<a, c>> \in R
  BY <1>1, <1>2 DEF Later
<1>6. q = Listed(S, Ahead(S, R))
  <2>1. \A d \in S : {e \in S : Later(e, d)} = {e \in S : <<e, d>> \in R}
    BY <1>2
  <2>2. [d \in S |-> Cardinality({e \in S : Later(e, d)})] = Ahead(S, R)
    BY <2>1 DEF Ahead
  <2> QED BY <2>2 DEF NewestFirst
<1>8. StrictOrder(S, R)
  BY <1>3, <1>4, <1>5 DEF StrictOrder
<1> HIDE DEF R, q
<1>7. /\ q \in Seq(Hit) /\ Len(q) = Cardinality(S)
      /\ \A i \in 1..Cardinality(S) : \E d \in S : q[i] = HitOf(d)
      /\ \A d \in S : \E i \in 1..Cardinality(S) : q[i] = HitOf(d)
      /\ \A i, j \in 1..Cardinality(S) : i < j => <<q[i].doc, q[j].doc>> \in R
  BY <1>6, <1>8, ListedFits
<1>9. ASSUME NEW i \in 1..Cardinality(S), NEW j \in 1..Cardinality(S), i < j
      PROVE  q[j].at <= q[i].at
  <2>1. PICK a \in S : q[i] = HitOf(a)
    BY <1>7
  <2>2. PICK b \in S : q[j] = HitOf(b)
    BY <1>7
  <2>3. Later(a, b)
    <3>1. q[i].doc = a /\ q[j].doc = b
      BY <2>1, <2>2, HitFits
    <3>2. <<q[i].doc, q[j].doc>> \in R
      BY <1>7, <1>9
    <3> QED BY <1>2, <3>1, <3>2
  <2> QED BY <1>1, <2>1, <2>2, <2>3, HitFits DEF Later
<1> QED BY <1>7, <1>9 DEF q

\* At most n elements of a list of hits, after the first skip of them.
LEMMA SliceFits ==
    ASSUME NEW s \in Seq(Hit), NEW skip \in Nat, NEW n \in Nat, skip <= Len(s)
    PROVE  /\ Slice(s, skip, n) \in Seq(Hit)
           /\ Len(Slice(s, skip, n)) = (IF skip + n < Len(s) THEN n ELSE Len(s) - skip)
           /\ \A i \in 1..Len(Slice(s, skip, n)) : Slice(s, skip, n)[i] = s[skip + i]
<1> DEFINE to == IF skip + n < Len(s) THEN skip + n ELSE Len(s)
<1>1. to \in Nat /\ skip <= to /\ to <= Len(s)
  OBVIOUS
<1>2. Slice(s, skip, n) = SubSeq(s, skip + 1, to)
  BY DEF Slice
<1> HIDE DEF to
<1>3. \A i \in (skip + 1)..to : s[i] \in Hit
  BY <1>1
<1>4. /\ SubSeq(s, skip + 1, to) \in Seq(Hit)
      /\ Len(SubSeq(s, skip + 1, to)) = (IF skip + 1 <= to THEN to - (skip + 1) + 1 ELSE 0)
      /\ \A i \in 1..(to - (skip + 1) + 1) : SubSeq(s, skip + 1, to)[i] = s[(skip + 1) + i - 1]
  BY <1>1, <1>3, SubSeqProperties
<1>5. Len(SubSeq(s, skip + 1, to)) = to - skip
  BY <1>1, <1>4
<1>6. \A i \in 1..(to - skip) : SubSeq(s, skip + 1, to)[i] = s[skip + i]
  BY <1>1, <1>4
<1> QED BY <1>1, <1>2, <1>4, <1>5, <1>6 DEF to

\* Past the end there is nothing to take.
LEMMA SliceIsSeq ==
    ASSUME NEW s \in Seq(Hit), NEW skip \in Nat, NEW n \in Nat
    PROVE  /\ Slice(s, skip, n) \in Seq(Hit)
           /\ \A i \in DOMAIN Slice(s, skip, n) : \E j \in 1..Len(s) : Slice(s, skip, n)[i] = s[j]
<1>1. CASE skip <= Len(s)
  <2>1. /\ Slice(s, skip, n) \in Seq(Hit)
        /\ Len(Slice(s, skip, n)) = (IF skip + n < Len(s) THEN n ELSE Len(s) - skip)
        /\ \A i \in 1..Len(Slice(s, skip, n)) : Slice(s, skip, n)[i] = s[skip + i]
    BY <1>1, SliceFits
  <2>2. ASSUME NEW i \in DOMAIN Slice(s, skip, n)
        PROVE  \E j \in 1..Len(s) : Slice(s, skip, n)[i] = s[j]
    <3>1. i \in 1..Len(Slice(s, skip, n))
      BY <2>1
    <3>2. skip + i \in 1..Len(s)
      BY <1>1, <2>1, <3>1
    <3> QED BY <2>1, <3>1, <3>2
  <2> QED BY <2>1, <2>2
<1>2. CASE skip > Len(s)
  <2>1. Slice(s, skip, n) = SubSeq(s, skip + 1, Len(s))
    BY <1>2 DEF Slice
  <2>2. SubSeq(s, skip + 1, Len(s)) = <<>>
    BY <1>2, SubSeqEmpty
  <2> QED BY <2>1, <2>2
<1> QED BY <1>1, <1>2

-----------------------------------------------------------------------------
(* What the invariant says of single values.                               *)

LEMMA TypeFacts ==
    ASSUME ConnectorsTypeOK
    PROVE  /\ DocsFit
           /\ \A d \in Docs : /\ docs[d].at \in Times /\ docs[d].at \in Nat
                              /\ docs[d].ver \in Nat /\ docs[d].res \in Nat
           /\ now \in Times /\ now \in Nat
           /\ \A m \in {cursor, pass.since, pass.mark} :
                 m \in Mark /\ m.newest \in Nat /\ m.oldest \in Nat
           /\ pass.hits \in Seq(Hit)
           /\ \A i \in DOMAIN pass.hits :
                 /\ pass.hits[i] \in Hit /\ pass.hits[i].doc \in Docs /\ pass.hits[i].at \in Nat
                 /\ pass.hits[i].at \in Times /\ pass.hits[i].ver \in Nat /\ pass.hits[i].res \in Nat
           /\ pass.items \subseteq Ids /\ pass.touched \subseteq Docs
           /\ pass.start \in Nat /\ Len(pass.hits) \in Nat
           /\ pass.step \in {"idle", "search", "hit", "read", "deliver"}
           /\ kind \in AllKinds
<1>1. /\ docs \in [Docs -> [at : Times, ver : Nat, res : Nat]]
      /\ now \in Times /\ cursor \in Mark /\ pass \in Pass /\ kind \in AllKinds
  BY ConnectorsAssumption DEF ConnectorsAssumption, ConnectorsTypeOK
<1>2. pass.since \in Mark /\ pass.mark \in Mark /\ pass.hits \in Seq(Hit)
  BY <1>1 DEF Pass
<1>3. \A i \in DOMAIN pass.hits : pass.hits[i] \in Hit
  BY <1>2
<1>4. \A m \in Mark : m.newest \in Nat /\ m.oldest \in Nat
  BY BoundsFit DEF Mark
<1>5. \A h \in Hit : h.doc \in Docs /\ h.at \in Times /\ h.at \in Nat /\ h.ver \in Nat /\ h.res \in Nat
  BY BoundsFit DEF Hit
<1>6. \A d \in Docs : docs[d].at \in Times /\ docs[d].at \in Nat /\ docs[d].ver \in Nat /\ docs[d].res \in Nat
  BY <1>1, BoundsFit
<1>7. now \in Nat
  BY <1>1, BoundsFit
<1>8. /\ pass.items \subseteq Ids /\ pass.touched \subseteq Docs /\ pass.start \in Nat
      /\ pass.step \in {"idle", "search", "hit", "read", "deliver"}
  BY <1>1 DEF Pass
<1> QED BY <1>1, <1>2, <1>3, <1>4, <1>5, <1>6, <1>7, <1>8 DEF DocsFit

\* A dedup key made from numbers within bounds.
LEMMA IdFits ==
    ASSUME NEW k, NEW d \in Docs, NEW g, g.ver \in Nat, g.res \in Nat,
           g.ver <= MaxEdits + MaxTime, g.res <= MaxTime
    PROVE  ExternalId(k, d, g) \in Ids
<1>1. g.ver \in 0..MaxEdits + MaxTime /\ g.res \in 0..MaxEdits + MaxTime /\ 0 \in 0..MaxEdits + MaxTime
  BY BoundsFit
<1> QED BY <1>1 DEF ExternalId, Ids

\* Covering one more document.
LEMMA CoverFits ==
    ASSUME NEW m \in Mark, MarkFits(m), NEW t \in Times, 0 < t, t <= now, now \in Nat, kind # "file"
    PROVE  /\ Cover(m, t) \in Mark /\ MarkFits(Cover(m, t))
           /\ Cover(m, t).newest = Max2(m.newest, t)
           /\ m.newest <= Cover(m, t).newest /\ t <= Cover(m, t).newest
           /\ Cover(m, t).newest \in {m.newest, t}
           /\ kind = "session" =>
                 Cover(m, t).oldest = (IF m.newest # 0 /\ m.oldest <= t THEN m.oldest ELSE t)
<1>1. m.newest \in Times /\ m.oldest \in Times /\ m.newest \in Nat /\ m.oldest \in Nat /\ t \in Nat
  BY BoundsFit DEF Mark
<1>2. Max2(m.newest, t) \in Times
  BY <1>1 DEF Max2
<1>3. Cover(m, t).newest = Max2(m.newest, t)
  BY DEF Cover
<1>4. Cover(m, t).oldest = (IF kind # "session" THEN 0
                            ELSE IF m.oldest # 0 /\ m.oldest <= t THEN m.oldest ELSE t)
  BY DEF Cover
<1>5. Cover(m, t) \in Mark
  BY <1>1, <1>2, BoundsFit DEF Cover, Mark
<1>6. MarkFits(Cover(m, t))
  BY <1>1, <1>3, <1>4 DEF MarkFits, Max2
<1>7. kind = "session" => Cover(m, t).oldest = (IF m.newest # 0 /\ m.oldest <= t THEN m.oldest ELSE t)
  BY <1>4 DEF MarkFits
<1> QED BY <1>1, <1>3, <1>5, <1>6, <1>7 DEF Max2

-----------------------------------------------------------------------------
(* Steps that leave the documents and the cursor alone.                    *)

\* What the cursor has passed stays done.
LEMMA CursorKept ==
    ASSUME ConnectorsIInv, UNCHANGED <<world, cursor, causes>>, seen \subseteq seen', refused \subseteq refused'
    PROVE  CursorFits'
<1> SUFFICES ASSUME causes = {}, NEW d \in Exists \cap scope,
                    cursor.newest # 0, ~Outside(cursor, docs[d].at)
             PROVE  Given(d)'
  BY DEF CursorFits, BetweenIsDone, Exists, Outside, world
<1>1. Given(d)
  BY DEF ConnectorsIInv, CursorFits, BetweenIsDone
<1> QED BY <1>1 DEF Given, ExternalId, world

\* What was uploaded stays accounted for.
LEMMA UploadsKept ==
    ASSUME ConnectorsIInv, UNCHANGED <<world, queued, causes>>, seen \subseteq seen', refused \subseteq refused',
           kind = "file" => pass.items \subseteq pass'.items \cup seen'
    PROVE  UploadsFit'
<1> SUFFICES ASSUME "forgotten" \notin causes, kind = "file", NEW d \in Exists
             PROVE  (d \in queued \/ Given(d) \/ ExternalId(kind, d, docs[d]) \in pass.items)'
  BY DEF UploadsFit, UploadsAreKept, Exists, world
<1>1. d \in queued \/ Given(d) \/ ExternalId(kind, d, docs[d]) \in pass.items
  BY DEF ConnectorsIInv, UploadsFit, UploadsAreKept
<1>2. ExternalId(kind, d, docs[d])' = ExternalId(kind, d, docs[d])
  BY DEF world
<1> QED BY <1>1, <1>2 DEF Given

\* The search of a pass lists the same as long as no document changes.
LEMMA AllKept ==
    ASSUME UNCHANGED world, pass'.since = pass.since
    PROVE  All' = All
<1>1. InWindow(pass.since)' = InWindow(pass.since)
  BY DEF InWindow, Exists, world
<1> QED BY <1>1 DEF All, OldestFirst, Listed, HitOf, Earlier, world

LEMMA AllFits ==
    ASSUME ConnectorsIInv
    PROVE  /\ All \in Seq(Hit) /\ Len(All) \in Nat
           /\ \A i \in 1..Len(All) : \E d \in InWindow(pass.since) : All[i] = HitOf(d)
           /\ \A d \in InWindow(pass.since) : \E i \in 1..Len(All) : All[i] = HitOf(d)
           /\ \A i, j \in 1..Len(All) : i < j => All[i].at <= All[j].at
           /\ \A i \in 1..Len(All) :
                 /\ 0 < All[i].at /\ All[i].at <= now
                 /\ All[i].ver <= edits + MaxTime /\ All[i].res <= MaxTime
                 /\ All[i].doc \in Docs /\ All[i] = HitOf(All[i].doc) /\ All[i].at \in Nat
<1> DEFINE W == InWindow(pass.since)
<1>1. W \in SUBSET Docs
  BY DEF InWindow, Exists
<1>2. DocsFit /\ \A d \in Docs : docs[d].at \in Nat
  BY TypeFacts DEF ConnectorsIInv
<1>3. /\ All \in Seq(Hit) /\ Len(All) = Cardinality(W)
      /\ \A i \in 1..Cardinality(W) : \E d \in W : All[i] = HitOf(d)
      /\ \A d \in W : \E i \in 1..Cardinality(W) : All[i] = HitOf(d)
      /\ \A i, j \in 1..Cardinality(W) : i < j => All[i].at <= All[j].at
  BY <1>1, <1>2, OldestFirstFits DEF All
<1>4. Len(All) \in Nat
  BY <1>3, LenProperties
<1>5. ASSUME NEW i \in 1..Len(All)
      PROVE  /\ 0 < All[i].at /\ All[i].at <= now
             /\ All[i].ver <= edits + MaxTime /\ All[i].res <= MaxTime
             /\ All[i].doc \in Docs /\ All[i] = HitOf(All[i].doc) /\ All[i].at \in Nat
  <2>1. PICK d \in W : All[i] = HitOf(d)
    BY <1>3
  <2>2. d \in Docs /\ 0 < docs[d].at
    BY <1>2, <2>1 DEF InWindow, Exists
  <2>3. docs[d].at <= now /\ docs[d].ver <= edits + MaxTime /\ docs[d].res <= MaxTime
    BY <2>2 DEF ConnectorsIInv, ClockFits, NumbersFit
  <2> QED BY <1>2, <2>1, <2>2, <2>3, HitFits
<1> QED BY <1>3, <1>4, <1>5

-----------------------------------------------------------------------------
(* A pass through a search.                                                *)

LEMMA BeginStep ==
    ASSUME ConnectorsIInv, Begin
    PROVE  ConnectorsIInv'
<1>1. /\ Step("idle") /\ kind \in Remote
      /\ pass' = [NoPass EXCEPT !.step = "search", !.since = cursor, !.mark = cursor]
      /\ UNCHANGED <<world, queued, saved, refused, causes, failures>>
  BY DEF Begin
<1>2. /\ pass'.step = "search" /\ pass'.since = cursor /\ pass'.mark = cursor
      /\ pass'.hits = <<>> /\ pass'.start = 0 /\ pass'.items = {} /\ pass'.touched = {}
  BY <1>1 DEF NoPass
<1>3. cursor \in Mark /\ now \in Nat
  BY TypeFacts DEF ConnectorsIInv
<1>4. pass' \in Pass
  BY <1>1, <1>3, EmptySeq DEF Pass, NoPass
<1>5. ConnectorsTypeOK'
  BY <1>1, <1>4 DEF ConnectorsIInv, ConnectorsTypeOK, world, saved
<1>6. NumbersFit' /\ ClockFits'
  BY <1>1, <1>2 DEF ConnectorsIInv, NumbersFit, ClockFits, world
<1>7. PassFits'
  BY <1>1, <1>2 DEF ConnectorsIInv, PassFits, MarkFits, Step, Remote, world, saved
<1>8. CursorFits' /\ UploadsFit'
  <2>1. kind # "file" /\ seen' = seen /\ refused' = refused /\ cursor' = cursor
    BY <1>1 DEF Remote, saved
  <2> QED BY <1>1, <2>1, CursorKept, UploadsKept
<1>9. SearchFits'
  <2>1. All' = OldestFirst(InWindow(cursor))
    <3>1. InWindow(pass.since)' = InWindow(cursor)
      BY <1>1, <1>2 DEF InWindow, Exists, world
    <3> QED BY <1>1, <3>1 DEF All, OldestFirst, Listed, HitOf, Earlier, world
  <2>2. InWindow(cursor) \in SUBSET Docs
    BY DEF InWindow, Exists
  <2>3. DocsFit
    BY TypeFacts DEF ConnectorsIInv
  <2>4. OldestFirst(InWindow(cursor)) \in Seq(Hit)
    BY <2>2, <2>3, OldestFirstFits
  <2>5. All' \in Seq(Hit) /\ Len(All') \in Nat /\ 0 <= Len(All')
    BY <2>1, <2>4, LenProperties
  <2>6. Len(pass'.hits) = 0 /\ DOMAIN pass'.hits = {}
    BY <1>2
  <2>7. Passed' = 0
    <3>1. Passed' = pass'.start - Len(pass'.hits)
      BY DEF Passed
    <3>2. pass'.start = 0 /\ Len(pass'.hits) = 0
      BY <1>2
    <3> QED BY <3>1, <3>2
  <2>10. (Advanced \/ pass.mark.newest = pass.since.newest)'
    BY <1>2
  <2>8. /\ (Len(pass.hits) <= pass.start)' /\ (pass.start <= Len(All))'
        /\ (\A i \in DOMAIN pass.hits : pass.hits[i] = All[Passed + i])'
    BY <1>2, <2>5, <2>6
  <2>9. (\A i \in 1..Passed :
              Behind(All[i]) \/ (Advanced /\ All[i].at <= pass.mark.newest /\ Kept(All[i])))'
    BY <2>7
  <2> QED BY <1>2, <2>8, <2>9, <2>10 DEF SearchFits, Step
<1>10. SessionFits' /\ WatermarksMove'
  BY <1>1 DEF SessionFits, WatermarksMove, Remote, world
<1> QED BY <1>5, <1>6, <1>7, <1>8, <1>9, <1>10 DEF ConnectorsIInv

\* In the middle of a search only the pass changes, and what it was refused.
LEMMA RemoteKept ==
    ASSUME ConnectorsIInv, kind \in Remote, ~Step("idle"), UNCHANGED <<world, queued, saved, causes>>,
           refused \subseteq refused', refused' \subseteq Ids, failures' \in Nat,
           pass' \in Pass, pass'.since = pass.since, MarkFits(pass'.mark),
           pass'.step \in {"search", "hit", "deliver"},
           pass'.step = "hit" => pass'.hits # <<>>, pass'.step = "search" => pass'.hits = <<>>,
           \A i \in DOMAIN pass'.hits :
               /\ 0 < pass'.hits[i].at /\ pass'.hits[i].at <= now
               /\ pass'.hits[i].ver <= edits + MaxTime /\ pass'.hits[i].res <= MaxTime,
           SearchFits'
    PROVE  ConnectorsIInv'
<1>1. kind \notin {"session", "file"}
  BY DEF Remote
<1>2. ConnectorsTypeOK'
  BY DEF ConnectorsIInv, ConnectorsTypeOK, world, saved
<1>3. NumbersFit' /\ ClockFits'
  BY DEF ConnectorsIInv, NumbersFit, ClockFits, world
<1>4. PassFits'
  BY <1>1 DEF ConnectorsIInv, PassFits, MarkFits, Step, Remote, world, saved
<1>5. CursorFits' /\ UploadsFit'
  BY <1>1, CursorKept, UploadsKept DEF saved
<1>6. SessionFits' /\ WatermarksMove'
  BY <1>1 DEF SessionFits, WatermarksMove, world
<1> QED BY <1>2, <1>3, <1>4, <1>5, <1>6 DEF ConnectorsIInv

\* One more page of results, or the end of them.
LEMMA SearchStep ==
    ASSUME ConnectorsIInv, Search
    PROVE  ConnectorsIInv'
<1> DEFINE page == Slice(All, pass.start, Limit)
           next == pass.start + Len(page)
<1>1. /\ Step("search") /\ kind \in Remote /\ ~Step("idle")
      /\ pass.hits = <<>> /\ pass \in Pass /\ pass.start \in Nat
  BY TypeFacts DEF ConnectorsIInv, ConnectorsTypeOK, PassFits, Search, Step
<1>2. /\ pass' = IF page = <<>> THEN [pass EXCEPT !.step = "deliver"]
                 ELSE [pass EXCEPT !.step = "hit", !.hits = page, !.start = next,
                                   !.more = HasMore(page, All, next)]
      /\ UNCHANGED <<world, queued, saved, refused, causes, failures>>
  BY DEF Search, All, NextStart
<1>3. /\ All \in Seq(Hit) /\ Len(All) \in Nat
      /\ \A i \in 1..Len(All) :
            /\ 0 < All[i].at /\ All[i].at <= now
            /\ All[i].ver <= edits + MaxTime /\ All[i].res <= MaxTime
  BY AllFits
<1>4. /\ page \in Seq(Hit) /\ Len(page) \in Nat
      /\ \A i \in DOMAIN page : \E j \in 1..Len(All) : page[i] = All[j]
  <2>1. All \in Seq(Hit) /\ pass.start \in Nat /\ Limit \in Nat
    BY <1>1, <1>3, BoundsFit
  <2>2. /\ page \in Seq(Hit)
        /\ \A i \in DOMAIN page : \E j \in 1..Len(All) : page[i] = All[j]
    BY <2>1, SliceIsSeq
  <2> QED BY <2>2, LenProperties
<1>5. pass.start <= Len(All) =>
         /\ Len(page) = (IF pass.start + Limit < Len(All) THEN Limit ELSE Len(All) - pass.start)
         /\ \A i \in 1..Len(page) : page[i] = All[pass.start + i]
  <2>1. All \in Seq(Hit) /\ pass.start \in Nat /\ Limit \in Nat
    BY <1>1, <1>3, BoundsFit
  <2> QED BY <2>1, SliceFits
<1>6. HasMore(page, All, next) \in BOOLEAN
      /\ (~HasMore(page, All, next) => ~(next < Len(All)))
  <2> HIDE DEF page, next
  <2>1. CASE kind = "jira"
    <3>1. HasMore(page, All, next) \in BOOLEAN
      BY <2>1 DEF HasMore, MoreIssues
    <3>2. HasMore(page, All, next) <=> next < Len(All)
      BY <2>1 DEF HasMore, MoreIssues
    <3> QED BY <3>1, <3>2
  <2>2. CASE kind = "confluence"
    <3>1. HasMore(page, All, next) = (next < Len(All) \/ Len(page) = Limit)
      BY <2>2 DEF HasMore, MorePages
    <3> QED BY <3>1, Zenon
  <2>3. CASE kind = "notion"
    <3>1. HasMore(page, All, next) \in BOOLEAN
      BY <2>3 DEF HasMore, MoreNotion
    <3>2. HasMore(page, All, next) <=> next < Len(All)
      BY <2>3 DEF HasMore, MoreNotion
    <3> QED BY <3>1, <3>2
  <2> QED BY <1>1, <2>1, <2>2, <2>3 DEF Remote
<1>7. All' = All
  BY <1>2, AllKept DEF Pass
<1> HIDE DEF page, next
<1>8. CASE page = <<>>
  <2>1. pass' = [pass EXCEPT !.step = "deliver"]
    BY <1>2, <1>8
  <2>2. /\ pass' \in Pass /\ pass'.step = "deliver" /\ pass'.hits = <<>>
        /\ pass'.since = pass.since /\ pass'.mark = pass.mark
        /\ pass'.start = pass.start /\ pass'.items = pass.items
    BY <1>1, <2>1 DEF Pass
  <2>3. SearchFits'
    <3> SUFFICES ASSUME "moved" \notin causes
                 PROVE  SearchFits'
      BY <1>2 DEF SearchFits
    <3>1. /\ pass.start <= Len(All)
          /\ \A i \in 1..Passed :
                Behind(All[i]) \/ (Advanced /\ All[i].at <= pass.mark.newest /\ Kept(All[i]))
          /\ Advanced \/ pass.mark.newest = pass.since.newest
          /\ pass.mark.newest = pass.since.newest \/ \E i \in 1..Passed : All[i].at = pass.mark.newest
          /\ pass.items # {} => Advanced
      BY <1>1 DEF ConnectorsIInv, SearchFits
    <3>2. pass.start = Len(All)
      <4>1. Len(page) = 0
        BY <1>8
      <4> QED BY <1>1, <1>3, <1>5, <3>1, <4>1, BoundsFit
    <3>3. Passed' = Len(All) /\ Passed = Len(All) /\ Len(pass'.hits) = 0 /\ DOMAIN pass'.hits = {}
      BY <1>1, <1>3, <2>2, <3>2 DEF Passed
    <3>4. (Len(pass.hits) <= pass.start /\ pass.start <= Len(All))'
      BY <1>3, <1>7, <2>2, <3>2, <3>3
    <3>5. (\A i \in DOMAIN pass.hits : pass.hits[i] = All[Passed + i])'
      BY <3>3
    <3>6. (\A i \in 1..Passed :
              Behind(All[i]) \/ (Advanced /\ All[i].at <= pass.mark.newest /\ Kept(All[i])))'
      BY <1>2, <1>7, <2>2, <3>1, <3>3 DEF Behind, Advanced, Kept, world, saved
    <3>7. /\ (pass.mark.newest = pass.since.newest \/ \E i \in 1..Passed : All[i].at = pass.mark.newest)'
          /\ (Advanced \/ pass.mark.newest = pass.since.newest)'
      BY <1>7, <2>2, <3>1, <3>3 DEF Advanced
    <3>8. (pass.items # {} => Advanced)' /\ ~Step("hit")' /\ (Passed = Len(All))'
      BY <1>7, <2>2, <3>1, <3>3 DEF Advanced, Step
    <3> QED BY <3>4, <3>5, <3>6, <3>7, <3>8 DEF SearchFits
  <2>4. MarkFits(pass'.mark) /\ refused' \subseteq Ids /\ failures' \in Nat
    BY <1>2, <2>2 DEF ConnectorsIInv, PassFits, ConnectorsTypeOK
  <2> QED BY <1>1, <1>2, <2>2, <2>3, <2>4, RemoteKept
<1>9. CASE page # <<>>
  <2>1. pass' = [pass EXCEPT !.step = "hit", !.hits = page, !.start = next,
                             !.more = HasMore(page, All, next)]
    BY <1>2, <1>9
  <2>2. /\ pass' \in Pass /\ pass'.step = "hit" /\ pass'.hits = page
        /\ pass'.since = pass.since /\ pass'.mark = pass.mark
        /\ pass'.start = next /\ pass'.items = pass.items
        /\ pass'.more = HasMore(page, All, next)
    <3> DEFINE more == HasMore(page, All, next)
    <3>1. more \in BOOLEAN /\ next \in Nat
      BY <1>1, <1>4, <1>6 DEF next
    <3> HIDE DEF more
    <3>2. pass' = [pass EXCEPT !.step = "hit", !.hits = page, !.start = next, !.more = more]
      BY <2>1 DEF more
    <3>3. /\ pass' \in Pass /\ pass'.step = "hit" /\ pass'.hits = page
          /\ pass'.since = pass.since /\ pass'.mark = pass.mark
          /\ pass'.start = next /\ pass'.items = pass.items /\ pass'.more = more
      BY <1>1, <1>4, <3>1, <3>2 DEF Pass
    <3> QED BY <3>3 DEF more
  <2>3. SearchFits'
    <3> SUFFICES ASSUME "moved" \notin causes
                 PROVE  SearchFits'
      BY <1>2 DEF SearchFits
    <3>1. /\ pass.start <= Len(All)
          /\ \A i \in 1..Passed :
                Behind(All[i]) \/ (Advanced /\ All[i].at <= pass.mark.newest /\ Kept(All[i]))
          /\ Advanced \/ pass.mark.newest = pass.since.newest
          /\ pass.mark.newest = pass.since.newest \/ \E i \in 1..Passed : All[i].at = pass.mark.newest
          /\ pass.items # {} => Advanced
      BY <1>1 DEF ConnectorsIInv, SearchFits
    <3>2. next \in Nat /\ next <= Len(All) /\ Len(page) <= next
      BY <1>1, <1>3, <1>4, <1>5, <3>1, BoundsFit DEF next
    <3>3. Passed' = pass.start /\ Passed = pass.start
      <4>1. Passed = pass.start - Len(pass.hits) /\ Len(pass.hits) = 0
        BY <1>1 DEF Passed
      <4>2. Passed' = pass'.start - Len(pass'.hits)
        BY DEF Passed
      <4> QED BY <1>1, <1>4, <2>2, <4>1, <4>2 DEF next
    <3>4. (Len(pass.hits) <= pass.start /\ pass.start <= Len(All))'
      BY <1>7, <2>2, <3>2
    <3>5. (\A i \in DOMAIN pass.hits : pass.hits[i] = All[Passed + i])'
      <4>1. \A i \in DOMAIN page : page[i] = All[pass.start + i]
        BY <1>4, <1>5, <3>1
      <4> QED BY <1>7, <2>2, <3>3, <4>1
    <3>6. (\A i \in 1..Passed :
              Behind(All[i]) \/ (Advanced /\ All[i].at <= pass.mark.newest /\ Kept(All[i])))'
      BY <1>2, <1>7, <2>2, <3>1, <3>3 DEF Behind, Advanced, Kept, world, saved
    <3>7. /\ (pass.mark.newest = pass.since.newest \/ \E i \in 1..Passed : All[i].at = pass.mark.newest)'
          /\ (Advanced \/ pass.mark.newest = pass.since.newest)'
      BY <1>7, <2>2, <3>1, <3>3 DEF Advanced
    <3>8. (pass.items # {} => Advanced)' /\ ~Step("deliver")'
      BY <2>2, <3>1 DEF Advanced, Step
    <3>9. (~pass.more => pass.start = Len(All))'
      BY <1>3, <1>6, <1>7, <2>2, <3>2
    <3> QED BY <3>4, <3>5, <3>6, <3>7, <3>8, <3>9 DEF SearchFits
  <2>4. MarkFits(pass'.mark) /\ refused' \subseteq Ids /\ failures' \in Nat
    BY <1>2, <2>2 DEF ConnectorsIInv, PassFits, ConnectorsTypeOK
  <2>5. \A i \in DOMAIN pass'.hits :
           /\ 0 < pass'.hits[i].at /\ pass'.hits[i].at <= now
           /\ pass'.hits[i].ver <= edits + MaxTime /\ pass'.hits[i].res <= MaxTime
    BY <1>3, <1>4, <2>2
  <2> QED BY <1>1, <1>2, <1>9, <2>2, <2>3, <2>4, <2>5, RemoteKept
<1> QED BY <1>8, <1>9

\* What comes after a hit depends on what was taken and what is left.
LEMMA ContinueFits ==
    ASSUME NEW p \in Pass, p.step = "hit", NEW q, q = Continue(p)
    PROVE  /\ q \in Pass /\ q.since = p.since /\ q.mark = p.mark /\ q.start = p.start
           /\ q.hits = p.hits /\ q.more = p.more /\ q.items = p.items /\ q.touched = p.touched
           /\ q.step \in {"search", "hit", "deliver"}
           /\ q.step = "hit" => p.hits # <<>>
           /\ q.step = "search" => p.hits = <<>>
           /\ q.step = "deliver" => p.items # {} \/ (p.hits = <<>> /\ ~p.more)
<1>1. Cardinality(p.items) >= Cap => p.items # {}
  BY FS_EmptySet, BoundsFit
<1>2. q \in {p, [p EXCEPT !.step = "deliver"], [p EXCEPT !.step = "search"]}
  BY DEF Continue
<1>3. /\ q \in Pass /\ q.since = p.since /\ q.mark = p.mark /\ q.start = p.start
      /\ q.hits = p.hits /\ q.more = p.more /\ q.items = p.items /\ q.touched = p.touched
  BY <1>2 DEF Pass
<1>4. q.step = (IF Cardinality(p.items) >= Cap THEN "deliver"
                ELSE IF p.hits # <<>> THEN "hit"
                ELSE IF p.more THEN "search" ELSE "deliver")
  BY DEF Continue, Pass
<1> QED BY <1>1, <1>3, <1>4

\* One hit was looked at: it was behind the cursor, or the cursor moves past it and
\* it is an item, was refused, or holds nothing.
LEMMA HitStep ==
    ASSUME ConnectorsIInv, Step("hit"), NEW h, h = Head(pass.hits),
           NEW p \in Pass, pass' = Continue(p), p.step = "hit", p.hits = Tail(pass.hits),
           p.since = pass.since, p.start = pass.start, p.more = pass.more,
           pass.items \subseteq p.items,
           \/ Behind(h) /\ p.mark = pass.mark /\ p.items = pass.items
           \/ /\ ~Behind(h) /\ p.mark = Cover(pass.mark, h.at)
              /\ "moved" \notin causes =>
                    h.doc \in Blank \/ ExternalId(kind, h.doc, h) \in p.items \cup refused',
           UNCHANGED <<world, queued, saved, causes>>,
           refused \subseteq refused', refused' \subseteq Ids, failures' \in Nat
    PROVE  ConnectorsIInv'
<1>1. /\ kind \in Remote /\ kind \notin {"session", "file"} /\ ~Step("idle")
      /\ pass.hits \in Seq(Hit) /\ pass.hits # <<>> /\ pass.start \in Nat
      /\ pass.mark \in Mark /\ pass.since \in Mark /\ MarkFits(pass.mark) /\ now \in Nat
      /\ pass.mark.newest \in Nat /\ pass.since.newest \in Nat
  BY TypeFacts DEF ConnectorsIInv, PassFits, Step, Remote
<1>2. /\ Len(pass.hits) \in Nat /\ Len(pass.hits) > 0 /\ h = pass.hits[1]
      /\ Tail(pass.hits) \in Seq(Hit) /\ Len(Tail(pass.hits)) = Len(pass.hits) - 1
      /\ \A i \in 1..Len(Tail(pass.hits)) : Tail(pass.hits)[i] = pass.hits[i + 1]
      /\ DOMAIN Tail(pass.hits) = 1..Len(Tail(pass.hits))
      /\ 1 \in DOMAIN pass.hits
  BY <1>1, HeadTailProperties, LenProperties
<1>3. /\ pass' \in Pass /\ pass'.since = pass.since /\ pass'.mark = p.mark
      /\ pass'.start = pass.start /\ pass'.hits = Tail(pass.hits) /\ pass'.more = pass.more
      /\ pass'.items = p.items
      /\ pass'.step \in {"search", "hit", "deliver"}
      /\ pass'.step = "hit" => pass'.hits # <<>>
      /\ pass'.step = "search" => pass'.hits = <<>>
      /\ pass'.step = "deliver" => pass'.items # {} \/ (pass'.hits = <<>> /\ ~pass.more)
  BY ContinueFits
<1>4. /\ \A i \in DOMAIN pass.hits :
            /\ 0 < pass.hits[i].at /\ pass.hits[i].at <= now
            /\ pass.hits[i].ver <= edits + MaxTime /\ pass.hits[i].res <= MaxTime
      /\ 0 < h.at /\ h.at <= now /\ h.at \in Times /\ h.at \in Nat
  BY <1>2, TypeFacts DEF ConnectorsIInv, PassFits, NumbersFit
<1>5. \A i \in DOMAIN pass'.hits :
         /\ 0 < pass'.hits[i].at /\ pass'.hits[i].at <= now
         /\ pass'.hits[i].ver <= edits + MaxTime /\ pass'.hits[i].res <= MaxTime
  <2>1. \A i \in DOMAIN Tail(pass.hits) : i + 1 \in DOMAIN pass.hits
    BY <1>1, <1>2
  <2> QED BY <1>2, <1>3, <1>4, <2>1
<1>6. /\ MarkFits(p.mark) /\ p.mark.newest \in Nat /\ pass.mark.newest <= p.mark.newest
      /\ Behind(h) \/ (h.at <= p.mark.newest /\ pass.since.newest < p.mark.newest)
      /\ Behind(h) => p.mark = pass.mark /\ p.items = pass.items
      /\ p.mark.newest \in {pass.mark.newest, h.at}
  <2>1. CASE Behind(h)
    BY <1>1, <2>1
  <2>2. CASE ~Behind(h)
    <3>1. p.mark = Cover(pass.mark, h.at)
      BY <2>2
    <3>2. /\ Cover(pass.mark, h.at) \in Mark /\ MarkFits(Cover(pass.mark, h.at))
          /\ pass.mark.newest <= Cover(pass.mark, h.at).newest
          /\ h.at <= Cover(pass.mark, h.at).newest
          /\ Cover(pass.mark, h.at).newest \in {pass.mark.newest, h.at}
      BY <1>1, <1>4, CoverFits
    <3>3. pass.since.newest < h.at
      BY <1>1, <1>4, <2>2 DEF Behind
    <3>4. Cover(pass.mark, h.at).newest \in Nat
      BY <1>1, <1>4, <3>2
    <3> QED BY <1>1, <1>4, <2>2, <3>1, <3>2, <3>3, <3>4
  <2> QED BY <2>1, <2>2
<1>7. All' = All /\ All \in Seq(Hit) /\ Len(All) \in Nat
  BY <1>3, AllKept, AllFits
<1>8. SearchFits'
  <2> SUFFICES ASSUME "moved" \notin causes
               PROVE  SearchFits'
    BY DEF SearchFits
  <2>1. /\ Len(pass.hits) <= pass.start /\ pass.start <= Len(All)
        /\ \A i \in DOMAIN pass.hits : pass.hits[i] = All[Passed + i]
        /\ \A i \in 1..Passed :
              Behind(All[i]) \/ (Advanced /\ All[i].at <= pass.mark.newest /\ Kept(All[i]))
        /\ Advanced \/ pass.mark.newest = pass.since.newest
        /\ pass.mark.newest = pass.since.newest \/ \E i \in 1..Passed : All[i].at = pass.mark.newest
        /\ pass.items # {} => Advanced
        /\ ~pass.more => pass.start = Len(All)
    BY <1>1 DEF ConnectorsIInv, SearchFits
  <2>2. Passed \in Nat /\ Passed' = Passed + 1 /\ Passed + 1 <= Len(All)
    <3>1. Passed = pass.start - Len(pass.hits)
      BY DEF Passed
    <3>2. Passed' = pass'.start - Len(pass'.hits)
      BY DEF Passed
    <3>3. pass'.start = pass.start /\ Len(pass'.hits) = Len(pass.hits) - 1
      BY <1>2, <1>3
    <3>4. Passed \in Nat /\ Passed <= pass.start - 1
      BY <1>1, <1>2, <2>1, <3>1, SMTT(30)
    <3>5. Passed' = Passed + 1
      BY <1>1, <1>2, <3>1, <3>2, <3>3, SMTT(30)
    <3> QED BY <1>1, <1>7, <2>1, <3>4, <3>5
  <2>3. h = All[Passed + 1]
    BY <1>2, <2>1
  <2>4. (Len(pass.hits) <= pass.start /\ pass.start <= Len(All))'
    BY <1>1, <1>2, <1>3, <1>7, <2>1
  <2>5. (\A i \in DOMAIN pass.hits : pass.hits[i] = All[Passed + i])'
    <3>1. ASSUME NEW i \in DOMAIN Tail(pass.hits)
          PROVE  Tail(pass.hits)[i] = All[(Passed + 1) + i]
      <4>1. i \in Nat /\ i + 1 \in DOMAIN pass.hits /\ Tail(pass.hits)[i] = pass.hits[i + 1]
        BY <1>1, <1>2
      <4>2. Passed + (i + 1) = (Passed + 1) + i
        BY <2>2, <4>1
      <4> QED BY <2>1, <4>1, <4>2
    <3> QED BY <1>3, <1>7, <2>2, <3>1
  <2>6. (\A i \in 1..Passed :
            Behind(All[i]) \/ (Advanced /\ All[i].at <= pass.mark.newest /\ Kept(All[i])))'
    <3>1. ASSUME NEW i \in 1..Passed, ~Behind(All[i])
          PROVE  /\ pass.since.newest < p.mark.newest /\ All[i].at <= p.mark.newest
                 /\ \/ All[i].doc \in Blank
                    \/ ExternalId(kind, All[i].doc, All[i]) \in seen \cup refused' \cup p.items
      <4>1. Advanced /\ All[i].at <= pass.mark.newest /\ Kept(All[i])
        BY <2>1, <3>1
      <4>2. All[i].at \in Nat
        <5>1. i \in 1..Len(All)
          BY <1>7, <2>2
        <5> QED BY <5>1, AllFits
      <4> QED BY <1>1, <1>6, <4>1, <4>2 DEF Advanced, Kept
    <3>2. CASE Behind(h)
      <4>1. Behind(All[Passed + 1])
        BY <2>3, <3>2
      <4> QED BY <1>3, <1>7, <2>2, <3>1, <4>1 DEF Behind, Advanced, Kept, world, saved
    <3>3. CASE ~Behind(h)
      <4>1. /\ pass.since.newest < p.mark.newest /\ h.at <= p.mark.newest
            /\ h.doc \in Blank \/ ExternalId(kind, h.doc, h) \in seen \cup refused' \cup p.items
        BY <1>6, <3>3
      <4> QED BY <1>3, <1>7, <2>2, <2>3, <3>1, <4>1 DEF Behind, Advanced, Kept, world, saved
    <3> QED BY <3>2, <3>3
  <2>7. (pass.mark.newest = pass.since.newest \/ \E i \in 1..Passed : All[i].at = pass.mark.newest)'
    <3>1. \A i \in 1..Passed : i \in 1..(Passed + 1)
      BY <2>2
    <3>2. Passed + 1 \in 1..(Passed + 1)
      BY <2>2
    <3> QED BY <1>3, <1>6, <1>7, <2>1, <2>2, <2>3, <3>1, <3>2
  <2>8. /\ (pass.items # {} => Advanced)'
        /\ (Advanced \/ pass.mark.newest = pass.since.newest)'
    BY <1>1, <1>3, <1>6, <2>1 DEF Advanced
  <2>9. (~pass.more => pass.start = Len(All))'
    BY <1>3, <1>7, <2>1
  <2>10. (Step("deliver") => Advanced \/ Passed = Len(All))'
    <3>1. pass'.hits = <<>> => Passed + 1 = pass.start
      <4>1. Passed = pass.start - Len(pass.hits)
        BY DEF Passed
      <4>2. ASSUME pass'.hits = <<>> PROVE Len(pass.hits) = 1
        <5>1. Len(Tail(pass.hits)) = 0
          <6>1. Tail(pass.hits) = <<>>
            BY <1>3, <4>2
          <6>2. Len(<<>>) = 0
            OBVIOUS
          <6> QED BY <6>1, <6>2, Zenon
        <5> QED BY <1>2, <5>1
      <4>3. pass.start - 1 + 1 = pass.start
        BY <1>1
      <4> QED BY <4>1, <4>2, <4>3
    <3> QED BY <1>3, <1>7, <2>1, <2>2, <2>8, <3>1 DEF Step
  <2> QED BY <2>4, <2>5, <2>6, <2>7, <2>8, <2>9, <2>10 DEF SearchFits
<1> QED BY <1>1, <1>3, <1>5, <1>6, <1>8, RemoteKept

\* A hit behind the cursor.
LEMMA SkipHitStep ==
    ASSUME ConnectorsIInv, SkipHit
    PROVE  ConnectorsIInv'
<1> DEFINE h == Head(pass.hits)
           p == [pass EXCEPT !.hits = Tail(@)]
<1>1. /\ Step("hit") /\ Behind(h) /\ pass' = Continue(p)
      /\ UNCHANGED <<world, queued, saved, refused, causes, failures>>
  BY DEF SkipHit
<1>2. /\ pass \in Pass /\ pass.hits \in Seq(Hit) /\ pass.hits # <<>>
      /\ refused \subseteq Ids /\ failures \in Nat
  BY <1>1 DEF ConnectorsIInv, ConnectorsTypeOK, PassFits, Pass, Step
<1>3. Tail(pass.hits) \in Seq(Hit)
  BY <1>2, HeadTailProperties
<1>4. /\ p \in Pass /\ p.step = "hit" /\ p.hits = Tail(pass.hits) /\ p.since = pass.since
      /\ p.mark = pass.mark /\ p.start = pass.start /\ p.more = pass.more /\ p.items = pass.items
  BY <1>1, <1>2, <1>3 DEF Pass, Step
<1> HIDE DEF h, p
<1> QED BY <1>1, <1>2, <1>4, HitStep DEF h

\* The pass after a look at the hit h that adds the items new.
Took(h, new) == [Looked(h) EXCEPT !.items = @ \cup new]

LEMMA TookFits ==
    ASSUME ConnectorsIInv, Step("hit"), NEW h, h = Head(pass.hits), NEW new \in SUBSET Ids,
           NEW p, p = Took(h, new)
    PROVE  /\ p \in Pass /\ p.step = "hit" /\ p.hits = Tail(pass.hits)
           /\ p.since = pass.since /\ p.start = pass.start /\ p.more = pass.more
           /\ p.mark = Cover(pass.mark, h.at) /\ p.items = pass.items \cup new
<1>1. /\ pass \in Pass /\ pass.hits \in Seq(Hit) /\ pass.hits # <<>> /\ kind # "file"
      /\ pass.mark \in Mark /\ MarkFits(pass.mark) /\ now \in Nat /\ pass.items \subseteq Ids
  BY TypeFacts DEF ConnectorsIInv, ConnectorsTypeOK, PassFits, Step, Remote
<1>2. /\ Tail(pass.hits) \in Seq(Hit) /\ h \in Hit /\ 1 \in DOMAIN pass.hits /\ h = pass.hits[1]
  BY <1>1, HeadTailProperties, LenProperties
<1>3. h.at \in Times /\ 0 < h.at /\ h.at <= now
  BY <1>2, TypeFacts DEF ConnectorsIInv, PassFits
<1>4. Cover(pass.mark, h.at) \in Mark
  BY <1>1, <1>3, CoverFits
<1> DEFINE m == Cover(pass.mark, h.at)
<1>5. p = [pass EXCEPT !.hits = Tail(pass.hits), !.mark = m, !.items = pass.items \cup new]
  BY <1>1 DEF Took, Looked, Pass
<1> HIDE DEF m
<1>6. m \in Mark
  BY <1>4 DEF m
<1>7. /\ p \in Pass /\ p.step = "hit" /\ p.hits = Tail(pass.hits)
      /\ p.since = pass.since /\ p.start = pass.start /\ p.more = pass.more
      /\ p.mark = m /\ p.items = pass.items \cup new
  BY <1>1, <1>2, <1>5, <1>6, ZenonT(40) DEF Pass, Step
<1> QED BY <1>7 DEF m

\* The hit at hand, and the keys it may get.
LEMMA HeadFits ==
    ASSUME ConnectorsIInv, pass.step \in {"hit", "read"}, NEW h, h = Head(pass.hits)
    PROVE  /\ h \in Hit /\ h.doc \in Docs /\ h = pass.hits[1] /\ 1 \in DOMAIN pass.hits
           /\ ExternalId(kind, h.doc, h) \in Ids
           /\ ExternalId(kind, h.doc, docs[h.doc]) \in Ids
<1>1. pass.hits \in Seq(Hit) /\ pass.hits # <<>>
  BY TypeFacts DEF ConnectorsIInv, PassFits
<1>2. h = pass.hits[1] /\ 1 \in DOMAIN pass.hits
  BY <1>1, HeadTailProperties, LenProperties
<1>3. /\ h \in Hit /\ h.doc \in Docs /\ h.ver \in Nat /\ h.res \in Nat
      /\ docs[h.doc].ver \in Nat /\ docs[h.doc].res \in Nat
  BY <1>2, TypeFacts DEF ConnectorsIInv
<1>4. /\ h.ver <= edits + MaxTime /\ h.res <= MaxTime
      /\ docs[h.doc].ver <= edits + MaxTime /\ docs[h.doc].res <= MaxTime
      /\ edits <= MaxEdits /\ edits \in Nat
  BY <1>2, <1>3 DEF ConnectorsIInv, NumbersFit, ConnectorsTypeOK
<1>5. h.ver <= MaxEdits + MaxTime /\ docs[h.doc].ver <= MaxEdits + MaxTime
  BY <1>3, <1>4, BoundsFit
<1> QED BY <1>2, <1>3, <1>4, <1>5, IdFits

\* As long as nothing changes under the pass, it says what the document says.
LEMMA HeadIsCurrent ==
    ASSUME ConnectorsIInv, Step("hit"), "moved" \notin causes, NEW h, h = Head(pass.hits)
    PROVE  h = HitOf(h.doc)
<1>1. /\ kind \in Remote /\ ~Step("idle") /\ pass.hits \in Seq(Hit) /\ pass.hits # <<>>
      /\ pass.start \in Nat
  BY TypeFacts DEF ConnectorsIInv, PassFits, Step
<1>2. Len(pass.hits) \in Nat /\ Len(pass.hits) > 0 /\ 1 \in DOMAIN pass.hits /\ h = pass.hits[1]
  BY <1>1, HeadTailProperties, LenProperties
<1>3. Len(pass.hits) <= pass.start /\ pass.start <= Len(All) /\ h = All[Passed + 1]
  BY <1>1, <1>2 DEF ConnectorsIInv, SearchFits
<1>4. Passed + 1 \in 1..Len(All)
  BY <1>1, <1>2, <1>3, AllFits DEF Passed
<1> QED BY <1>3, <1>4, AllFits

LEMMA TakeIssueStep ==
    ASSUME ConnectorsIInv, TakeIssue
    PROVE  ConnectorsIInv'
<1> DEFINE h == Head(pass.hits)
           id == ExternalId(kind, h.doc, h)
           p == Took(h, {id})
<1>1. /\ Step("hit") /\ ~Behind(h) /\ pass' = Continue(p)
      /\ UNCHANGED <<world, queued, saved, refused, causes, failures>>
  <2>1. HasIssue(h.doc)
    BY HeadFits DEF TakeIssue, Step, HasIssue
  <2> QED BY <2>1 DEF TakeIssue, Took
<1>2. id \in Ids /\ refused \subseteq Ids /\ failures \in Nat
  BY <1>1, HeadFits DEF ConnectorsIInv, ConnectorsTypeOK, Step
<1> HIDE DEF h, id
<1>3. /\ p \in Pass /\ p.step = "hit" /\ p.hits = Tail(pass.hits)
      /\ p.since = pass.since /\ p.start = pass.start /\ p.more = pass.more
      /\ p.mark = Cover(pass.mark, h.at) /\ p.items = pass.items \cup {id}
  BY <1>1, <1>2, TookFits DEF h
<1> HIDE DEF p
<1>4. h = Head(pass.hits) /\ id = ExternalId(kind, h.doc, h)
  BY DEF h, id
<1> QED BY <1>1, <1>2, <1>3, <1>4, HitStep

LEMMA TakePageStep ==
    ASSUME ConnectorsIInv, TakePage
    PROVE  ConnectorsIInv'
<1> DEFINE h == Head(pass.hits)
           id == ExternalId(kind, h.doc, docs[h.doc])
           new == IF HasPage(h.doc) THEN {id} ELSE {}
           p == Took(h, new)
<1>1. /\ Step("hit") /\ ~Behind(h) /\ pass' = Continue(p) /\ kind \in Remote
      /\ UNCHANGED <<world, queued, saved, refused, causes, failures>>
  BY DEF TakePage, Remote, Took
<1>2. id \in Ids /\ refused \subseteq Ids /\ failures \in Nat
  BY <1>1, HeadFits DEF ConnectorsIInv, ConnectorsTypeOK, Step
<1>3. "moved" \notin causes => h = HitOf(h.doc)
  BY <1>1, HeadIsCurrent
<1>4. h.doc \in Docs
  BY <1>1, HeadFits DEF Step
<1>5. "moved" \notin causes => ExternalId(kind, h.doc, h) = id
  BY <1>3 DEF HitOf, ExternalId
<1> HIDE DEF h, id
<1>6. "moved" \notin causes => h.doc \in Blank \/ ExternalId(kind, h.doc, h) \in new
  BY <1>5 DEF HasPage
<1>7. new \in SUBSET Ids
  BY <1>2
<1> HIDE DEF new
<1>8. /\ p \in Pass /\ p.step = "hit" /\ p.hits = Tail(pass.hits)
      /\ p.since = pass.since /\ p.start = pass.start /\ p.more = pass.more
      /\ p.mark = Cover(pass.mark, h.at) /\ p.items = pass.items \cup new
  BY <1>1, <1>7, TookFits DEF h
<1> HIDE DEF p
<1>9. h = Head(pass.hits)
  BY DEF h
<1> QED BY <1>1, <1>2, <1>6, <1>8, <1>9, HitStep

LEMMA PageRefusedStep ==
    ASSUME ConnectorsIInv, PageRefused
    PROVE  ConnectorsIInv'
<1> DEFINE h == Head(pass.hits)
           id == ExternalId(kind, h.doc, h)
           p == Took(h, {})
<1>1. /\ Step("hit") /\ ~Behind(h) /\ pass' = Continue(Looked(h)) /\ kind = "confluence"
      /\ refused' = refused \cup {ExternalId(kind, h.doc, g) : g \in {h, docs[h.doc]}}
      /\ failures' = failures + 1
      /\ UNCHANGED <<world, queued, saved, causes>>
  BY DEF PageRefused
<1>2. /\ id \in Ids /\ ExternalId(kind, h.doc, docs[h.doc]) \in Ids
      /\ refused \subseteq Ids /\ failures \in Nat
  BY <1>1, HeadFits DEF ConnectorsIInv, ConnectorsTypeOK, Step
<1>3. refused' \subseteq Ids /\ failures' \in Nat /\ id \in refused' /\ refused \subseteq refused'
  BY <1>1, <1>2
<1> HIDE DEF h, id
<1>4. /\ p \in Pass /\ p.step = "hit" /\ p.hits = Tail(pass.hits)
      /\ p.since = pass.since /\ p.start = pass.start /\ p.more = pass.more
      /\ p.mark = Cover(pass.mark, h.at) /\ p.items = pass.items \cup {}
  <2>1. PICK none \in SUBSET Ids : none = {}
    OBVIOUS
  <2>2. p = Took(h, none)
    BY <2>1
  <2> HIDE DEF p
  <2>3. h = Head(pass.hits)
    BY DEF h
  <2>4. /\ p \in Pass /\ p.step = "hit" /\ p.hits = Tail(pass.hits)
        /\ p.since = pass.since /\ p.start = pass.start /\ p.more = pass.more
        /\ p.mark = Cover(pass.mark, h.at) /\ p.items = pass.items \cup none
    BY <1>1, <2>2, <2>3, TookFits
  <2> QED BY <2>1, <2>4
<1>5. Looked(h) = p
  BY <1>1 DEF Took, Looked, ConnectorsIInv, ConnectorsTypeOK, Pass
<1> HIDE DEF p
<1>6. h = Head(pass.hits) /\ id = ExternalId(kind, h.doc, h)
  BY DEF h, id
<1> QED BY <1>1, <1>3, <1>4, <1>5, <1>6, HitStep

LEMMA TakeNotionPageStep ==
    ASSUME ConnectorsIInv, TakeNotionPage
    PROVE  ConnectorsIInv'
<1> DEFINE h == Head(pass.hits)
           id == ExternalId(kind, h.doc, h)
           p == Took(h, {id})
<1>1. /\ Step("hit") /\ ~Behind(h) /\ pass' = Continue(p) /\ PageText(id)
      /\ UNCHANGED <<world, queued, saved, causes>>
  BY DEF TakeNotionPage, Took
<1>2. id \in Ids /\ refused \subseteq Ids /\ failures \in Nat
  BY <1>1, HeadFits DEF ConnectorsIInv, ConnectorsTypeOK, Step
<1> HIDE DEF h, id
<1>3. refused' \subseteq Ids /\ failures' \in Nat /\ refused \subseteq refused'
  BY <1>1, <1>2 DEF PageText
<1>4. /\ p \in Pass /\ p.step = "hit" /\ p.hits = Tail(pass.hits)
      /\ p.since = pass.since /\ p.start = pass.start /\ p.more = pass.more
      /\ p.mark = Cover(pass.mark, h.at) /\ p.items = pass.items \cup {id}
  BY <1>1, <1>2, TookFits DEF h
<1> HIDE DEF p
<1>5. h = Head(pass.hits) /\ id = ExternalId(kind, h.doc, h)
  BY DEF h, id
<1> QED BY <1>1, <1>3, <1>4, <1>5, HitStep

-----------------------------------------------------------------------------
(* Uploaded files.                                                         *)

\* The key of a document as it is now.
LEMMA CurrentIdFits ==
    ASSUME ConnectorsIInv, NEW d \in Docs
    PROVE  ExternalId(kind, d, docs[d]) \in Ids
<1>1. /\ docs[d].ver \in Nat /\ docs[d].res \in Nat
      /\ docs[d].ver <= edits + MaxTime /\ docs[d].res <= MaxTime
      /\ edits <= MaxEdits /\ edits \in Nat
  BY TypeFacts DEF ConnectorsIInv, NumbersFit, ConnectorsTypeOK
<1>2. docs[d].ver <= MaxEdits + MaxTime
  BY <1>1, BoundsFit
<1> QED BY <1>1, <1>2, IdFits

LEMMA TakePathsStep ==
    ASSUME ConnectorsIInv, TakePaths
    PROVE  ConnectorsIInv'
<1>1. PICK failed \in SUBSET {d \in queued : CanRead(d)} :
         /\ failures' = failures + (IF failed = {} THEN 0 ELSE 1)
         /\ refused' = refused \cup {ExternalId(kind, d, docs[d]) : d \in failed}
         /\ pass' = [NoPass EXCEPT !.step = "deliver",
                        !.items = {ExternalId(kind, d, docs[d]) :
                                      d \in {e \in queued \ failed : CanRead(e)}}]
  BY DEF TakePaths
<1>2. /\ Step("idle") /\ kind = "file" /\ queued' = {}
      /\ UNCHANGED <<world, saved, causes>>
  BY DEF TakePaths
<1> DEFINE taken == {e \in queued \ failed : CanRead(e)}
           ids(S) == {ExternalId(kind, d, docs[d]) : d \in S}
<1>3. queued \subseteq Docs /\ failed \subseteq Docs /\ taken \subseteq Docs
  BY DEF ConnectorsIInv, ConnectorsTypeOK
<1>4. ids(taken) \subseteq Ids /\ ids(failed) \subseteq Ids
  BY <1>3, CurrentIdFits
<1>5. /\ \A d \in taken : ExternalId(kind, d, docs[d]) \in ids(taken)
      /\ \A d \in failed : ExternalId(kind, d, docs[d]) \in ids(failed)
  OBVIOUS
<1>6. \A d \in queued : d \in Blank \/ d \in failed \/ d \in taken
  BY DEF CanRead
<1>7. refused' = refused \cup ids(failed) /\ failures' \in Nat
  BY <1>1 DEF ConnectorsIInv, ConnectorsTypeOK
<1>8. pass' = [NoPass EXCEPT !.step = "deliver", !.items = ids(taken)]
  BY <1>1
<1> HIDE DEF ids, taken
<1>9. /\ pass'.step = "deliver" /\ pass'.since = NoMark /\ pass'.mark = NoMark
      /\ pass'.hits = <<>> /\ pass'.start = 0 /\ pass'.items = ids(taken) /\ pass'.touched = {}
  BY <1>8 DEF NoPass
<1>10. pass' \in Pass
  <2>1. NoMark \in Mark
    BY BoundsFit DEF NoMark, Mark
  <2> QED BY <1>4, <1>8, <2>1, EmptySeq DEF Pass, NoPass
<1>11. ConnectorsTypeOK'
  BY <1>2, <1>4, <1>7, <1>10 DEF ConnectorsIInv, ConnectorsTypeOK, world, saved
<1>12. NumbersFit' /\ ClockFits'
  BY <1>2, <1>9 DEF ConnectorsIInv, NumbersFit, ClockFits, world
<1>13. PassFits'
  <2>1. cursor \in Mark /\ MarkFits(cursor) /\ now \in Nat /\ now >= 0
    BY TypeFacts DEF ConnectorsIInv, PassFits
  <2>2. cursor = NoMark
    BY <1>2, <2>1 DEF Mark, MarkFits, NoMark
  <2> QED BY <1>2, <1>9, <2>1, <2>2 DEF ConnectorsIInv, PassFits, MarkFits, Step, Remote, world, saved
<1>14. CursorFits'
  BY <1>2, <1>7, CursorKept DEF saved
<1>15. UploadsFit'
  <2> SUFFICES ASSUME "forgotten" \notin causes, NEW d \in Exists
               PROVE  (d \in queued \/ Given(d) \/ ExternalId(kind, d, docs[d]) \in pass.items)'
    BY <1>2 DEF UploadsFit, UploadsAreKept, Exists, world
  <2>1. d \in queued \/ Given(d)
    <3>1. pass.items = {}
      BY <1>2 DEF ConnectorsIInv, PassFits, NoPass
    <3> QED BY <1>2, <3>1 DEF ConnectorsIInv, UploadsFit, UploadsAreKept
  <2>2. ExternalId(kind, d, docs[d])' = ExternalId(kind, d, docs[d])
    BY <1>2 DEF world
  <2> QED BY <1>2, <1>5, <1>6, <1>7, <1>9, <2>1, <2>2 DEF Given, saved
<1>16. SearchFits' /\ SessionFits' /\ WatermarksMove'
  BY <1>2 DEF SearchFits, SessionFits, WatermarksMove, Remote, world
<1> QED BY <1>11, <1>12, <1>13, <1>14, <1>15, <1>16 DEF ConnectorsIInv

LEMMA UploadStep ==
    ASSUME ConnectorsIInv, Upload
    PROVE  ConnectorsIInv'
<1>1. PICK d \in Docs :
         /\ queued' = queued \cup {d}
         /\ docs' = [docs EXCEPT ![d].at = 1, ![d].ver = 1]
  BY DEF Upload
<1>2. /\ kind = "file" /\ edits < MaxEdits /\ edits' = edits + 1 /\ now' = 1
      /\ UNCHANGED <<kind, scope, saved, pass, refused, causes, failures>>
  BY DEF Upload
<1>3. /\ edits \in Nat /\ edits' \in Nat /\ edits' <= MaxEdits
      /\ 1 <= MaxTime /\ MaxTime \in Nat /\ MaxEdits \in Nat
  BY <1>2, BoundsFit, ConnectorsAssumption DEF ConnectorsIInv, ConnectorsTypeOK, ConnectorsAssumption
<1>4. /\ docs \in [Docs -> [at : Times, ver : Nat, res : Nat]]
      /\ docs' \in [Docs -> [at : Times, ver : Nat, res : Nat]]
  BY <1>1, BoundsFit DEF ConnectorsIInv, ConnectorsTypeOK
<1>5. /\ docs'[d].at = 1 /\ docs'[d].ver = 1 /\ docs'[d].res = docs[d].res
      /\ \A e \in Docs : e # d => docs'[e] = docs[e]
  BY <1>1, <1>4
<1>6. ConnectorsTypeOK'
  BY <1>1, <1>2, <1>3, <1>4, BoundsFit DEF ConnectorsIInv, ConnectorsTypeOK, saved
<1>7. NumbersFit'
  <2>1. \A e \in Docs : docs'[e].ver <= edits' + MaxTime /\ docs'[e].res <= MaxTime
    <3>1. \A e \in Docs : docs[e].ver <= edits + MaxTime /\ docs[e].res <= MaxTime /\ docs[e].ver \in Nat
      BY TypeFacts DEF ConnectorsIInv, NumbersFit
    <3> QED BY <1>2, <1>3, <1>5, <3>1
  <2>2. \A i \in DOMAIN pass.hits : pass.hits[i].ver <= edits' + MaxTime /\ pass.hits[i].res <= MaxTime
    <3>1. \A i \in DOMAIN pass.hits :
             pass.hits[i].ver <= edits + MaxTime /\ pass.hits[i].res <= MaxTime /\ pass.hits[i].ver \in Nat
      BY TypeFacts DEF ConnectorsIInv, NumbersFit
    <3> QED BY <1>2, <1>3, <3>1
  <2> QED BY <1>2, <1>3, <2>1, <2>2 DEF NumbersFit
<1>8. now \in {0, 1}
  BY <1>2, TypeFacts DEF ConnectorsIInv, ClockFits
<1>9. ClockFits'
  <2>1. \A e \in Docs : docs[e].at \in Nat /\ docs[e].at <= now
    BY TypeFacts DEF ConnectorsIInv, ClockFits
  <2> QED BY <1>2, <1>5, <1>8, <2>1 DEF ClockFits
<1>10. PassFits'
  <2>1. /\ cursor.newest = 0 /\ cursor.oldest = 0 /\ pass.mark.newest = 0 /\ pass.mark.oldest = 0
    BY <1>2 DEF ConnectorsIInv, PassFits, MarkFits
  <2>2. pass.hits = <<>>
    BY <1>2, TypeFacts DEF ConnectorsIInv, PassFits, Step, NoPass, Remote
  <2>3. MarkFits(cursor)' /\ MarkFits(pass.mark)'
    BY <1>2, <2>1 DEF MarkFits, saved
  <2>4. DOMAIN pass.hits = {}
    BY <2>2
  <2> QED BY <1>2, <2>2, <2>3, <2>4 DEF ConnectorsIInv, PassFits, Step, Remote, saved
<1>11. CursorFits' /\ UploadsFit'
  <2>1. cursor.newest = 0
    BY <1>2 DEF ConnectorsIInv, PassFits, MarkFits
  <2>2. CursorFits'
    BY <1>2, <2>1 DEF CursorFits, BetweenIsDone, saved
  <2>3. ASSUME "forgotten" \notin causes, NEW e \in Exists', e # d
        PROVE  (e \in queued \/ Given(e) \/ ExternalId(kind, e, docs[e]) \in pass.items)'
    <3>1. e \in Exists /\ docs'[e] = docs[e]
      BY <1>5, <2>3 DEF Exists
    <3>2. e \in queued \/ Given(e) \/ ExternalId(kind, e, docs[e]) \in pass.items
      BY <1>2, <2>3, <3>1 DEF ConnectorsIInv, UploadsFit, UploadsAreKept
    <3>3. ExternalId(kind, e, docs[e])' = ExternalId(kind, e, docs[e])
      BY <1>2, <3>1 DEF ExternalId
    <3> QED BY <1>1, <1>2, <3>2, <3>3 DEF Given, saved
  <2>4. d \in queued'
    BY <1>1
  <2> QED BY <1>2, <2>2, <2>3, <2>4 DEF UploadsFit, UploadsAreKept
<1>12. SearchFits' /\ SessionFits' /\ WatermarksMove'
  BY <1>2 DEF SearchFits, SessionFits, WatermarksMove, Remote
<1> QED BY <1>6, <1>7, <1>9, <1>10, <1>11, <1>12 DEF ConnectorsIInv

-----------------------------------------------------------------------------
(* Failures, changes under a pass, other roots.                            *)

\* No pass in progress.
LEMMA NoPassFits ==
    ASSUME pass' = NoPass
    PROVE  SearchFits' /\ SessionFits' /\ WatermarksMove'
BY DEF SearchFits, SessionFits, WatermarksMove, Step, NoPass

LEMMA IdleType == NoPass \in Pass /\ NoPass.hits = <<>> /\ NoPass.items = {} /\ NoPass.step = "idle"
<1>1. NoMark \in Mark
  BY BoundsFit DEF NoMark, Mark
<1> QED BY <1>1, EmptySeq DEF Pass, NoPass

LEMMA IdlePassFits ==
    ASSUME ConnectorsIInv, pass' = NoPass, UNCHANGED world, MarkFits(cursor')
    PROVE  PassFits'
<1>1. /\ pass'.step = "idle" /\ pass'.hits = <<>> /\ pass'.mark = NoMark
      /\ pass'.mark.newest = 0 /\ pass'.mark.oldest = 0
  BY DEF NoPass, NoMark
<1>2. now \in Nat
  BY TypeFacts DEF ConnectorsIInv
<1>3. MarkFits(cursor)' /\ MarkFits(pass.mark)'
  BY <1>1, <1>2 DEF MarkFits, world
<1> QED BY <1>1, <1>3 DEF ConnectorsIInv, PassFits, Step, world

LEMMA FailsStep ==
    ASSUME ConnectorsIInv, Fails
    PROVE  ConnectorsIInv'
<1>1. /\ pass' = NoPass /\ failures' = failures + 1
      /\ causes' = (IF kind = "file" THEN causes \cup {"forgotten"} ELSE causes)
      /\ UNCHANGED <<world, queued, saved, refused>>
  BY DEF Fails
<1>2. ConnectorsTypeOK'
  BY <1>1, IdleType DEF ConnectorsIInv, ConnectorsTypeOK, world, saved
<1>3. NumbersFit' /\ ClockFits'
  BY <1>1, IdleType DEF ConnectorsIInv, NumbersFit, ClockFits, world
<1>4. PassFits'
  BY <1>1, IdlePassFits DEF ConnectorsIInv, PassFits, saved
<1>5. CursorFits'
  BY <1>1, CursorKept DEF saved, CursorFits
<1>6. UploadsFit'
  BY <1>1 DEF UploadsFit, UploadsAreKept, world
<1> QED BY <1>1, <1>2, <1>3, <1>4, <1>5, <1>6, NoPassFits DEF ConnectorsIInv

LEMMA EditStep ==
    ASSUME ConnectorsIInv, Edit
    PROVE  ConnectorsIInv'
<1>1. PICK d \in Docs, t \in {now, now + 1} \ {0} :
         /\ kind # "file" /\ edits < MaxEdits /\ t <= MaxTime
         /\ edits' = edits + 1
         /\ now' = t
         /\ \E r \in IF kind = "jira" THEN {0, docs[d].res, t} ELSE {0} :
               docs' = [docs EXCEPT ![d] = [at |-> t, ver |-> NextVersion(@), res |-> r]]
         /\ causes' = causes
                \cup (IF \E e \in Docs : docs[e].at = t THEN {"tie"} ELSE {})
                \cup (IF kind \in Remote /\ ~Step("idle") THEN {"moved"} ELSE {})
         /\ pass' = IF Step("idle") THEN pass ELSE [pass EXCEPT !.touched = @ \cup {d}]
         /\ UNCHANGED <<kind, scope, queued, saved, refused, failures>>
  BY DEF Edit
<1>2. PICK r \in IF kind = "jira" THEN {0, docs[d].res, t} ELSE {0} :
         docs' = [docs EXCEPT ![d] = [at |-> t, ver |-> NextVersion(docs[d]), res |-> r]]
  BY <1>1
<1>3. /\ now \in Nat /\ t \in Nat /\ 0 < t /\ now <= t /\ t \in Times
      /\ edits \in Nat /\ edits' \in Nat /\ edits' <= MaxEdits
      /\ MaxTime \in Nat /\ 1 <= MaxTime /\ MaxEdits \in Nat
  <2>1. now \in Nat /\ edits \in Nat
    BY TypeFacts DEF ConnectorsIInv, ConnectorsTypeOK
  <2>2. MaxTime \in Nat /\ 1 <= MaxTime /\ MaxEdits \in Nat
    BY BoundsFit, ConnectorsAssumption DEF ConnectorsAssumption
  <2>3. t \in Nat /\ 0 < t /\ now <= t
    BY <1>1, <2>1
  <2>4. t \in Times
    BY <1>1, <2>2, <2>3 DEF Times
  <2> QED BY <1>1, <2>1, <2>2, <2>3, <2>4
<1>4. /\ docs \in [Docs -> [at : Times, ver : Nat, res : Nat]]
      /\ docs[d].ver \in Nat /\ docs[d].res \in Nat
      /\ docs[d].ver <= edits + MaxTime /\ docs[d].res <= MaxTime
  BY TypeFacts DEF ConnectorsIInv, ConnectorsTypeOK, NumbersFit
<1>5. /\ r \in Nat /\ r <= MaxTime
      /\ NextVersion(docs[d]) \in Nat /\ NextVersion(docs[d]) <= edits' + MaxTime
  BY <1>1, <1>3, <1>4 DEF NextVersion
<1> DEFINE new == [at |-> t, ver |-> NextVersion(docs[d]), res |-> r]
<1>6. new \in [at : Times, ver : Nat, res : Nat]
  BY <1>3, <1>5
<1>7. docs' \in [Docs -> [at : Times, ver : Nat, res : Nat]]
  BY <1>2, <1>4, <1>6
<1>8. /\ docs'[d].at = t /\ docs'[d].res = r /\ docs'[d].ver = NextVersion(docs[d])
      /\ \A e \in Docs : e # d => docs'[e] = docs[e]
  BY <1>2, <1>4
<1> HIDE DEF new
<1>9. /\ pass' \in Pass /\ pass'.step = pass.step /\ pass'.since = pass.since
      /\ pass'.mark = pass.mark /\ pass'.start = pass.start /\ pass'.hits = pass.hits
      /\ pass'.items = pass.items
      /\ ~Step("idle") => pass'.touched = pass.touched \cup {d}
      /\ Step("idle") => pass' = pass
  BY <1>1 DEF ConnectorsIInv, ConnectorsTypeOK, Pass
<1>10. ConnectorsTypeOK'
  BY <1>1, <1>3, <1>7, <1>9 DEF ConnectorsIInv, ConnectorsTypeOK, saved
<1>11. NumbersFit'
  <2>1. ASSUME NEW e \in Docs
        PROVE  docs'[e].ver <= edits' + MaxTime /\ docs'[e].res <= MaxTime
    <3>1. docs[e].ver <= edits + MaxTime /\ docs[e].res <= MaxTime /\ docs[e].ver \in Nat
      BY TypeFacts DEF ConnectorsIInv, NumbersFit
    <3> QED BY <1>1, <1>3, <1>5, <1>8, <3>1
  <2>2. ASSUME NEW i \in DOMAIN pass.hits
        PROVE  pass.hits[i].ver <= edits' + MaxTime /\ pass.hits[i].res <= MaxTime
    <3>1. /\ pass.hits[i].ver <= edits + MaxTime /\ pass.hits[i].res <= MaxTime
          /\ pass.hits[i].ver \in Nat
      BY TypeFacts DEF ConnectorsIInv, NumbersFit
    <3> QED BY <1>1, <1>3, <3>1
  <2> QED BY <1>3, <1>9, <2>1, <2>2 DEF NumbersFit
<1>12. \A e \in Docs : docs[e].at \in Nat /\ docs[e].at <= now
  BY TypeFacts DEF ConnectorsIInv, ClockFits
<1>13. ClockFits'
  <2>1. \A e \in Docs : docs'[e].at <= now'
    BY <1>1, <1>3, <1>8, <1>12
  <2>2. ASSUME "tie" \notin causes', NEW e \in Docs, NEW f \in Docs, e # f, docs'[e].at = docs'[f].at
        PROVE  docs'[e].at = 0
    <3>1. \A g \in Docs : docs[g].at # t
      BY <1>1, <2>2
    <3>2. e # d /\ f # d
      BY <1>8, <2>2, <3>1
    <3> QED BY <1>1, <1>8, <2>2, <3>2 DEF ConnectorsIInv, ClockFits
  <2> QED BY <1>1, <1>8, <2>1, <2>2 DEF ClockFits
<1>14. PassFits'
  <2>1. \A m \in Mark : MarkFits(m) => MarkFits(m)'
    <3>1. \A m \in Mark : m.newest \in Nat
      BY BoundsFit DEF Mark
    <3> QED BY <1>1, <1>3, <3>1 DEF MarkFits
  <2>2. MarkFits(cursor)' /\ MarkFits(pass.mark)'
    BY <1>1, <1>9, <2>1, TypeFacts DEF ConnectorsIInv, PassFits, saved, MarkFits
  <2>3. \A i \in DOMAIN pass.hits : pass.hits[i].at \in Nat
    BY TypeFacts DEF ConnectorsIInv
  <2>4. \A i \in DOMAIN pass'.hits : 0 < pass'.hits[i].at /\ pass'.hits[i].at <= now'
    BY <1>1, <1>3, <1>9, <2>3 DEF ConnectorsIInv, PassFits
  <2> QED BY <1>1, <1>9, <2>2, <2>4 DEF ConnectorsIInv, PassFits, Step, saved
<1>15. ASSUME causes' = {}
       PROVE  causes = {} /\ now < t /\ \A m \in {cursor, pass.mark} : m.newest < t
  <2>1. causes = {} /\ \A e \in Docs : docs[e].at # t
    BY <1>1, <1>15
  <2>2. now # t
    BY <1>3, <2>1 DEF ConnectorsIInv, ClockFits
  <2>3. \A m \in {cursor, pass.mark} : m.newest <= now /\ m.newest \in Nat
    BY TypeFacts DEF ConnectorsIInv, PassFits, MarkFits
  <2> QED BY <1>3, <2>1, <2>2, <2>3
<1>16. CursorFits'
  <2> SUFFICES ASSUME causes' = {}, NEW e \in (Exists \cap scope)',
                      cursor.newest # 0, ~Outside(cursor, docs[e].at)'
               PROVE  Given(e)'
    BY <1>1 DEF CursorFits, BetweenIsDone, saved
  <2>1. e # d
    BY <1>1, <1>8, <1>15 DEF Outside, saved
  <2>2. docs'[e] = docs[e] /\ e \in Exists \cap scope
    BY <1>1, <1>8, <2>1 DEF Exists
  <2>3. ~Outside(cursor, docs[e].at)
    BY <1>1, <2>2 DEF Outside, saved
  <2>4. Given(e)
    BY <1>15, <2>2, <2>3 DEF ConnectorsIInv, CursorFits, BetweenIsDone
  <2> QED BY <1>1, <2>2, <2>4 DEF Given, ExternalId, saved
<1>17. UploadsFit' /\ SearchFits'
  BY <1>1, <1>9 DEF UploadsFit, UploadsAreKept, SearchFits, Step
<1>18. SessionFits'
  <2> SUFFICES ASSUME causes' = {}, kind = "session", ~Step("idle"), NEW e \in (Exists \cap scope)'
               PROVE  (Given(e) \/ Held(e) \/ Above(e) \/ Below(e))'
    BY <1>1, <1>9 DEF SessionFits, Step
  <2>1. CASE e = d
    <3>1. \A i \in DOMAIN pass.hits : pass.hits[i].at <= now /\ pass.hits[i].at \in Nat
      BY TypeFacts DEF ConnectorsIInv, PassFits
    <3>2. \A i \in DOMAIN pass.hits : pass.hits[i].at < t
      BY <1>3, <1>15, <3>1
    <3> QED BY <1>8, <1>9, <1>15, <2>1, <3>2 DEF Above
  <2>2. CASE e # d
    <3>1. docs'[e] = docs[e] /\ e \in Exists \cap scope
      BY <1>1, <1>8, <2>2 DEF Exists
    <3>2. Given(e) \/ Held(e) \/ Above(e) \/ Below(e)
      BY <1>15, <3>1 DEF ConnectorsIInv, SessionFits
    <3> QED BY <1>1, <1>9, <3>1, <3>2 DEF Given, ExternalId, Held, Above, Below, saved
  <2> QED BY <2>1, <2>2
<1>19. WatermarksMove'
  <2> SUFFICES ASSUME kind = "session", ~Step("idle")
               PROVE  WatermarksMove'
    BY <1>1, <1>9 DEF WatermarksMove, Step
  <2>1. /\ \A i \in DOMAIN pass.hits : Outside(pass.since, pass.hits[i].at)
        /\ pass.since.newest <= pass.mark.newest
        /\ pass.since.newest # 0 => pass.mark.oldest <= pass.since.oldest
        /\ pass.mark = pass.since => pass.hits # <<>> \/ Remaining(pass.since) \subseteq pass.touched
    BY DEF ConnectorsIInv, WatermarksMove
  <2>2. Remaining(pass.since)' \subseteq Remaining(pass.since) \cup {d}
    BY <1>1, <1>8, <1>9 DEF Remaining, Exists, Outside
  <2>3. (\A i \in DOMAIN pass.hits : Outside(pass.since, pass.hits[i].at))'
    BY <1>1, <1>9, <2>1 DEF Outside
  <2> QED BY <1>9, <2>1, <2>2, <2>3 DEF WatermarksMove
<1> QED BY <1>10, <1>11, <1>13, <1>14, <1>16, <1>17, <1>18, <1>19 DEF ConnectorsIInv

LEMMA ConfigureStep ==
    ASSUME ConnectorsIInv, Configure
    PROVE  ConnectorsIInv'
<1>1. PICK roots \in SUBSET Docs :
         /\ scope' = IF roots = {} THEN Docs ELSE roots
         /\ causes' = IF scope' \subseteq scope \/ (cursor = NoMark /\ Step("idle")) THEN causes
                      ELSE causes \cup {"rescoped"}
         /\ pass' = IF Step("idle") THEN pass
                    ELSE [pass EXCEPT !.touched = @ \cup (scope' \ scope)]
  BY DEF Configure
<1>2. /\ kind = "session" /\ edits < MaxEdits /\ edits' = edits + 1
      /\ UNCHANGED <<kind, docs, now, queued, saved, refused, failures>>
  BY DEF Configure
<1>3. /\ scope' \subseteq Docs /\ edits \in Nat /\ edits' \in Nat /\ edits' <= MaxEdits
      /\ MaxTime \in Nat /\ MaxEdits \in Nat /\ edits <= edits'
  BY <1>1, <1>2, BoundsFit DEF ConnectorsIInv, ConnectorsTypeOK
<1>4. /\ pass' \in Pass /\ pass'.step = pass.step /\ pass'.since = pass.since
      /\ pass'.mark = pass.mark /\ pass'.start = pass.start /\ pass'.hits = pass.hits
      /\ pass'.items = pass.items
      /\ ~Step("idle") => pass'.touched = pass.touched \cup (scope' \ scope)
      /\ Step("idle") => pass' = pass
  BY <1>1, <1>3 DEF ConnectorsIInv, ConnectorsTypeOK, Pass
<1>5. ConnectorsTypeOK'
  BY <1>1, <1>2, <1>3, <1>4 DEF ConnectorsIInv, ConnectorsTypeOK, saved
<1>6. NumbersFit'
  <2>1. ASSUME NEW e \in Docs
        PROVE  docs[e].ver <= edits' + MaxTime /\ docs[e].res <= MaxTime
    <3>1. docs[e].ver <= edits + MaxTime /\ docs[e].res <= MaxTime /\ docs[e].ver \in Nat
      BY TypeFacts DEF ConnectorsIInv, NumbersFit
    <3> QED BY <1>2, <1>3, <3>1
  <2>2. ASSUME NEW i \in DOMAIN pass.hits
        PROVE  pass.hits[i].ver <= edits' + MaxTime /\ pass.hits[i].res <= MaxTime
    <3>1. /\ pass.hits[i].ver <= edits + MaxTime /\ pass.hits[i].res <= MaxTime
          /\ pass.hits[i].ver \in Nat
      BY TypeFacts DEF ConnectorsIInv, NumbersFit
    <3> QED BY <1>2, <1>3, <3>1
  <2> QED BY <1>2, <1>3, <1>4, <2>1, <2>2 DEF NumbersFit
<1>7. ClockFits'
  <2>1. "tie" \notin causes' => "tie" \notin causes
    BY <1>1
  <2> QED BY <1>2, <2>1 DEF ConnectorsIInv, ClockFits
<1>8. PassFits'
  BY <1>2, <1>4 DEF ConnectorsIInv, PassFits, MarkFits, Step, saved
<1>9. causes' = {} => causes = {} /\ (scope' \subseteq scope \/ (cursor = NoMark /\ Step("idle")))
  BY <1>1
<1>10. \A e \in Docs : Given(e)' <=> Given(e)
  BY <1>2 DEF Given, ExternalId, saved
<1>11. CursorFits'
  <2> SUFFICES ASSUME causes' = {}, NEW e \in (Exists \cap scope)',
                      cursor.newest # 0, ~Outside(cursor, docs[e].at)
               PROVE  Given(e)'
    BY <1>2 DEF CursorFits, BetweenIsDone, saved, Outside
  <2>1. e \in Exists \cap scope /\ e \in Docs
    BY <1>2, <1>9 DEF NoMark, Exists
  <2> QED BY <1>9, <1>10, <2>1 DEF ConnectorsIInv, CursorFits, BetweenIsDone
<1>12. UploadsFit' /\ SearchFits'
  BY <1>2 DEF UploadsFit, UploadsAreKept, SearchFits, Remote
<1>13. SessionFits'
  <2> SUFFICES ASSUME causes' = {}, ~Step("idle"), NEW e \in (Exists \cap scope)'
               PROVE  (Given(e) \/ Held(e) \/ Above(e) \/ Below(e))'
    BY <1>2, <1>4 DEF SessionFits, Step
  <2>1. e \in Exists \cap scope /\ e \in Docs
    BY <1>2, <1>9 DEF Exists
  <2>2. Given(e) \/ Held(e) \/ Above(e) \/ Below(e)
    BY <1>2, <1>9, <2>1 DEF ConnectorsIInv, SessionFits
  <2> QED BY <1>2, <1>4, <1>10, <2>1, <2>2 DEF Held, Above, Below
<1>14. WatermarksMove'
  <2> SUFFICES ASSUME ~Step("idle")
               PROVE  WatermarksMove'
    BY <1>4 DEF WatermarksMove, Step
  <2>1. /\ \A i \in DOMAIN pass.hits : Outside(pass.since, pass.hits[i].at)
        /\ pass.since.newest <= pass.mark.newest
        /\ pass.since.newest # 0 => pass.mark.oldest <= pass.since.oldest
        /\ pass.mark = pass.since => pass.hits # <<>> \/ Remaining(pass.since) \subseteq pass.touched
    BY <1>2 DEF ConnectorsIInv, WatermarksMove
  <2>2. Remaining(pass.since)' \subseteq Remaining(pass.since) \cup (scope' \ scope)
    BY <1>2, <1>4 DEF Remaining, Exists, Outside
  <2>3. (\A i \in DOMAIN pass.hits : Outside(pass.since, pass.hits[i].at))'
    BY <1>2, <1>4, <2>1 DEF Outside
  <2> QED BY <1>4, <2>1, <2>2, <2>3 DEF WatermarksMove
<1> QED BY <1>5, <1>6, <1>7, <1>8, <1>11, <1>12, <1>13, <1>14 DEF ConnectorsIInv

-----------------------------------------------------------------------------
(* A pass over session files.                                              *)

\* What a pass takes: first what is newer than the cursor, newest first, then what
\* is older than it, newest first.
LEMMA SelectedFits ==
    ASSUME DocsFit, NEW m, NEW s, s = Selected(m)
    PROVE  /\ s \in Seq(Hit)
           /\ \A i \in DOMAIN s : \E d \in Fresh(m) \cup Backfill(m) : s[i] = HitOf(d)
           /\ s = <<>> => Fresh(m) = {} /\ Backfill(m) = {}
           /\ \A d \in Fresh(m) :
                 \/ \E i \in DOMAIN s : s[i] = HitOf(d)
                 \/ Cardinality(Fresh(m)) > Cap /\ \A i \in DOMAIN s : docs[d].at <= s[i].at
           /\ \A d \in Backfill(m) :
                 \/ \E i \in DOMAIN s : s[i] = HitOf(d)
                 \/ \A i \in DOMAIN s : s[i].doc \in Fresh(m) \/ docs[d].at <= s[i].at
<1> DEFINE F == NewestFirst(Fresh(m))
           B == NewestFirst(Backfill(m))
           f == Cardinality(Fresh(m))
           b == Cardinality(Backfill(m))
           both == F \o B
<1>1. Fresh(m) \in SUBSET Docs /\ Backfill(m) \in SUBSET Docs
  BY DEF Fresh, Backfill, Exists
<1>2. /\ F \in Seq(Hit) /\ Len(F) = f
      /\ \A i \in 1..f : \E d \in Fresh(m) : F[i] = HitOf(d)
      /\ \A d \in Fresh(m) : \E i \in 1..f : F[i] = HitOf(d)
      /\ \A i, j \in 1..f : i < j => F[j].at <= F[i].at
  BY <1>1, NewestFirstFits
<1>3. /\ B \in Seq(Hit) /\ Len(B) = b
      /\ \A i \in 1..b : \E d \in Backfill(m) : B[i] = HitOf(d)
      /\ \A d \in Backfill(m) : \E i \in 1..b : B[i] = HitOf(d)
      /\ \A i, j \in 1..b : i < j => B[j].at <= B[i].at
  BY <1>1, NewestFirstFits
<1>4. f \in Nat /\ b \in Nat
  BY <1>2, <1>3, LenProperties
<1>5. s = Slice(both, 0, Cap)
  BY DEF Selected
<1> HIDE DEF F, B, f, b
<1>6. /\ both \in Seq(Hit) /\ Len(both) = f + b
      /\ \A i \in 1..f : both[i] = F[i]
      /\ \A i \in (f + 1)..(f + b) : both[i] = B[i - f]
  <2>1. both \in Seq(Hit)
    BY <1>2, <1>3
  <2>2. /\ Len(both) = Len(F) + Len(B)
        /\ \A i \in 1..(Len(F) + Len(B)) : both[i] = IF i <= Len(F) THEN F[i] ELSE B[i - Len(F)]
    <3>1. ASSUME NEW u \in Seq(Hit), NEW v \in Seq(Hit)
          PROVE  /\ Len(u \o v) = Len(u) + Len(v)
                 /\ \A i \in 1..(Len(u) + Len(v)) :
                       (u \o v)[i] = IF i <= Len(u) THEN u[i] ELSE v[i - Len(u)]
      BY ConcatProperties
    <3> QED BY <1>2, <1>3, <3>1
  <2> HIDE DEF both
  <2>3. \A i \in 1..f : i \in 1..(f + b) /\ i <= f
    BY <1>4
  <2>4. \A i \in (f + 1)..(f + b) : i \in 1..(f + b) /\ ~(i <= f)
    BY <1>4
  <2> QED BY <1>2, <1>3, <2>1, <2>2, <2>3, <2>4
<1> HIDE DEF both
<1>7. /\ s \in Seq(Hit)
      /\ Len(s) = (IF Cap < f + b THEN Cap ELSE f + b)
      /\ \A i \in 1..Len(s) : s[i] = both[i]
  <2>1. 0 <= Len(both) /\ 0 \in Nat /\ Cap \in Nat
    BY <1>4, <1>6, BoundsFit
  <2>2. /\ Slice(both, 0, Cap) \in Seq(Hit)
        /\ Len(Slice(both, 0, Cap)) = (IF 0 + Cap < Len(both) THEN Cap ELSE Len(both) - 0)
        /\ \A i \in 1..Len(Slice(both, 0, Cap)) : Slice(both, 0, Cap)[i] = both[0 + i]
    BY <1>6, <2>1, SliceFits
  <2>3. \A i \in 1..Len(s) : 0 + i = i
    OBVIOUS
  <2> QED BY <1>4, <1>5, <1>6, <2>1, <2>2, <2>3
<1>8. DOMAIN s = 1..Len(s) /\ Len(s) \in Nat /\ Cap \in Nat /\ Cap > 0
  BY <1>7, LenProperties, BoundsFit
<1>9. ASSUME NEW i \in 1..Len(s)
      PROVE  \/ i \in 1..f /\ s[i] = F[i]
             \/ i - f \in 1..b /\ s[i] = B[i - f]
  <2>1. i \in 1..f \/ (i \in (f + 1)..(f + b) /\ i - f \in 1..b)
    BY <1>4, <1>7, <1>8
  <2> QED BY <1>6, <1>7, <2>1
<1>10. \A d \in Docs : docs[d].at \in Nat /\ HitOf(d).at = docs[d].at /\ HitOf(d).doc = d
  BY HitFits, BoundsFit DEF DocsFit
<1>11. \A i \in DOMAIN s : \E d \in Fresh(m) \cup Backfill(m) : s[i] = HitOf(d)
  BY <1>2, <1>3, <1>8, <1>9
<1>12. ASSUME s = <<>> PROVE Fresh(m) = {} /\ Backfill(m) = {}
  <2>1. Len(s) = 0
    BY <1>12
  <2>2. Len(s) = (IF Cap < f + b THEN Cap ELSE f + b)
    BY <1>7
  <2>3. f = 0 /\ b = 0
    BY <1>4, <1>8, <2>1, <2>2
  <2> QED BY <1>2, <1>3, <2>3
<1>13. ASSUME NEW d \in Fresh(m), ~ \E i \in DOMAIN s : s[i] = HitOf(d)
       PROVE  f > Cap /\ \A i \in DOMAIN s : docs[d].at <= s[i].at
  <2>1. PICK k \in 1..f : F[k] = HitOf(d)
    BY <1>2
  <2>2. k > Len(s)
    <3>1. k \in 1..Len(s) => s[k] = F[k]
      BY <1>6, <1>7, <2>1
    <3> QED BY <1>4, <1>8, <1>13, <2>1, <3>1
  <2>3. Len(s) = Cap /\ f > Cap
    BY <1>4, <1>7, <1>8, <2>1, <2>2
  <2>4. ASSUME NEW i \in DOMAIN s PROVE docs[d].at <= s[i].at
    <3>1. i \in 1..f /\ i < k /\ s[i] = F[i]
      BY <1>4, <1>6, <1>7, <1>8, <2>2, <2>3, <2>4
    <3>2. F[k].at <= F[i].at
      BY <1>2, <3>1
    <3> QED BY <1>1, <1>10, <2>1, <3>1, <3>2
  <2> QED BY <2>3, <2>4
<1>14. ASSUME NEW d \in Backfill(m), ~ \E i \in DOMAIN s : s[i] = HitOf(d)
       PROVE  \A i \in DOMAIN s : s[i].doc \in Fresh(m) \/ docs[d].at <= s[i].at
  <2>1. PICK k \in 1..b : B[k] = HitOf(d)
    BY <1>3
  <2>2. f + k > Len(s)
    <3>1. f + k \in (f + 1)..(f + b) /\ (f + k) - f = k
      BY <1>4, <2>1
    <3>2. f + k \in 1..Len(s) => s[f + k] = B[k]
      BY <1>6, <1>7, <3>1
    <3>3. f + k \notin 1..Len(s)
      BY <1>8, <1>14, <2>1, <3>2
    <3> QED BY <1>4, <1>8, <2>1, <3>3
  <2>3. ASSUME NEW i \in DOMAIN s, s[i].doc \notin Fresh(m) PROVE docs[d].at <= s[i].at
    <3>1. i \in 1..f => s[i] # F[i]
      BY <1>1, <1>2, <1>10, <2>3
    <3>2. i - f \in 1..b /\ s[i] = B[i - f]
      BY <1>8, <1>9, <3>1
    <3>3. i - f < k
      BY <1>4, <1>8, <2>1, <2>2
    <3>4. B[k].at <= B[i - f].at
      BY <1>3, <2>1, <3>2, <3>3
    <3> QED BY <1>1, <1>10, <2>1, <3>2, <3>4
  <2> QED BY <2>3
<1> QED BY <1>7, <1>11, <1>12, <1>13, <1>14 DEF f

\* A hit that says what a document says.
LEMMA CurrentHitFits ==
    ASSUME ConnectorsIInv, NEW d \in Docs, docs[d].at # 0, NEW h, h = HitOf(d)
    PROVE  /\ h \in Hit /\ h.doc = d /\ h.at = docs[d].at /\ 0 < h.at /\ h.at <= now
           /\ h.ver <= edits + MaxTime /\ h.res <= MaxTime
<1>1. DocsFit /\ docs[d].at \in Nat /\ docs[d].at <= now
  BY TypeFacts DEF ConnectorsIInv, ClockFits
<1>2. docs[d].ver <= edits + MaxTime /\ docs[d].res <= MaxTime
  BY DEF ConnectorsIInv, NumbersFit
<1> QED BY <1>1, <1>2, HitFits

LEMMA ScanStep ==
    ASSUME ConnectorsIInv, Scan
    PROVE  ConnectorsIInv'
<1> DEFINE s == Selected(cursor)
<1>1. /\ Step("idle") /\ kind = "session"
      /\ pass' = [NoPass EXCEPT !.step = IF s = <<>> THEN "deliver" ELSE "read", !.hits = s,
                              !.since = cursor, !.mark = cursor]
      /\ causes' = IF cursor.newest # 0 /\ Cardinality(Fresh(cursor)) > Cap
                   THEN causes \cup {"burst"} ELSE causes
      /\ UNCHANGED <<world, queued, saved, refused, failures>>
  BY DEF Scan
<1>2. /\ DocsFit /\ cursor \in Mark /\ cursor.newest \in Nat /\ cursor.oldest \in Nat
      /\ now \in Nat /\ \A d \in Docs : docs[d].at \in Nat
  BY TypeFacts DEF ConnectorsIInv
<1>3. /\ s \in Seq(Hit)
      /\ \A i \in DOMAIN s : \E d \in Fresh(cursor) \cup Backfill(cursor) : s[i] = HitOf(d)
      /\ s = <<>> => Fresh(cursor) = {} /\ Backfill(cursor) = {}
      /\ \A d \in Fresh(cursor) :
            \/ \E i \in DOMAIN s : s[i] = HitOf(d)
            \/ Cardinality(Fresh(cursor)) > Cap /\ \A i \in DOMAIN s : docs[d].at <= s[i].at
      /\ \A d \in Backfill(cursor) :
            \/ \E i \in DOMAIN s : s[i] = HitOf(d)
            \/ \A i \in DOMAIN s : s[i].doc \in Fresh(cursor) \/ docs[d].at <= s[i].at
  BY <1>2, SelectedFits
<1> HIDE DEF s
<1>4. /\ pass'.step = (IF s = <<>> THEN "deliver" ELSE "read") /\ pass'.hits = s
      /\ pass'.since = cursor /\ pass'.mark = cursor /\ pass'.start = 0
      /\ pass'.items = {} /\ pass'.touched = {} /\ pass' \in Pass
  BY <1>1, <1>2, <1>3, IdleType DEF NoPass, Pass
<1>5. \A d \in Fresh(cursor) \cup Backfill(cursor) : d \in Docs /\ docs[d].at # 0
  BY <1>2 DEF Fresh, Backfill, Exists
<1>6. ASSUME NEW i \in DOMAIN s
      PROVE  /\ 0 < s[i].at /\ s[i].at <= now
             /\ s[i].ver <= edits + MaxTime /\ s[i].res <= MaxTime
             /\ s[i].doc \in Fresh(cursor) \cup Backfill(cursor) /\ s[i] = HitOf(s[i].doc)
             /\ s[i].at = docs[s[i].doc].at
  BY <1>3, <1>5, CurrentHitFits
<1>7. ConnectorsTypeOK'
  BY <1>1, <1>4 DEF ConnectorsIInv, ConnectorsTypeOK, world, saved
<1>8. NumbersFit' /\ ClockFits'
  BY <1>1, <1>4, <1>6 DEF ConnectorsIInv, NumbersFit, ClockFits, world
<1>9. PassFits'
  BY <1>1, <1>4, <1>6 DEF ConnectorsIInv, PassFits, MarkFits, Step, Remote, world, saved
<1>10. CursorFits'
  <2>1. causes' = {} => causes = {}
    BY <1>1
  <2>2. causes = {} => \A d \in Exists \cap scope :
           cursor.newest # 0 /\ ~Outside(cursor, docs[d].at) => Given(d)
    BY DEF ConnectorsIInv, CursorFits, BetweenIsDone
  <2>3. \A d \in Docs : Given(d)' <=> Given(d)
    BY <1>1 DEF Given, ExternalId, world, saved
  <2> QED BY <1>1, <2>1, <2>2, <2>3 DEF CursorFits, BetweenIsDone, Exists, Outside, world, saved
<1>11. UploadsFit' /\ SearchFits'
  BY <1>1 DEF UploadsFit, UploadsAreKept, SearchFits, Remote, world
<1>12. SessionFits'
  <2> SUFFICES ASSUME causes' = {}, NEW d \in Exists \cap scope
               PROVE  (Given(d) \/ Held(d) \/ Above(d) \/ Below(d))'
    BY <1>1 DEF SessionFits, Exists, world
  <2>1. causes = {} /\ ~(cursor.newest # 0 /\ Cardinality(Fresh(cursor)) > Cap)
    BY <1>1
  <2>2. d \in Docs /\ docs[d].at # 0
    BY <1>2 DEF Exists
  <2>3. ASSUME NEW i \in DOMAIN s, s[i] = HitOf(d)
        PROVE  Held(d)'
    <3>1. s[i].doc = d
      BY <2>3 DEF HitOf
    <3> QED BY <1>4, <3>1 DEF Held
  <2>4. ASSUME ~ \E i \in DOMAIN s : s[i] = HitOf(d)
        PROVE  \A i \in DOMAIN s : docs[d].at # s[i].at
    <3>1. SUFFICES ASSUME NEW i \in DOMAIN s, docs[d].at = s[i].at PROVE FALSE
      OBVIOUS
    <3>2. s[i].doc # d /\ s[i].doc \in Docs /\ docs[s[i].doc].at = docs[d].at
      BY <1>5, <1>6, <2>4, <3>1
    <3> QED BY <1>1, <2>1, <2>2, <3>2 DEF ConnectorsIInv, ClockFits
  <2>5. MarkFits(cursor)
    BY DEF ConnectorsIInv, PassFits
  <2>6. \A i \in DOMAIN s : s[i].at \in Nat
    BY <1>2, <1>5, <1>6
  <2>7. CASE d \in Fresh(cursor) /\ ~ \E i \in DOMAIN s : s[i] = HitOf(d)
    <3>1. Cardinality(Fresh(cursor)) > Cap /\ \A i \in DOMAIN s : docs[d].at <= s[i].at
      BY <1>3, <2>7
    <3>2. cursor.newest = 0
      BY <2>1, <3>1
    <3>3. \A i \in DOMAIN s : docs[d].at < s[i].at
      BY <1>2, <2>2, <2>4, <2>6, <2>7, <3>1
    <3>4. Below(d)'
      BY <1>1, <1>4, <3>2, <3>3 DEF Below, world
    <3> QED BY <3>4
  <2>8. CASE d \in Backfill(cursor) /\ ~ \E i \in DOMAIN s : s[i] = HitOf(d)
    <3>1. docs[d].at < cursor.oldest /\ cursor.oldest <= cursor.newest /\ cursor.newest # 0
      BY <1>1, <1>2, <2>5, <2>8 DEF Backfill, MarkFits
    <3>2. ASSUME NEW i \in DOMAIN s PROVE docs[d].at < s[i].at
      <4>1. CASE s[i].doc \in Fresh(cursor)
        <5>1. docs[s[i].doc].at > cursor.newest /\ docs[s[i].doc].at \in Nat
          BY <1>2, <1>5, <3>1, <4>1 DEF Fresh
        <5> QED BY <1>2, <1>6, <2>2, <3>1, <5>1
      <4>2. CASE s[i].doc \notin Fresh(cursor)
        BY <1>2, <1>3, <2>2, <2>4, <2>6, <2>8, <4>2
      <4> QED BY <4>1, <4>2
    <3>3. Below(d)'
      BY <1>1, <1>4, <3>1, <3>2 DEF Below, world
    <3> QED BY <3>3
  <2>9. CASE d \notin Fresh(cursor) /\ d \notin Backfill(cursor)
    <3>1. cursor.newest # 0 /\ ~Outside(cursor, docs[d].at)
      BY <1>1, <2>9 DEF Fresh, Backfill, Outside
    <3>2. Given(d)
      BY <2>1, <3>1 DEF ConnectorsIInv, CursorFits, BetweenIsDone
    <3>3. Given(d)'
      BY <1>1, <3>2 DEF Given, ExternalId, world, saved
    <3> QED BY <3>3
  <2> QED BY <2>3, <2>7, <2>8, <2>9
<1>13. WatermarksMove'
  <2>1. \A d \in Fresh(cursor) \cup Backfill(cursor) : Outside(cursor, docs[d].at)
    BY <1>1 DEF Fresh, Backfill, Outside
  <2>2. (\A i \in DOMAIN pass.hits : Outside(pass.since, pass.hits[i].at))'
    BY <1>1, <1>4, <1>6, <2>1 DEF Outside, world
  <2>3. Remaining(cursor) \subseteq Fresh(cursor) \cup Backfill(cursor)
    BY <1>1 DEF Remaining, Outside, Fresh, Backfill
  <2>4. Remaining(pass.since)' = Remaining(cursor)
    BY <1>1, <1>4 DEF Remaining, Exists, Outside, world
  <2>5. (pass.hits # <<>> \/ Remaining(pass.since) \subseteq pass.touched)'
    BY <1>3, <1>4, <2>3, <2>4
  <2>6. (pass.since.newest <= pass.mark.newest /\ pass.mark.oldest <= pass.since.oldest)'
    BY <1>2, <1>4
  <2> QED BY <2>2, <2>5, <2>6 DEF WatermarksMove
<1> QED BY <1>7, <1>8, <1>9, <1>10, <1>11, <1>12, <1>13 DEF ConnectorsIInv

LEMMA ReadStep ==
    ASSUME ConnectorsIInv, Read
    PROVE  ConnectorsIInv'
<1> DEFINE h == Head(pass.hits)
           id == ExternalId(kind, h.doc, docs[h.doc])
           new == IF HasDigest(h.doc) THEN {id} ELSE {}
           m == Cover(pass.mark, h.at)
           rest == Tail(pass.hits)
           next == IF rest = <<>> THEN "deliver" ELSE "read"
<1>1. /\ Step("read") /\ UNCHANGED <<world, queued, saved, refused, causes, failures>>
      /\ kind = "session" /\ ~Step("idle")
  BY DEF Read, ConnectorsIInv, PassFits, Step
<1>2. /\ pass \in Pass /\ pass.hits \in Seq(Hit) /\ pass.hits # <<>>
      /\ pass.mark \in Mark /\ pass.since \in Mark /\ MarkFits(pass.mark) /\ now \in Nat
      /\ pass.items \subseteq Ids /\ pass.since = cursor
      /\ pass.mark.newest \in Nat /\ pass.mark.oldest \in Nat
      /\ pass.since.newest \in Nat /\ pass.since.oldest \in Nat
  BY <1>1, TypeFacts DEF ConnectorsIInv, ConnectorsTypeOK, PassFits, Step
<1>3. /\ rest \in Seq(Hit) /\ Len(rest) = Len(pass.hits) - 1
      /\ \A i \in 1..Len(rest) : rest[i] = pass.hits[i + 1]
      /\ DOMAIN rest = 1..Len(rest) /\ DOMAIN pass.hits = 1..Len(pass.hits)
      /\ Len(rest) \in Nat /\ Len(pass.hits) \in Nat
      /\ h = pass.hits[1] /\ 1 \in DOMAIN pass.hits
  BY <1>2, HeadTailProperties, LenProperties
<1>4. id \in Ids /\ h.doc \in Docs /\ id = <<h.doc, 0>>
  BY <1>1, HeadFits DEF Step, ExternalId
<1>5. \A i \in DOMAIN pass.hits :
         /\ 0 < pass.hits[i].at /\ pass.hits[i].at <= now
         /\ pass.hits[i].ver <= edits + MaxTime /\ pass.hits[i].res <= MaxTime
         /\ pass.hits[i].at \in Nat /\ pass.hits[i].at \in Times
  BY TypeFacts DEF ConnectorsIInv, PassFits, NumbersFit
<1>6. /\ m \in Mark /\ MarkFits(m)
      /\ m.newest \in Nat /\ m.oldest \in Nat
      /\ pass.mark.newest <= m.newest /\ h.at <= m.newest
      /\ m.newest \in {pass.mark.newest, h.at}
      /\ m.oldest = (IF pass.mark.newest # 0 /\ pass.mark.oldest <= h.at THEN pass.mark.oldest ELSE h.at)
      /\ 0 < h.at /\ h.at \in Nat
  <2>1. h.at \in Times /\ 0 < h.at /\ h.at <= now /\ h.at \in Nat
    BY <1>3, <1>5
  <2>2. /\ Cover(pass.mark, h.at) \in Mark /\ MarkFits(Cover(pass.mark, h.at))
        /\ pass.mark.newest <= Cover(pass.mark, h.at).newest
        /\ h.at <= Cover(pass.mark, h.at).newest
        /\ Cover(pass.mark, h.at).newest \in {pass.mark.newest, h.at}
        /\ Cover(pass.mark, h.at).oldest =
              (IF pass.mark.newest # 0 /\ pass.mark.oldest <= h.at THEN pass.mark.oldest ELSE h.at)
    BY <1>1, <1>2, <2>1, CoverFits
  <2>3. Cover(pass.mark, h.at).newest \in Nat /\ Cover(pass.mark, h.at).oldest \in Nat
    BY <2>2, BoundsFit DEF Mark
  <2> QED BY <2>1, <2>2, <2>3
<1>7. pass' = [pass EXCEPT !.step = next, !.hits = rest, !.mark = m, !.items = pass.items \cup new]
  BY <1>2 DEF Read, Looked, Pass
<1>8. \A i \in DOMAIN rest : i + 1 \in DOMAIN pass.hits /\ rest[i] = pass.hits[i + 1]
  BY <1>3
<1> HIDE DEF m, rest, id, h
<1>9. /\ pass' \in Pass /\ pass'.step = next /\ pass'.hits = rest /\ pass'.since = pass.since
      /\ pass'.mark = m /\ pass'.start = pass.start /\ pass'.items = pass.items \cup new
      /\ pass'.touched = pass.touched
  BY <1>2, <1>3, <1>4, <1>6, <1>7 DEF Pass
<1>10. ConnectorsTypeOK'
  BY <1>1, <1>9 DEF ConnectorsIInv, ConnectorsTypeOK, world, saved
<1>11. \A i \in DOMAIN pass'.hits :
          /\ 0 < pass'.hits[i].at /\ pass'.hits[i].at <= now
          /\ pass'.hits[i].ver <= edits + MaxTime /\ pass'.hits[i].res <= MaxTime
  BY <1>5, <1>8, <1>9
<1>12. NumbersFit' /\ ClockFits'
  BY <1>1, <1>9, <1>11 DEF ConnectorsIInv, NumbersFit, ClockFits, world
<1>13. PassFits'
  <2>1. pass'.step \in {"read", "deliver"}
    BY <1>9
  <2>2. pass'.step = "read" => pass'.hits # <<>>
    BY <1>9
  <2>3. pass'.step = "deliver" => pass'.hits = <<>>
    BY <1>9
  <2> QED BY <1>1, <1>2, <1>6, <1>9, <1>11, <2>1, <2>2, <2>3
          DEF ConnectorsIInv, PassFits, MarkFits, Step, Remote, world, saved
<1>14. CursorFits' /\ UploadsFit' /\ SearchFits'
  <2>1. CursorFits' /\ UploadsFit'
    BY <1>1, CursorKept, UploadsKept DEF saved
  <2> QED BY <1>1, <2>1 DEF SearchFits, Remote, world
<1>15. SessionFits'
  <2> SUFFICES ASSUME causes = {}, NEW d \in Exists \cap scope
               PROVE  (Given(d) \/ Held(d) \/ Above(d) \/ Below(d))'
    BY <1>1 DEF SessionFits, Exists, world
  <2>1. Given(d) \/ Held(d) \/ Above(d) \/ Below(d)
    BY <1>1 DEF ConnectorsIInv, SessionFits
  <2>2. Given(d)' <=> Given(d)
    BY <1>1 DEF Given, ExternalId, world, saved
  <2>3. d \in Docs /\ docs[d].at \in Nat
    BY TypeFacts DEF ConnectorsIInv, Exists
  <2>4. CASE Held(d)
    <3>1. CASE <<d, 0>> \in pass.items
      BY <1>9, <3>1 DEF Held
    <3>2. CASE \E i \in DOMAIN pass.hits : pass.hits[i].doc = d
      <4>1. PICK i \in DOMAIN pass.hits : pass.hits[i].doc = d
        BY <3>2
      <4>2. CASE i = 1
        <5>1. h.doc = d
          BY <1>3, <4>1, <4>2 DEF h
        <5>2. d \in Blank \/ <<d, 0>> \in new
          BY <1>4, <5>1 DEF HasDigest
        <5> QED BY <1>9, <2>2, <5>2 DEF Held, Given
      <4>3. CASE i # 1
        <5>1. i - 1 \in 1..Len(rest) /\ (i - 1) + 1 = i
          BY <1>3, <4>3 DEF rest
        <5>2. i - 1 \in DOMAIN rest /\ rest[i - 1] = pass.hits[i]
          BY <1>3, <5>1 DEF rest
        <5> QED BY <1>9, <4>1, <5>2 DEF Held
      <4> QED BY <4>2, <4>3
    <3> QED BY <2>4, <3>1, <3>2 DEF Held
  <2>5. CASE Above(d)
    <3>1. pass.mark.newest < docs[d].at /\ \A i \in DOMAIN pass.hits : pass.hits[i].at < docs[d].at
      BY <2>5 DEF Above
    <3>2. h.at < docs[d].at
      BY <1>3, <3>1 DEF h
    <3>3. m.newest < docs[d].at
      BY <1>6, <3>1, <3>2
    <3>4. \A i \in DOMAIN rest : rest[i].at < docs[d].at
      BY <1>8, <3>1 DEF rest
    <3> QED BY <1>1, <1>9, <3>3, <3>4 DEF Above, world
  <2>6. CASE Below(d)
    <3>1. /\ pass.mark.newest # 0 => docs[d].at < pass.mark.oldest
          /\ \A i \in DOMAIN pass.hits : docs[d].at < pass.hits[i].at
      BY <2>6 DEF Below
    <3>2. docs[d].at < h.at
      BY <1>3, <3>1 DEF h
    <3>3. docs[d].at < m.oldest
      BY <1>6, <3>1, <3>2
    <3>4. \A i \in DOMAIN rest : docs[d].at < rest[i].at
      BY <1>8, <3>1 DEF rest
    <3> QED BY <1>1, <1>9, <3>3, <3>4 DEF Below, world
  <2> QED BY <2>1, <2>2, <2>4, <2>5, <2>6
<1>16. WatermarksMove'
  <2>1. /\ \A i \in DOMAIN pass.hits : Outside(pass.since, pass.hits[i].at)
        /\ pass.since.newest <= pass.mark.newest
        /\ pass.since.newest # 0 => pass.mark.oldest <= pass.since.oldest
    BY <1>1 DEF ConnectorsIInv, WatermarksMove
  <2>2. (\A i \in DOMAIN pass.hits : Outside(pass.since, pass.hits[i].at))'
    BY <1>1, <1>8, <1>9, <2>1 DEF Outside, world, rest
  <2>3. pass.since.newest <= m.newest
    BY <1>2, <1>6, <2>1
  <2>4. m.oldest <= h.at /\ (pass.since.newest # 0 => m.oldest <= pass.since.oldest)
    BY <1>2, <1>6, <2>1
  <2>5. Outside(pass.since, h.at)
    BY <1>3, <2>1 DEF h
  <2>6. m # pass.since
    <3>1. CASE pass.since.newest = 0
      BY <1>6, <3>1
    <3>2. CASE h.at > pass.since.newest
      BY <1>2, <1>6, <3>2
    <3>3. CASE pass.since.oldest # 0 /\ h.at < pass.since.oldest
      BY <1>2, <1>6, <2>4, <3>3
    <3> QED BY <2>5, <3>1, <3>2, <3>3 DEF Outside
  <2> QED BY <1>9, <2>2, <2>3, <2>4, <2>6 DEF WatermarksMove
<1> QED BY <1>10, <1>12, <1>13, <1>14, <1>15, <1>16 DEF ConnectorsIInv

-----------------------------------------------------------------------------
(* The end of a pass.                                                      *)

\* When a search has been looked through up to the mark, what the mark passes was
\* collected.
LEMMA SearchedIsDone ==
    ASSUME ConnectorsIInv, Step("deliver"), kind \in Remote, causes = {},
           NEW d \in Exists, pass.mark.newest # 0, docs[d].at <= pass.mark.newest
    PROVE  Given(d) \/ ExternalId(kind, d, docs[d]) \in pass.items
<1>1. /\ ~Step("idle") /\ kind # "session" /\ scope = Docs /\ pass.since = cursor
      /\ pass.mark.newest \in Nat /\ pass.since.newest \in Nat /\ pass.start \in Nat
      /\ Len(pass.hits) \in Nat
      /\ d \in Docs /\ docs[d].at \in Nat /\ docs[d].at # 0
  BY TypeFacts DEF ConnectorsIInv, PassFits, Step, Remote, Exists
<1>2. /\ Len(pass.hits) <= pass.start /\ pass.start <= Len(All)
      /\ \A i \in 1..Passed :
            Behind(All[i]) \/ (Advanced /\ All[i].at <= pass.mark.newest /\ Kept(All[i]))
      /\ Advanced \/ pass.mark.newest = pass.since.newest
      /\ pass.mark.newest = pass.since.newest \/ \E i \in 1..Passed : All[i].at = pass.mark.newest
  BY <1>1 DEF ConnectorsIInv, SearchFits
<1>3. CASE docs[d].at <= pass.since.newest /\ pass.since.newest # 0
  <2>1. ~Outside(cursor, docs[d].at) /\ cursor.newest # 0
    BY <1>1, <1>3 DEF Outside
  <2> QED BY <1>1, <2>1 DEF ConnectorsIInv, CursorFits, BetweenIsDone
<1>4. CASE pass.since.newest = 0 \/ docs[d].at > pass.since.newest
  <2>1. d \in InWindow(pass.since)
    BY <1>1, <1>4, BoundsFit DEF InWindow
  <2>2. /\ Len(All) \in Nat
        /\ \A i, j \in 1..Len(All) : i < j => All[i].at <= All[j].at
        /\ \A i \in 1..Len(All) :
              All[i].doc \in Docs /\ All[i] = HitOf(All[i].doc) /\ All[i].at \in Nat
    BY AllFits
  <2>3. PICK j \in 1..Len(All) : All[j] = HitOf(d)
    BY <2>1, AllFits
  <2>4. All[j].at = docs[d].at /\ All[j].doc = d
    BY <2>3 DEF HitOf
  <2>5. Passed \in Nat /\ Passed <= Len(All)
    <3>1. Passed = pass.start - Len(pass.hits)
      BY DEF Passed
    <3> QED BY <1>1, <1>2, <2>2, <3>1
  <2>6. \E i \in 1..Passed : All[i] = HitOf(d)
    <3>1. pass.mark.newest # pass.since.newest
      BY <1>1, <1>4
    <3>2. PICK i \in 1..Passed : All[i].at = pass.mark.newest
      BY <1>2, <3>1
    <3>3. i \in 1..Len(All)
      BY <2>2, <2>5
    <3>4. CASE j <= Passed
      BY <2>3, <2>5, <3>4
    <3>5. CASE ~(j <= Passed)
      <4>1. All[i].at <= All[j].at
        BY <2>2, <2>5, <3>3, <3>5
      <4>2. All[i].at = docs[d].at
        BY <1>1, <2>4, <3>2, <4>1
      <4>3. docs[All[i].doc].at = docs[d].at /\ All[i].doc \in Docs
        <5>1. All[i] = HitOf(All[i].doc) /\ All[i].doc \in Docs
          BY <2>2, <3>3
        <5>2. HitOf(All[i].doc).at = docs[All[i].doc].at
          BY DEF HitOf
        <5> QED BY <4>2, <5>1, <5>2
      <4>4. All[i].doc = d
        BY <1>1, <4>3 DEF ConnectorsIInv, ClockFits, Remote
      <4> QED BY <2>2, <3>3, <4>4
    <3> QED BY <3>4, <3>5
  <2>7. PICK i \in 1..Passed : All[i] = HitOf(d)
    BY <2>6
  <2>8. ~Behind(All[i])
    BY <1>1, <1>4, <2>7 DEF Behind, HitOf
  <2>9. Kept(HitOf(d))
    BY <1>2, <2>7, <2>8
  <2>10. ExternalId(kind, d, HitOf(d)) = ExternalId(kind, d, docs[d]) /\ HitOf(d).doc = d
    BY DEF ExternalId, HitOf
  <2> QED BY <2>9, <2>10 DEF Kept, Given
<1> QED BY <1>1, <1>3, <1>4

\* When the files of a pass were read, what lies between the watermarks is done.
LEMMA ReadIsDone ==
    ASSUME ConnectorsIInv, Step("deliver"), kind = "session", causes = {},
           NEW d \in Exists \cap scope, pass.mark.newest # 0, ~Outside(pass.mark, docs[d].at)
    PROVE  Given(d) \/ ExternalId(kind, d, docs[d]) \in pass.items
<1>1. ~Step("idle") /\ pass.hits = <<>>
  BY DEF ConnectorsIInv, PassFits, Step, Remote
<1>2. Given(d) \/ Held(d) \/ Above(d) \/ Below(d)
  BY <1>1 DEF ConnectorsIInv, SessionFits
<1>3. /\ d \in Docs /\ docs[d].at \in Nat
      /\ pass.mark.newest \in Nat /\ pass.mark.oldest \in Nat /\ MarkFits(pass.mark)
  BY TypeFacts DEF ConnectorsIInv, PassFits, Exists
<1>4. ~Above(d)
  BY <1>3 DEF Above, Outside
<1>5. ~Below(d)
  BY <1>3 DEF Below, Outside
<1>6. Held(d) => <<d, 0>> \in pass.items
  BY <1>1 DEF Held
<1>7. ExternalId(kind, d, docs[d]) = <<d, 0>>
  BY DEF ExternalId
<1> QED BY <1>2, <1>4, <1>5, <1>6, <1>7

LEMMA DeliverStep ==
    ASSUME ConnectorsIInv, Deliver
    PROVE  ConnectorsIInv'
<1>1. /\ Step("deliver") /\ seen' = seen \cup pass.items /\ cursor' = pass.mark /\ pass' = NoPass
      /\ UNCHANGED <<world, queued, refused, causes, failures>>
  BY DEF Deliver
<1>2. /\ pass.mark \in Mark /\ MarkFits(pass.mark) /\ pass.items \subseteq Ids
      /\ (kind = "file" => pass.mark.newest = 0)
      /\ kind \in AllKinds
  BY TypeFacts DEF ConnectorsIInv, PassFits, MarkFits
<1>3. ConnectorsTypeOK'
  BY <1>1, <1>2, IdleType DEF ConnectorsIInv, ConnectorsTypeOK, world
<1>4. NumbersFit' /\ ClockFits'
  BY <1>1, IdleType DEF ConnectorsIInv, NumbersFit, ClockFits, world
<1>5. PassFits'
  BY <1>1, <1>2, IdlePassFits
<1>6. \A d \in Docs :
         /\ ExternalId(kind, d, docs[d])' = ExternalId(kind, d, docs[d])
         /\ Given(d) \/ ExternalId(kind, d, docs[d]) \in pass.items => Given(d)'
  BY <1>1 DEF Given, ExternalId, world
<1>7. CursorFits'
  <2> SUFFICES ASSUME causes = {}, NEW d \in Exists \cap scope,
                      pass.mark.newest # 0, ~Outside(pass.mark, docs[d].at)
               PROVE  Given(d)'
    BY <1>1 DEF CursorFits, BetweenIsDone, Exists, Outside, world
  <2>1. CASE kind = "session"
    BY <1>1, <1>6, <2>1, ReadIsDone DEF Exists
  <2>2. CASE kind \in Remote
    <3>1. docs[d].at <= pass.mark.newest
      <4>1. docs[d].at \in Nat /\ pass.mark.newest \in Nat
        BY TypeFacts DEF ConnectorsIInv, Exists
      <4> QED BY <4>1 DEF Outside
    <3> QED BY <1>1, <1>6, <2>2, <3>1, SearchedIsDone DEF Exists
  <2> QED BY <1>2, <2>1, <2>2 DEF AllKinds, Remote
<1>8. UploadsFit'
  <2> SUFFICES ASSUME "forgotten" \notin causes, kind = "file", NEW d \in Exists
               PROVE  (d \in queued \/ Given(d))'
    BY <1>1 DEF UploadsFit, UploadsAreKept, Exists, world
  <2>1. d \in queued \/ Given(d) \/ ExternalId(kind, d, docs[d]) \in pass.items
    BY DEF ConnectorsIInv, UploadsFit, UploadsAreKept
  <2> QED BY <1>1, <1>6, <2>1 DEF Exists
<1> QED BY <1>1, <1>3, <1>4, <1>5, <1>7, <1>8, NoPassFits DEF ConnectorsIInv

-----------------------------------------------------------------------------
(* The theorems.                                                           *)

\* The latest of some times is one of them.
LEMMA MaxFits ==
    ASSUME NEW S \in SUBSET Nat, NEW s \in S, NEW bound \in Nat, \A x \in S : x <= bound
    PROVE  Max(S) \in S /\ \A x \in S : x <= Max(S)
<1> DEFINE U == {n \in Nat : \A x \in S : x <= n}
<1>1. bound \in U
  OBVIOUS
<1>2. PICK n \in U : \A k \in U : ~(<<k, n>> \in OpToRel(<, Nat))
  BY <1>1, NatLessThanWellFounded, WFMin
<1>3. n \in S
  <2>1. SUFFICES ASSUME n \notin S PROVE FALSE
    OBVIOUS
  <2>2. s <= n /\ s # n /\ s \in Nat
    BY <2>1
  <2>3. n - 1 \in Nat /\ n - 1 < n
    BY <2>2
  <2>4. \A x \in S : x <= n - 1
    BY <2>1
  <2>5. n - 1 \in U /\ <<n - 1, n>> \in OpToRel(<, Nat)
    BY <2>3, <2>4 DEF OpToRel
  <2> QED BY <1>2, <2>5
<1>4. \A x \in S : n >= x
  BY <1>2
<1> QED BY <1>3, <1>4 DEF Max

\* Nothing was looked at yet.
LEMMA InitFits ==
    ASSUME ConnectorsInit
    PROVE  ConnectorsIInv
<1>1. PICK at \in Initially :
         /\ kind = "file" => \A d \in Docs : at[d] = 0
         /\ docs = [d \in Docs |-> [at |-> at[d], ver |-> IF at[d] = 0 THEN 0 ELSE 1, res |-> 0]]
         /\ now = Max({at[d] : d \in Docs})
         /\ causes = IF \E d, e \in Docs : d # e /\ at[d] = at[e] /\ at[d] > 0 THEN {"tie"} ELSE {}
  BY DEF ConnectorsInit
<1>2. /\ kind \in Kinds /\ scope = Docs /\ queued = {} /\ cursor = NoMark
      /\ seen = {} /\ refused = {} /\ pass = NoPass /\ edits = 0 /\ failures = 0
  BY DEF ConnectorsInit
<1>3. /\ MaxTime \in Nat /\ 1 <= MaxTime /\ MaxEdits \in Nat /\ Docs # {}
      /\ at \in [Docs -> 0..MaxTime] /\ Times = 0..MaxTime
  BY BoundsFit, ConnectorsAssumption DEF ConnectorsAssumption, Times
<1>4. \A d \in Docs : at[d] \in Times /\ at[d] \in Nat /\ at[d] <= MaxTime
  BY <1>3
<1>5. docs \in [Docs -> [at : Times, ver : Nat, res : Nat]]
  BY <1>1, <1>4
<1>6. \A d \in Docs : docs[d].at = at[d] /\ docs[d].ver <= 1 /\ docs[d].res = 0 /\ docs[d].ver \in Nat
  BY <1>1
<1>7. now \in {at[d] : d \in Docs} /\ \A d \in Docs : at[d] <= now
  <2> DEFINE S == {at[d] : d \in Docs}
  <2>1. S \in SUBSET Nat /\ \A x \in S : x <= MaxTime
    BY <1>4
  <2>2. PICK s : s \in S
    BY <1>3
  <2> HIDE DEF S
  <2>3. Max(S) \in S /\ \A x \in S : x <= Max(S)
    BY <1>3, <2>1, <2>2, MaxFits
  <2> QED BY <1>1, <2>3 DEF S
<1>8. ConnectorsTypeOK
  <2>1. now \in Times
    BY <1>4, <1>7
  <2>2. NoMark \in Mark
    BY BoundsFit DEF NoMark, Mark
  <2> QED BY <1>1, <1>2, <1>5, <2>1, <2>2, IdleType DEF ConnectorsTypeOK
<1>9. NumbersFit
  <2>1. \A d \in Docs : docs[d].ver <= 0 + MaxTime /\ docs[d].res <= MaxTime
    BY <1>3, <1>6
  <2>2. DOMAIN pass.hits = {} /\ edits <= MaxEdits
    BY <1>2, <1>3, IdleType
  <2> QED BY <1>2, <2>1, <2>2 DEF NumbersFit
<1>10. ClockFits
  <2>1. \E d \in Docs : docs[d].at = now
    BY <1>6, <1>7
  <2>2. kind = "file" => now = 0
    BY <1>1, <1>7
  <2>3. ASSUME "tie" \notin causes, NEW d \in Docs, NEW e \in Docs, d # e, docs[d].at = docs[e].at
        PROVE  docs[d].at = 0
    BY <1>1, <1>4, <1>6, <2>3
  <2> QED BY <1>6, <1>7, <2>1, <2>2, <2>3 DEF ClockFits
<1>11. PassFits
  <2>1. MarkFits(NoMark)
    <3>1. now \in Nat
      BY <1>4, <1>7
    <3> QED BY <3>1 DEF MarkFits, NoMark
  <2>2. /\ pass.step = "idle" /\ pass.hits = <<>> /\ pass.mark = NoMark
    BY <1>2 DEF NoPass
  <2> QED BY <1>2, <2>1, <2>2 DEF PassFits, Step
<1>12. CursorFits
  BY <1>2 DEF CursorFits, BetweenIsDone, NoMark
<1>13. UploadsFit
  BY <1>1, <1>6 DEF UploadsFit, UploadsAreKept, Exists
<1>14. SearchFits /\ SessionFits /\ WatermarksMove
  BY <1>2 DEF SearchFits, SessionFits, WatermarksMove, Step, NoPass
<1> QED BY <1>8, <1>9, <1>10, <1>11, <1>12, <1>13, <1>14 DEF ConnectorsIInv

LEMMA StutterStep ==
    ASSUME ConnectorsIInv, UNCHANGED connectorVars
    PROVE  ConnectorsIInv'
<1>1. /\ UNCHANGED <<kind, docs, now, scope, queued, cursor, seen, pass, refused, causes, edits, failures>>
      /\ UNCHANGED world
  BY DEF connectorVars, world, saved
<1>2. ConnectorsTypeOK' /\ NumbersFit' /\ ClockFits'
  BY <1>1 DEF ConnectorsIInv, ConnectorsTypeOK, NumbersFit, ClockFits
<1>3. PassFits'
  BY <1>1 DEF ConnectorsIInv, PassFits, MarkFits, Step
<1>4. CursorFits' /\ UploadsFit'
  BY <1>1, CursorKept, UploadsKept
<1>5. SearchFits'
  BY <1>1, AllKept DEF ConnectorsIInv, SearchFits, Step, Passed, Behind, Advanced, Kept, ExternalId
<1>6. SessionFits'
  BY <1>1 DEF ConnectorsIInv, SessionFits, Step, Exists, Given, ExternalId, Held, Above, Below
<1>7. WatermarksMove'
  BY <1>1 DEF ConnectorsIInv, WatermarksMove, Step, Outside, Remaining, Exists
<1> QED BY <1>2, <1>3, <1>4, <1>5, <1>6, <1>7 DEF ConnectorsIInv

\* The invariant of the proofs holds in every state.
THEOREM ConnectorsInductive == ConnectorsSpec => []ConnectorsIInv
<1>1. ConnectorsInit => ConnectorsIInv
  BY InitFits
<1>2. ConnectorsIInv /\ [ConnectorsNext]_connectorVars => ConnectorsIInv'
  <2> SUFFICES ASSUME ConnectorsIInv, [ConnectorsNext]_connectorVars
               PROVE  ConnectorsIInv'
    OBVIOUS
  <2>1. CASE Begin
    BY <2>1, BeginStep
  <2>2. CASE Scan
    BY <2>2, ScanStep
  <2>3. CASE TakePaths
    BY <2>3, TakePathsStep
  <2>4. CASE Search
    BY <2>4, SearchStep
  <2>5. CASE SkipHit
    BY <2>5, SkipHitStep
  <2>6. CASE TakeIssue
    BY <2>6, TakeIssueStep
  <2>7. CASE TakePage
    BY <2>7, TakePageStep
  <2>8. CASE PageRefused
    BY <2>8, PageRefusedStep
  <2>9. CASE TakeNotionPage
    BY <2>9, TakeNotionPageStep
  <2>10. CASE Read
    BY <2>10, ReadStep
  <2>11. CASE Deliver
    BY <2>11, DeliverStep
  <2>12. CASE Fails
    BY <2>12, FailsStep
  <2>13. CASE Edit
    BY <2>13, EditStep
  <2>14. CASE Upload
    BY <2>14, UploadStep
  <2>15. CASE Configure
    BY <2>15, ConfigureStep
  <2>16. CASE UNCHANGED connectorVars
    BY <2>16, StutterStep
  <2> QED BY <2>1, <2>2, <2>3, <2>4, <2>5, <2>6, <2>7, <2>8, <2>9, <2>10, <2>11, <2>12, <2>13,
             <2>14, <2>15, <2>16 DEF ConnectorsNext, Advance
<1> QED BY <1>1, <1>2, PTL DEF ConnectorsSpec

\* Every variable holds a value of its type, however the connectors, the source and
\* the owner take turns.
THEOREM ConnectorsTyped == ConnectorsSpec => []ConnectorsTypeOK
<1>1. ConnectorsIInv => ConnectorsTypeOK
  BY DEF ConnectorsIInv
<1> QED BY <1>1, ConnectorsInductive, PTL

\* Unless documents change at the same instant or while a search is paged through, a
\* burst exceeds the cap or roots are added, whatever the saved cursor has passed was
\* collected, refused or empty, and no uploaded path is forgotten (the searches of
\* atlassian.rs and notion.rs, the watermarks of session.rs, FileConnector).
THEOREM GaplessCursor == ConnectorsSpec => []CursorLeavesNothing
<1>1. ConnectorsIInv => CursorLeavesNothing
  BY DEF ConnectorsIInv, CursorFits, UploadsFit, CursorLeavesNothing
<1> QED BY <1>1, ConnectorsInductive, PTL

\* A pass of a remote source or of session files that returns the cursor it was given
\* has seen everything there was: trigger_all, which stops then, stops in time.
THEOREM QuietPasses == ConnectorsSpec => QuietMeansDone
<1> DEFINE Quiet == Deliver /\ kind # "file" /\ pass.mark = pass.since /\ "moved" \notin causes =>
                        Remaining(cursor') \subseteq pass.touched
<1>1. ASSUME ConnectorsIInv, Deliver, kind # "file", pass.mark = pass.since, "moved" \notin causes
      PROVE  Remaining(cursor') \subseteq pass.touched
  <2>1. cursor' = pass.since /\ Step("deliver") /\ ~Step("idle")
    BY <1>1 DEF Deliver, Step
  <2>2. CASE kind = "session"
    <3>1. pass.hits = <<>>
      BY <1>1, <2>1, <2>2 DEF ConnectorsIInv, PassFits, Remote
    <3>2. Remaining(pass.since) \subseteq pass.touched
      BY <1>1, <2>1, <2>2, <3>1 DEF ConnectorsIInv, WatermarksMove
    <3> QED BY <2>1, <3>2
  <2>3. CASE kind \in Remote
    <3>1. /\ pass.since.newest \in Nat /\ pass.start \in Nat /\ Len(pass.hits) \in Nat
          /\ \A d \in Docs : docs[d].at \in Nat
      BY <1>1, TypeFacts DEF ConnectorsIInv
    <3>2. ~Advanced
      BY <1>1, <3>1 DEF Advanced
    <3>3. /\ \A i \in 1..Passed : Behind(All[i])
          /\ Passed = Len(All)
      BY <1>1, <2>1, <2>3, <3>2 DEF ConnectorsIInv, SearchFits
    <3>4. ASSUME NEW d \in Remaining(pass.since) PROVE FALSE
      <4>1. d \in Docs /\ d \in Exists /\ Outside(pass.since, docs[d].at)
        BY DEF Remaining, Exists
      <4>2. pass.since.newest = 0 \/ docs[d].at > pass.since.newest
        BY <2>3, <4>1 DEF Outside, Remote
      <4>3. d \in InWindow(pass.since)
        BY <3>1, <4>1, <4>2, BoundsFit DEF InWindow
      <4>4. PICK j \in 1..Len(All) : All[j] = HitOf(d)
        BY <1>1, <4>3, AllFits
      <4>5. Behind(HitOf(d))
        BY <3>3, <4>4
      <4>6. pass.since.newest # 0 /\ docs[d].at <= pass.since.newest
        BY <4>5 DEF Behind, HitOf
      <4> QED BY <3>1, <4>1, <4>2, <4>6
    <3> QED BY <2>1, <3>4
  <2> QED BY <1>1, <2>2, <2>3, TypeFacts DEF ConnectorsIInv, AllKinds, Remote
<1>2. ConnectorsIInv /\ [ConnectorsNext]_connectorVars => [Quiet]_connectorVars
  BY <1>1
<1> QED BY <1>2, ConnectorsInductive, PTL DEF ConnectorsSpec, QuietMeansDone

-----------------------------------------------------------------------------
(***************************************************************************)
(* Part two: Processing.                                                   *)
(***************************************************************************)

(* The masker.                                                             *)

\* There are finitely many tokens, and no placeholder is any other token.
LEMMA TokensAreFinite ==
    /\ Cardinality(Names) \in Nat
    /\ Placeholder \subseteq Nat
    /\ Names \cap Placeholder = {} /\ Words \cap Placeholder = {}
    /\ Fragment \notin Placeholder /\ None \notin Token
    /\ IsFiniteSet(Token)
<1>1. Cardinality(Names) \in Nat
  BY FS_CardinalityType, ProcessingAssumption DEF ProcessingAssumption
<1>2. Placeholder \subseteq Nat
  BY <1>1 DEF Placeholder
<1>3. /\ Names \cap Placeholder = {} /\ Words \cap Placeholder = {}
      /\ Fragment \notin Placeholder /\ None \notin Token
  BY <1>2, ProcessingAssumption DEF ProcessingAssumption, Token
<1>4. IsFiniteSet(Placeholder)
  BY <1>1, FS_Interval DEF Placeholder
<1>5. IsFiniteSet(Names \cup Words)
  BY FS_Union, ProcessingAssumption DEF ProcessingAssumption
<1>6. IsFiniteSet((Names \cup Words) \cup Placeholder)
  BY <1>4, <1>5, FS_Union
<1>7. IsFiniteSet(Token)
  BY <1>6, FS_AddElement DEF Token
<1> QED BY <1>1, <1>2, <1>3, <1>7

\* An identifier of a text gets one of the placeholders there are.
LEMMA NumberIsPlaceholder ==
    ASSUME NEW T, NEW text \in Seq(T), NEW t \in Identifiers(text)
    PROVE  NumberOf(text, t) \in Placeholder
<1> DEFINE S == {u \in Identifiers(text) : Before(text, u, t)}
<1>1. t \in Names /\ S \subseteq Names
  BY DEF Identifiers
<1>2. t \notin S
  <2> SUFFICES ASSUME Before(text, t, t) PROVE FALSE
    OBVIOUS
  <2> PICK i \in DOMAIN text : text[i] = t /\ \A j \in 1..i : text[j] # t
    BY DEF Before
  <2> QED OBVIOUS
<1>3. IsFiniteSet(Names) /\ IsFiniteSet(S)
  BY <1>1, FS_Subset, ProcessingAssumption DEF ProcessingAssumption
<1>4. Cardinality(S) \in Nat /\ Cardinality(S \cup {t}) = Cardinality(S) + 1
  BY <1>2, <1>3, FS_AddElement, FS_CardinalityType
<1>5. S \cup {t} \in SUBSET Names
  BY <1>1
<1>6. Cardinality(S \cup {t}) <= Cardinality(Names)
  BY <1>3, <1>5, FS_Subset
<1>7. 1 + Cardinality(S) \in 1..Cardinality(Names)
  BY <1>4, <1>6, TokensAreFinite
<1> QED BY <1>7 DEF NumberOf, Placeholder

\* A placeholder of a text restores to an identifier of that text.
LEMMA MapRestores ==
    ASSUME NEW T, NEW text \in Seq(T), NEW t \in Identifiers(text)
    PROVE  /\ MapOf(text) \in UnmaskMap
           /\ NumberOf(text, t) \in DOMAIN MapOf(text)
           /\ \A n \in DOMAIN MapOf(text) : MapOf(text)[n] \in Identifiers(text)
<1> DEFINE P == {NumberOf(text, u) : u \in Identifiers(text)}
           Of(n) == CHOOSE u \in Identifiers(text) : NumberOf(text, u) = n
<1>1. P \in SUBSET Placeholder
  BY NumberIsPlaceholder
<1>2. ASSUME NEW n \in P PROVE Of(n) \in Identifiers(text)
  <2> \E u \in Identifiers(text) : NumberOf(text, u) = n
    OBVIOUS
  <2> QED OBVIOUS
<1>3. MapOf(text) = [n \in P |-> Of(n)]
  BY DEF MapOf
<1>4. MapOf(text) \in [P -> Names]
  BY <1>2, <1>3 DEF Identifiers
<1>5. NumberOf(text, t) \in P
  OBVIOUS
<1> HIDE DEF P, Of
<1>6. DOMAIN MapOf(text) = P /\ \A n \in P : MapOf(text)[n] = Of(n)
  BY <1>3
<1>7. \A n \in DOMAIN MapOf(text) : MapOf(text)[n] \in Identifiers(text)
  BY <1>2, <1>6
<1> QED BY <1>1, <1>4, <1>5, <1>6, <1>7 DEF UnmaskMap

\* The same for a text without identifiers, whose map is empty.
LEMMA MapFits ==
    ASSUME NEW T, NEW text \in Seq(T)
    PROVE  /\ MapOf(text) \in UnmaskMap
           /\ \A n \in DOMAIN MapOf(text) : MapOf(text)[n] \in Identifiers(text)
<1>1. CASE Identifiers(text) # {}
  BY <1>1, MapRestores
<1>2. CASE Identifiers(text) = {}
  <2>1. {NumberOf(text, u) : u \in Identifiers(text)} = {}
    BY <1>2
  <2>2. MapOf(text) \in [{} -> Names] /\ DOMAIN MapOf(text) = {}
    BY <2>1 DEF MapOf
  <2> QED BY <2>2 DEF UnmaskMap
<1> QED BY <1>1, <1>2

\* masker.rs, "completeness": what is masked holds no identifier.
LEMMA MaskedIsClear ==
    ASSUME NEW T, NEW text \in Seq(T), T \subseteq Token
    PROVE  Mask(text) \subseteq Token \ Names
<1> SUFFICES ASSUME NEW t \in ToSet(text)
             PROVE  (IF t \in Names THEN NumberOf(text, t) ELSE t) \in Token \ Names
  BY DEF Mask
<1>1. CASE t \in Names
  <2>1. NumberOf(text, t) \in Placeholder
    BY <1>1, NumberIsPlaceholder DEF Identifiers
  <2> QED BY <1>1, <2>1, TokensAreFinite DEF Token
<1>2. CASE t \notin Names
  BY <1>2 DEF ToSet
<1> QED BY <1>1, <1>2

\* masker.rs, "round-trip": what is masked restores to tokens of the text.
LEMMA MaskedRestores ==
    ASSUME NEW text \in Seq(Names \cup Words), NEW m \in Mask(text)
    PROVE  Unmask(m, MapOf(text)) \in ToSet(text)
<1> PICK t \in ToSet(text) : m = IF t \in Names THEN NumberOf(text, t) ELSE t
  BY DEF Mask
<1>1. CASE t \in Names
  BY <1>1, MapRestores DEF Unmask, Identifiers
<1>2. CASE t \notin Names
  <2>1. t \in Words
    BY <1>2 DEF ToSet
  <2>2. DOMAIN MapOf(text) \subseteq Placeholder
    BY MapFits DEF UnmaskMap
  <2> QED BY <1>2, <2>1, <2>2, TokensAreFinite DEF Unmask
<1> QED BY <1>1, <1>2

\* A set of positions has a first one.
LEMMA FirstPosition ==
    ASSUME NEW n \in Nat, NEW I \in SUBSET (1..n), I # {}
    PROVE  \E m \in I : \A i \in I : m <= i
<1> DEFINE T == {1..i : i \in I}
<1>1. IsFiniteSet(1..n)
  BY FS_Interval
<1>2. T \subseteq FiniteSubsetsOf(1..n)
  <2> SUFFICES ASSUME NEW i \in I PROVE 1..i \in FiniteSubsetsOf(1..n)
    OBVIOUS
  <2>1. 1..i \in SUBSET (1..n)
    OBVIOUS
  <2> QED BY <1>1, <2>1, FS_Subset DEF FiniteSubsetsOf
<1>3. IsWellFoundedOn(StrictSubsetOrdering(1..n), FiniteSubsetsOf(1..n))
  BY FS_StrictSubsetOrderingWellFounded
<1>4. T # {}
  OBVIOUS
<1> HIDE DEF T
<1>5. PICK x \in T : \A y \in T : <<y, x>> \notin StrictSubsetOrdering(1..n)
  BY <1>2, <1>3, <1>4, WFMin
<1> USE DEF T
<1>6. PICK m \in I : x = 1..m
  OBVIOUS
<1>7. ASSUME NEW i \in I, i < m PROVE FALSE
  <2>1. 1..i \in T /\ 1..i \subseteq 1..m /\ m \notin 1..i /\ m \in 1..m
    BY <1>7
  <2>2. 1..i \in SUBSET (1..n) /\ 1..m \in SUBSET (1..n)
    OBVIOUS
  <2>3. <<1..i, 1..m>> \in StrictSubsetOrdering(1..n)
    BY <2>1, <2>2 DEF StrictSubsetOrdering
  <2> QED BY <1>5, <1>6, <2>1, <2>3
<1> QED BY <1>7

\* Of two identifiers of a text one appears first, and that one has the lower number.
LEMMA NumbersDiffer ==
    ASSUME NEW T, NEW text \in Seq(T),
           NEW t \in Identifiers(text), NEW u \in Identifiers(text), t # u
    PROVE  NumberOf(text, t) # NumberOf(text, u)
<1> DEFINE S(w) == {v \in Identifiers(text) : Before(text, v, w)}
<1>1. ASSUME NEW a \in Identifiers(text), NEW b \in Identifiers(text), Before(text, a, b)
      PROVE  NumberOf(text, a) # NumberOf(text, b)
  <2>1. PICK i \in DOMAIN text : text[i] = a /\ \A j \in 1..i : text[j] # b
    BY <1>1 DEF Before
  <2>2. a \in S(b)
    BY <1>1
  <2>3. a \notin S(a)
    <3> SUFFICES ASSUME Before(text, a, a) PROVE FALSE
      OBVIOUS
    <3> PICK k \in DOMAIN text : text[k] = a /\ \A j \in 1..k : text[j] # a
      BY DEF Before
    <3> QED OBVIOUS
  <2>4. ASSUME NEW v \in S(a) PROVE v \in S(b)
    <3>1. PICK k \in DOMAIN text : text[k] = v /\ \A j \in 1..k : text[j] # a
      BY DEF Before
    <3>2. k < i
      BY <2>1, <3>1
    <3>3. \A j \in 1..k : text[j] # b
      BY <2>1, <3>2
    <3> QED BY <3>1, <3>3 DEF Before
  <2>5. IsFiniteSet(S(b))
    <3>1. S(b) \in SUBSET Names
      BY DEF Identifiers
    <3> QED BY <3>1, FS_Subset, ProcessingAssumption DEF ProcessingAssumption
  <2>6. S(a) \in SUBSET S(b) /\ S(a) # S(b)
    BY <2>2, <2>3, <2>4
  <2> HIDE DEF S
  <2>7. Cardinality(S(a)) # Cardinality(S(b)) /\ IsFiniteSet(S(a))
    BY <2>5, <2>6, FS_Subset
  <2>8. Cardinality(S(a)) \in Nat /\ Cardinality(S(b)) \in Nat
    BY <2>5, <2>7, FS_CardinalityType
  <2>9. 1 + Cardinality(S(a)) # 1 + Cardinality(S(b))
    BY <2>7, <2>8
  <2> QED BY <2>9 DEF NumberOf, S
<1>2. Before(text, t, u) \/ Before(text, u, t)
  <2> DEFINE I == {i \in DOMAIN text : text[i] \in {t, u}}
  <2>1. Len(text) \in Nat /\ DOMAIN text = 1..Len(text)
    OBVIOUS
  <2>2. I # {} /\ I \in SUBSET (1..Len(text))
    BY <2>1 DEF Identifiers, ToSet
  <2> HIDE DEF I
  <2>3. PICK m \in I : \A i \in I : m <= i
    BY <2>1, <2>2, FirstPosition
  <2> USE DEF I
  <2>4. \A j \in 1..(m - 1) : text[j] \notin {t, u}
    BY <2>1, <2>3
  <2>5. CASE text[m] = t
    <3>1. \A j \in 1..m : text[j] # u
      BY <2>1, <2>4, <2>5
    <3> QED BY <2>5, <3>1 DEF Before
  <2>6. CASE text[m] = u
    <3>1. \A j \in 1..m : text[j] # t
      BY <2>1, <2>4, <2>6
    <3> QED BY <2>6, <3>1 DEF Before
  <2> QED BY <2>5, <2>6
<1> QED BY <1>1, <1>2

\* masker.rs:5, "unmask(mask(x)) == x": every token of a text comes back as itself.
THEOREM RoundTrip ==
    ASSUME NEW text \in Seq(Names \cup Words), NEW t \in ToSet(text)
    PROVE  LET m == IF t \in Names THEN NumberOf(text, t) ELSE t
           IN  m \in Mask(text) /\ Unmask(m, MapOf(text)) = t
<1>1. CASE t \in Names
  <2> DEFINE n == NumberOf(text, t)
  <2>1. t \in Identifiers(text)
    BY <1>1 DEF Identifiers
  <2>2. \A u \in Identifiers(text) : NumberOf(text, u) = n => u = t
    BY <2>1, NumbersDiffer
  <2>3. (CHOOSE u \in Identifiers(text) : NumberOf(text, u) = n) = t
    BY <2>1, <2>2
  <2>4. n \in DOMAIN MapOf(text) /\ MapOf(text)[n] = t
    BY <2>1, <2>3 DEF MapOf
  <2> QED BY <1>1, <2>4 DEF Mask, Unmask
<1>2. CASE t \notin Names
  <2>1. t \in Words
    BY <1>2 DEF ToSet
  <2>2. DOMAIN MapOf(text) \subseteq Placeholder
    BY MapFits DEF UnmaskMap
  <2> QED BY <1>2, <2>1, <2>2, TokensAreFinite DEF Unmask, Mask
<1> QED BY <1>1, <1>2

\* Listing a finite set leaves nothing out and adds nothing.
LEMMA ListsTheSet ==
    ASSUME NEW S, IsFiniteSet(S)
    PROVE  SetToSeq(S) \in Seq(S)
<1>1. Cardinality(S) \in Nat /\ ExistsBijection(1..Cardinality(S), S)
  BY FS_CardinalityType
<1>2. PICK f \in Bijection(1..Cardinality(S), S) : TRUE
  BY <1>1 DEF ExistsBijection
<1>3. f \in [1..Cardinality(S) -> S] /\ IsInjective(f)
  BY <1>2 DEF Bijection, Injection, IsInjective
<1>4. SetToSeq(S) \in [1..Cardinality(S) -> S]
  BY <1>3 DEF SetToSeq
<1> QED BY <1>1, <1>4

\* known_titles: what is shown along with a text are titles that hold no identifier.
LEMMA HintsAreShown ==
    ASSUME NEW Q, NEW K, NEW hint \in Hints(Q, K)
    PROVE  hint \subseteq (Q \cup K) \ Names
BY DEF Hints, Shown, kSubset

-----------------------------------------------------------------------------
(* The inductive invariant. A call is described apart from the variables:  *)
(* done is what was filed so far, checked says that the backend rejects an *)
(* answer that is cut off or empty.                                        *)

Checked == provider # "anthropic"

\* A token that may be filed from an item: no placeholder, no name of another item.
Fileable(item, t) == t \notin Placeholder /\ (t \in Names => t \in ToSet(TextOf[item]))

\* A token the model is shown for an item, or answers with.
Fits(c, t, checked) ==
    /\ t \in Token
    /\ Fileable(c.item, Unmask(t, c.map))
    /\ c.item \notin Images => t \notin Names
    /\ checked => t # Fragment

Restored(c, S) == {Unmask(t, c.map) : t \in S}

Classifies(c) == c.op = "classify" /\ c.step \in {"count", "put", "ask"}

\* Which operation is under way at which step, and for what.
StepFits(c) ==
    /\ c.step = "known" => c.op \in {"none", "vision"} /\ c.item \in Items
    /\ c.step = "context" => c.item \in Questions
    /\ c.step \in {"count", "put"} => c.op \in {"vision", "summarize", "classify"} /\ c.item \in Items
    /\ c.step = "ask" => \/ c.op \in {"vision", "summarize", "classify"} /\ c.item \in Items
                         \/ c.op = "chat" /\ c.item \in Questions
    /\ c.step = "topics" => c.op = "summarize" /\ c.item \in Items
    /\ c.step = "file" => c.op = "classify" /\ c.item \in Items /\ c.to # "none"
    /\ c.step = "idle" => c.op = "none"

\* What the model is given and what it answered.
TextFits(c, done, checked) ==
    /\ c.known \subseteq done
    /\ c.op = "vision" /\ c.step = "ask" => c.item \in Images
    /\ c.item \in Items => \A t \in c.masked : Fits(c, t, checked)
    /\ c.op = "summarize" => \A t \in c.input : Fits(c, t, checked)
    /\ c.op = "classify" \/ c.step = "topics" => \A t \in c.entries : Fits(c, t, checked)
    /\ Classifies(c) => Fits(c, c.entry, checked) /\ c.input = {c.entry} \cup c.vocab
    /\ c.step = "file" =>
         /\ c.entry \in Token /\ Fileable(c.item, c.entry) /\ (checked => c.entry # Fragment)
         /\ \A t \in c.input \cap Names : t \in c.vocab \/ (c.item \in Images /\ t = c.entry)
    /\ c.op = "chat" => c.input \cap Names = {}

\* No entry has gone missing: it is filed, in hand, or still to come.
EntriesFit(c, done) ==
    /\ Classifies(c) => c.all \subseteq done \cup Restored(c, c.entries \cup {c.entry})
    /\ c.step = "topics" => c.all \subseteq done \cup Restored(c, c.entries)
    /\ c.step = "file" => c.all \subseteq done \cup Restored(c, c.entries) \cup {c.entry}

CallFits(c, done, checked) ==
    /\ c \in Call
    /\ StepFits(c)
    /\ TextFits(c, done, checked)
    /\ EntriesFit(c, done)

CallsFit == \A p \in Callers : CallFits(call[p], filed, Checked)

\* What is stored was filed, and it is whole.
StoresFit ==
    /\ Titles(facts \cup queue) \subseteq filed
    /\ NamesAreItsOwn
    /\ AnswersAreFiled

\* As long as no two appends overlapped, a key is the place of its record in the log.
LogFits ==
    /\ IsFiniteSet(log)
    /\ ~tied =>
         /\ \A r \in log : r.key < Cardinality(log)
         /\ \A p \in Callers : At(p, "put") => call[p].key = Cardinality(log)
         /\ \A p, q \in Callers : At(p, "put") /\ At(q, "put") => p = q
    /\ SentIsLogged

\* The identifiers among the topics, and among those a call was shown, are known from
\* an image.
TopicsFit ==
    /\ topics \cap Names \subseteq Pictured
    /\ \A p \in Callers : call[p].vocab \cap Names \subseteq Pictured

IInv == TypeOK /\ CallsFit /\ StoresFit /\ TopicsFit /\ LogFits

-----------------------------------------------------------------------------
(* What the steps have in common.                                          *)

LEMMA IdleFits == ASSUME NEW done, NEW checked PROVE CallFits(Idle, done, checked)
<1>1. {} \in SUBSET Placeholder /\ <<>> \in [{} -> Names]
  OBVIOUS
<1>2. Idle \in Call
  <2>1. <<>> \in UnmaskMap
    BY <1>1 DEF UnmaskMap
  <2> QED BY <2>1, ProcessingAssumption DEF ProcessingAssumption, Idle, Call
<1> QED BY <1>2 DEF Idle, CallFits, StepFits, TextFits, EntriesFit, Classifies

LEMMA AttemptsAreCounted == MaxAttempts \in Nat \ {0} /\ MaxAttempts \in 0..MaxAttempts
<1> MaxAttempts \in Nat \ {0}
  BY ProcessingAssumption DEF ProcessingAssumption
<1> QED OBVIOUS

LEMMA BeginsWell == Init => IInv
<1> SUFFICES ASSUME Init PROVE IInv
  OBVIOUS
<1> USE DEF Init
<1>1. TypeOK
  <2>1. Idle \in Call
    BY IdleFits DEF CallFits
  <2> QED BY <2>1 DEF TypeOK
<1>2. CallsFit
  BY IdleFits DEF CallsFit
<1>3. StoresFit
  BY DEF StoresFit, Titles, NamesAreItsOwn, AnswersAreFiled, EntriesAreFiled, WholeAnswersOnly
<1>4. LogFits
  BY FS_EmptySet DEF LogFits, At, Idle, SentIsLogged, Sends
<1>5. TopicsFit
  BY DEF TopicsFit, Idle
<1> QED BY <1>1, <1>2, <1>3, <1>4, <1>5 DEF IInv

\* What was filed only grows, and that disturbs no call.
LEMMA FiledGrows ==
    ASSUME NEW c, NEW done, NEW more, NEW checked, done \subseteq more, CallFits(c, done, checked)
    PROVE  CallFits(c, more, checked)
BY DEF CallFits, TextFits, EntriesFit

\* One call moves on, the others stay where they are.
LEMMA OneCallMoves ==
    ASSUME IInv, NEW p \in Callers, NEW c, Become(p, c),
           provider' = provider, filed \subseteq filed', CallFits(c, filed', Checked)
    PROVE  call' \in [Callers -> Call] /\ CallsFit'
<1>1. Checked' = Checked
  BY DEF Checked
<1>2. call' = [call EXCEPT ![p] = c] /\ call \in [Callers -> Call] /\ c \in Call
  BY DEF Become, IInv, TypeOK, CallFits
<1>3. ASSUME NEW q \in Callers PROVE CallFits(call'[q], filed', Checked)
  <2>1. CASE q = p
    BY <1>2, <2>1
  <2>2. CASE q # p
    <3>1. CallFits(call[q], filed, Checked) /\ call'[q] = call[q]
      BY <1>2, <2>2 DEF IInv, CallsFit
    <3> QED BY <3>1, FiledGrows
  <2> QED BY <2>1, <2>2
<1> QED BY <1>1, <1>2, <1>3 DEF CallsFit

\* The log is left alone.
LEMMA LogKeeps ==
    ASSUME IInv, NEW p \in Callers, NEW c, Become(p, c), UNCHANGED <<log, tied>>,
           c.step # "put",
           c.step = "ask" => c.op \in {"vision", "chat"} \/ tied \/ Record(c) \in log
    PROVE  LogFits'
<1>1. call' = [call EXCEPT ![p] = c] /\ call \in [Callers -> Call]
  BY DEF Become, IInv, TypeOK
<1>2. call'[p] = c /\ \A q \in Callers : q # p => call'[q] = call[q]
  BY <1>1
<1>3. \A q \in Callers : call'[q].step = "put" => q # p /\ At(q, "put")
  BY <1>2 DEF At
<1>4. SentIsLogged'
  <2> SUFFICES ASSUME NEW q \in Callers, Sends(q)', call'[q].op # "chat", ~tied
               PROVE  Record(call'[q]) \in log
    BY DEF SentIsLogged, Record
  <2>1. CASE q = p
    BY <1>2, <2>1 DEF Sends, At
  <2>2. CASE q # p
    BY <1>2, <2>2 DEF Sends, At, IInv, LogFits, SentIsLogged
  <2> QED BY <2>1, <2>2
<1> QED BY <1>2, <1>3, <1>4 DEF IInv, LogFits, At

\* Nothing is filed, stored or set aside.
LEMMA StoresKeep ==
    ASSUME IInv, UNCHANGED <<provider, facts, queue, found, filed, silent>>
    PROVE  StoresFit'
BY DEF IInv, StoresFit, Titles, NamesAreItsOwn, AnswersAreFiled, EntriesAreFiled, WholeAnswersOnly

\* Nothing filed is taken back, no topic is added, and the call that moves was shown
\* topics there are, or what it was shown before.
LEMMA TopicsKeep ==
    ASSUME IInv, NEW p \in Callers, NEW c, Become(p, c),
           facts \cup queue \subseteq facts' \cup queue', topics' = topics,
           c.vocab \subseteq call[p].vocab \cup topics
    PROVE  TopicsFit'
<1>1. Pictured \subseteq Pictured'
  BY DEF Pictured, Titles
<1>2. call'[p] = c /\ \A q \in Callers : q # p => call'[q] = call[q]
  BY DEF Become, IInv, TypeOK
<1>3. /\ topics \cap Names \subseteq Pictured
      /\ \A q \in Callers : call[q].vocab \cap Names \subseteq Pictured
  BY DEF IInv, TopicsFit
<1>4. c.vocab \cap Names \subseteq Pictured'
  BY <1>1, <1>3
<1>5. ASSUME NEW q \in Callers PROVE call'[q].vocab \cap Names \subseteq Pictured'
  <2>1. CASE q = p
    BY <1>2, <1>4, <2>1
  <2>2. CASE q # p
    BY <1>1, <1>2, <1>3, <2>2
  <2> QED BY <2>1, <2>2
<1> QED BY <1>1, <1>3, <1>5 DEF TopicsFit

\* A step that only moves a call on.
LEMMA QuietStep ==
    ASSUME IInv, NEW p \in Callers, NEW c, Become(p, c),
           UNCHANGED <<provider, facts, topics, queue, log, found, filed, silent, tied>>,
           parked' \subseteq Items, given' \subseteq Items \cup Questions, faults' \in Nat,
           CallFits(c, filed, Checked), c.step # "put",
           c.vocab \subseteq call[p].vocab \cup topics,
           c.step = "ask" => c.op \in {"vision", "chat"} \/ tied \/ Record(c) \in log
    PROVE  IInv'
<1>1. call' \in [Callers -> Call] /\ CallsFit'
  BY OneCallMoves
<1>2. StoresFit' /\ LogFits'
  BY StoresKeep, LogKeeps
<1>3. TypeOK'
  BY <1>1 DEF IInv, TypeOK
<1>4. TopicsFit'
  BY TopicsKeep
<1> QED BY <1>1, <1>2, <1>3, <1>4 DEF IInv

LEMMA CallIs ==
    ASSUME IInv, NEW p \in Callers
    PROVE  CallFits(call[p], filed, Checked) /\ call[p] \in Call
BY DEF IInv, CallsFit, TypeOK

\* What fits one call fits any other about the same text.
LEMMA FitsAlike ==
    ASSUME NEW c, NEW d, c.item = d.item, c.map = d.map
    PROVE  /\ \A t, checked : Fits(c, t, checked) <=> Fits(d, t, checked)
           /\ \A S : Restored(c, S) = Restored(d, S)
BY DEF Fits, Restored, Unmask

\* A call goes on with what it has in hand: recording, and then asking.
LEMMA GoesOn ==
    ASSUME NEW c, NEW d \in Call, NEW done, NEW checked, CallFits(c, done, checked),
           d.op = c.op, d.item = c.item, d.map = c.map, d.known = c.known,
           d.masked = c.masked, d.input = c.input, d.entries = c.entries,
           d.entry = c.entry, d.all = c.all, d.vocab = c.vocab,
           c.step \in {"count", "put", "ask"}, d.step \in {"put", "ask"},
           c.op = "vision" /\ d.step = "ask" => c.step = "ask",
           d.op = "chat" => d.step = "ask"
    PROVE  CallFits(d, done, checked)
<1>1. StepFits(d)
  BY DEF CallFits, StepFits
<1>2. \A t : Fits(c, t, checked) <=> Fits(d, t, checked)
  BY FitsAlike
<1>3. \A S : Restored(c, S) = Restored(d, S)
  BY FitsAlike
<1>4. Classifies(d) => Classifies(c)
  BY DEF Classifies
<1>5. TextFits(d, done, checked)
  BY <1>2, <1>4 DEF CallFits, TextFits
<1>6. EntriesFit(d, done)
  BY <1>3, <1>4 DEF CallFits, EntriesFit
<1> QED BY <1>1, <1>5, <1>6 DEF CallFits

\* Every call can be given up.
LEMMA ParksStep ==
    ASSUME IInv, NEW p \in Callers, Parks(p), faults' \in Nat,
           UNCHANGED <<provider, facts, topics, queue, log, given, observers>>
    PROVE  IInv'
<1>1. parked' \subseteq Items /\ Become(p, Idle)
  BY DEF Parks, IInv, TypeOK
<1>2. CallFits(Idle, filed, Checked) /\ Idle.step = "idle" /\ Idle.vocab = {}
  BY IdleFits DEF Idle
<1> QED BY <1>1, <1>2, QuietStep DEF observers, IInv, TypeOK

-----------------------------------------------------------------------------
(* Every action keeps the invariant.                                       *)

LEMMA BeginItemStep == ASSUME IInv, NEW p \in Callers, BeginItem(p) PROVE IInv'
<1> PICK i \in Items \ given :
        /\ given' = given \cup {i}
        /\ Become(p, IF i \in Images THEN Asking([Idle EXCEPT !.op = "vision", !.item = i])
                     ELSE [Idle EXCEPT !.step = "known", !.item = i,
                                       !.masked = Mask(TextOf[i]), !.map = MapOf(TextOf[i])])
        /\ UNCHANGED <<provider, stores, observers, faults>>
  BY DEF BeginItem
<1>0. TextOf[i] \in Seq(Names \cup Words)
  BY ProcessingAssumption DEF ProcessingAssumption
<1>1. given' \subseteq Items \cup Questions
  BY DEF IInv, TypeOK
<1>2. CASE i \in Images
  <2> DEFINE c == Asking([Idle EXCEPT !.op = "vision", !.item = i])
  <2>1. c = [Idle EXCEPT !.op = "vision", !.item = i, !.step = "ask", !.tries = MaxAttempts]
    BY DEF Asking, Idle
  <2>2. Idle \in Call
    BY IdleFits DEF CallFits
  <2>3. c \in Call
    <3>1. i \in Items /\ MaxAttempts \in 0..MaxAttempts
      BY AttemptsAreCounted
    <3> QED BY <2>1, <2>2, <3>1 DEF Call
  <2>6. Become(p, c)
    BY <1>2
  <2> HIDE DEF c
  <2>5. /\ c.step = "ask" /\ c.op = "vision" /\ c.item = i /\ c.known = {}
        /\ c.masked = {} /\ c.vocab = {}
    BY <2>1 DEF Idle
  <2>4. CallFits(c, filed, Checked)
    BY <1>2, <2>3, <2>5 DEF CallFits, StepFits, TextFits, EntriesFit, Classifies
  <2> QED BY <1>1, <2>4, <2>5, <2>6, QuietStep DEF stores, observers, IInv, TypeOK
<1>3. CASE i \notin Images
  <2> DEFINE c == [Idle EXCEPT !.step = "known", !.item = i,
                               !.masked = Mask(TextOf[i]), !.map = MapOf(TextOf[i])]
  <2>1. /\ c.step = "known" /\ c.op = "none" /\ c.item = i /\ c.known = {} /\ c.entry = None
        /\ c.masked = Mask(TextOf[i]) /\ c.map = MapOf(TextOf[i]) /\ c.vocab = {}
    BY DEF Idle
  <2>2. Mask(TextOf[i]) \subseteq Token \ Names
    BY <1>0, MaskedIsClear DEF Token
  <2>3. MapOf(TextOf[i]) \in UnmaskMap
    BY <1>0, MapFits
  <2>4. c \in Call
    <3>1. Idle \in Call
      BY IdleFits DEF CallFits
    <3> QED BY <2>2, <2>3, <3>1 DEF Call
  <2>5. Become(p, c)
    BY <1>3
  <2> HIDE DEF c
  <2>6. ASSUME NEW t \in c.masked PROVE Fits(c, t, Checked)
    <3>1. Unmask(t, c.map) \in ToSet(TextOf[i])
      BY <1>0, <2>1, MaskedRestores
    <3>2. ToSet(TextOf[i]) \subseteq Names \cup Words
      BY <1>0 DEF ToSet
    <3>3. Fileable(c.item, Unmask(t, c.map))
      BY <2>1, <3>1, <3>2, TokensAreFinite DEF Fileable
    <3>4. t # Fragment
      <4> PICK u \in ToSet(TextOf[i]) : t = IF u \in Names THEN NumberOf(TextOf[i], u) ELSE u
        BY <2>1 DEF Mask
      <4>1. CASE u \in Names
        <5>1. NumberOf(TextOf[i], u) \in Placeholder
          BY <1>0, <4>1, NumberIsPlaceholder DEF Identifiers
        <5> QED BY <4>1, <5>1, TokensAreFinite
      <4>2. CASE u \notin Names
        BY <3>2, <4>2, ProcessingAssumption DEF ProcessingAssumption
      <4> QED BY <4>1, <4>2
    <3> QED BY <2>1, <2>2, <3>3, <3>4 DEF Fits
  <2>7. CallFits(c, filed, Checked)
    BY <2>1, <2>4, <2>6 DEF CallFits, StepFits, TextFits, EntriesFit, Classifies
  <2> QED BY <1>1, <2>1, <2>5, <2>7, QuietStep DEF stores, observers, IInv, TypeOK
<1> QED BY <1>2, <1>3

LEMMA ReadKnownStep == ASSUME IInv, NEW p \in Callers, ReadKnown(p) PROVE IInv'
<1> DEFINE c == call[p]
<1> PICK known \in {Titles(facts), {}}, questions \in {Asked, {}} :
        /\ faults' = faults + (IF known = Titles(facts) /\ questions = Asked THEN 0 ELSE 1)
        /\ \E hint \in Hints(questions, known) :
              Become(p, Recording([c EXCEPT !.known = known], "summarize", c.masked \cup hint))
        /\ At(p, "known")
        /\ UNCHANGED <<provider, stores, given, observers>>
  BY DEF ReadKnown
<1> PICK hint \in Hints(questions, known) :
        Become(p, Recording([c EXCEPT !.known = known], "summarize", c.masked \cup hint))
  OBVIOUS
<1> DEFINE d == Recording([c EXCEPT !.known = known], "summarize", c.masked \cup hint)
<1>1. CallFits(c, filed, Checked) /\ c \in Call /\ c.step = "known" /\ c.item \in Items
  BY CallIs DEF At, CallFits, StepFits
<1>2. hint \subseteq (questions \cup known) \ Names
  BY HintsAreShown
<1>3. questions \cup known \subseteq Titles(facts \cup queue)
  BY DEF Asked, Titles
<1>4. known \subseteq filed /\ known \subseteq Token /\ hint \subseteq Token
  BY <1>2, <1>3 DEF IInv, StoresFit, TypeOK, Filed, Titles
<1>5. /\ d.step = "count" /\ d.op = "summarize" /\ d.item = c.item /\ d.map = c.map
      /\ d.known = known /\ d.masked = c.masked /\ d.input = c.masked \cup hint
      /\ d.vocab = c.vocab
  BY <1>1 DEF Recording, Call
<1>6. d \in Call
  BY <1>1, <1>4 DEF Recording, Call
<1> HIDE DEF c, d
<1>7. ASSUME NEW t \in hint PROVE Fits(c, t, Checked)
  <2>1. t \in Token /\ t \notin Names
    BY <1>2, <1>4
  <2>2. PICK f \in facts \cup queue : f.title = t
    BY <1>2, <1>3 DEF Titles
  <2>3. t \notin Placeholder
    BY <2>2 DEF IInv, StoresFit, NamesAreItsOwn
  <2>4. Checked => t # Fragment
    BY <2>2 DEF IInv, StoresFit, AnswersAreFiled, WholeAnswersOnly, Checked, Titles
  <2>5. c.map \in UnmaskMap
    BY <1>1 DEF Call
  <2>6. Unmask(t, c.map) = t
    BY <2>3, <2>5 DEF Unmask, UnmaskMap
  <2> QED BY <2>1, <2>3, <2>4, <2>6 DEF Fits, Fileable
<1>8. \A t \in d.input : Fits(d, t, Checked)
  <2>1. \A t \in c.masked : Fits(c, t, Checked)
    BY <1>1 DEF CallFits, TextFits
  <2> QED BY <1>5, <1>7, <2>1, FitsAlike
<1>9. \A t \in d.masked : Fits(d, t, Checked)
  BY <1>5, <1>8
<1>10. CallFits(d, filed, Checked)
  BY <1>1, <1>4, <1>5, <1>6, <1>8, <1>9 DEF CallFits, StepFits, TextFits, EntriesFit, Classifies
<1>11. Become(p, d) /\ faults' \in Nat
  BY DEF c, d, IInv, TypeOK
<1>12. d.vocab \subseteq call[p].vocab
  BY <1>5 DEF c
<1> QED BY <1>5, <1>10, <1>11, <1>12, QuietStep DEF stores, observers, IInv, TypeOK

LEMMA CountStep == ASSUME IInv, NEW p \in Callers, Count(p) PROVE IInv'
<1> DEFINE n == Cardinality(log)
           c == call[p]
           d == [c EXCEPT !.step = "put", !.key = n]
<1>1. /\ CallFits(c, filed, Checked) /\ c \in Call /\ c.step = "count"
      /\ Become(p, d)
      /\ tied' = (tied \/ \E q \in Callers \ {p} : At(q, "put") /\ call[q].key = n)
      /\ UNCHANGED <<provider, stores, given, found, filed, silent, faults>>
  BY CallIs DEF Count, At
<1>2. n \in Nat
  BY FS_CardinalityType DEF IInv, LogFits
<1>3. /\ d.step = "put" /\ d.key = n /\ d.op = c.op /\ d.item = c.item /\ d.map = c.map
      /\ d.known = c.known /\ d.masked = c.masked /\ d.input = c.input
      /\ d.entries = c.entries /\ d.entry = c.entry /\ d.all = c.all /\ d.to = c.to
      /\ d.vocab = c.vocab
  BY <1>1 DEF Call
<1>11. d.vocab \subseteq call[p].vocab
  BY <1>3
<1>4. d \in Call
  BY <1>1, <1>2 DEF Call
<1> HIDE DEF c, d
<1>5. CallFits(d, filed, Checked)
  <2>1. c.op # "chat"
    BY <1>1 DEF CallFits, StepFits
  <2> QED BY <1>1, <1>3, <1>4, <2>1, GoesOn
<1>6. call' \in [Callers -> Call] /\ CallsFit'
  BY <1>1, <1>5, OneCallMoves
<1>7. TypeOK'
  BY <1>1, <1>6 DEF IInv, TypeOK, stores
<1>8. StoresFit'
  BY <1>1, StoresKeep DEF stores
<1>9. call'[p] = d /\ \A q \in Callers : q # p => call'[q] = call[q]
  BY <1>1 DEF Become, IInv, TypeOK
<1>10. LogFits'
  <2>1. log' = log /\ (tied => tied')
    BY <1>1 DEF stores
  <2>2. SentIsLogged'
    <3> SUFFICES ASSUME NEW q \in Callers, Sends(q)', call'[q].op # "chat", ~tied'
                 PROVE  Record(call'[q]) \in log
      BY <2>1 DEF SentIsLogged, Record
    <3>1. q # p
      BY <1>3, <1>9 DEF Sends, At
    <3> QED BY <1>9, <2>1, <3>1 DEF Sends, At, IInv, LogFits, SentIsLogged
  <2>3. ASSUME ~tied'
        PROVE  /\ ~tied
               /\ \A q \in Callers : At(q, "put")' => q = p /\ call'[q].key = n
    <3>1. ~tied /\ \A q \in Callers \ {p} : ~(At(q, "put") /\ call[q].key = n)
      BY <1>1, <2>3
    <3>2. \A q \in Callers : At(q, "put") => call[q].key = n
      BY <3>1 DEF IInv, LogFits
    <3> QED BY <1>3, <1>9, <3>1, <3>2 DEF At
  <2> QED BY <2>1, <2>2, <2>3 DEF IInv, LogFits
<1>12. TopicsFit'
  BY <1>1, <1>11, TopicsKeep DEF stores
<1> QED BY <1>6, <1>7, <1>8, <1>10, <1>12 DEF IInv

LEMMA PutRecordStep == ASSUME IInv, NEW p \in Callers, PutRecord(p) PROVE IInv'
<1> DEFINE c == call[p]
           d == IF c.op = "vision" THEN [c EXCEPT !.step = "known"] ELSE Asking(c)
<1>1. /\ CallFits(c, filed, Checked) /\ c \in Call /\ c.step = "put"
      /\ c.item \in Items /\ c.op \in {"vision", "summarize", "classify"}
      /\ Become(p, d)
      /\ log' = {r \in log : r.key # c.key} \cup {Record(c)}
      /\ UNCHANGED <<provider, facts, topics, queue, parked, given, observers, faults>>
  BY CallIs DEF PutRecord, At, CallFits, StepFits
<1>2. /\ d.op = c.op /\ d.item = c.item /\ d.map = c.map /\ d.known = c.known
      /\ d.masked = c.masked /\ d.input = c.input /\ d.entries = c.entries
      /\ d.entry = c.entry /\ d.all = c.all /\ d.key = c.key /\ d.vocab = c.vocab
      /\ d.step = IF c.op = "vision" THEN "known" ELSE "ask"
  BY <1>1 DEF Asking, Call
<1>3. d \in Call
  BY <1>1, AttemptsAreCounted DEF Asking, Call
<1> HIDE DEF d
<1>4. CallFits(d, filed, Checked)
  <2>1. CASE c.op = "vision"
    BY <1>1, <1>2, <1>3, <2>1, FitsAlike
    DEF CallFits, StepFits, TextFits, EntriesFit, Classifies
  <2>2. CASE c.op # "vision"
    BY <1>1, <1>2, <1>3, <2>2, GoesOn
  <2> QED BY <2>1, <2>2
<1>5. call' \in [Callers -> Call] /\ CallsFit'
  BY <1>1, <1>4, OneCallMoves DEF observers
<1>6. Record(c).key = c.key /\ Record(c).item \in Items /\ c.key \in Nat /\ Record(d) = Record(c)
  BY <1>1, <1>2 DEF Record, Call
<1>7. TypeOK'
  BY <1>1, <1>5, <1>6 DEF IInv, TypeOK, observers
<1>8. StoresFit'
  BY <1>1, StoresKeep DEF observers
<1>9. call'[p] = d /\ \A q \in Callers : q # p => call'[q] = call[q]
  BY <1>1 DEF Become, IInv, TypeOK
<1>14. TopicsFit'
  BY <1>1, <1>2, TopicsKeep
<1> HIDE DEF c
<1>10. IsFiniteSet(log')
  <2>1. {r \in log : r.key # c.key} \in SUBSET log
    OBVIOUS
  <2>2. IsFiniteSet({r \in log : r.key # c.key})
    BY <2>1, FS_Subset DEF IInv, LogFits
  <2> QED BY <1>1, <2>2, FS_AddElement
<1>11. ASSUME ~tied'
       PROVE  /\ c.key = Cardinality(log)
              /\ log' = log \cup {Record(c)} /\ Cardinality(log') = Cardinality(log) + 1
              /\ \A q \in Callers : ~At(q, "put")'
              /\ \A r \in log' : r.key < Cardinality(log')
  <2>1. ~tied
    BY <1>1, <1>11 DEF observers
  <2>2. c.key = Cardinality(log) /\ \A q \in Callers : At(q, "put") => q = p
    BY <1>1, <2>1 DEF IInv, LogFits, At, c
  <2>3. \A r \in log : r.key < Cardinality(log)
    BY <2>1 DEF IInv, LogFits
  <2>4. Cardinality(log) \in Nat /\ \A r \in log : r.key \in Nat
    BY FS_CardinalityType DEF IInv, LogFits, TypeOK
  <2>5. \A r \in log : r.key # c.key
    BY <2>2, <2>3, <2>4
  <2>6. log' = log \cup {Record(c)} /\ Record(c) \notin log
    BY <1>1, <1>6, <2>5
  <2>7. Cardinality(log') = Cardinality(log) + 1
    BY <2>6, FS_AddElement DEF IInv, LogFits
  <2>8. \A q \in Callers : ~At(q, "put")'
    BY <1>2, <1>9, <2>2 DEF At
  <2>9. \A r \in log' : r.key < Cardinality(log')
    BY <1>6, <2>2, <2>3, <2>4, <2>6, <2>7
  <2> QED BY <2>2, <2>6, <2>7, <2>8, <2>9
<1>12. SentIsLogged'
  <2> SUFFICES ASSUME NEW q \in Callers, Sends(q)', call'[q].op # "chat", ~tied'
               PROVE  Record(call'[q]) \in log'
    BY DEF SentIsLogged, Record
  <2>1. CASE q = p
    BY <1>1, <1>6, <1>9, <2>1
  <2>2. CASE q # p
    <3>1. Record(call[q]) \in log
      BY <1>1, <1>9, <2>2 DEF Sends, At, observers, IInv, LogFits, SentIsLogged
    <3> QED BY <1>9, <1>11, <2>2, <3>1
  <2> QED BY <2>1, <2>2
<1>13. LogFits'
  BY <1>10, <1>11, <1>12 DEF LogFits
<1> QED BY <1>5, <1>7, <1>8, <1>13, <1>14 DEF IInv

LEMMA AttemptFailsStep == ASSUME IInv, NEW p \in Callers, AttemptFails(p) PROVE IInv'
<1> DEFINE c == call[p]
           d == [c EXCEPT !.tries = @ - 1]
<1>1. /\ CallFits(c, filed, Checked) /\ c \in Call /\ c.step = "ask"
      /\ UNCHANGED <<provider, facts, topics, queue, log, given, observers, faults>>
  BY CallIs DEF AttemptFails, At
<1>2. CASE MaxAttempts - c.tries + 1 < Attempts(c) /\ Become(p, d) /\ parked' = parked
  <2>1. d.tries \in 0..MaxAttempts
    BY <1>1, <1>2, AttemptsAreCounted DEF Attempts, Call
  <2>2. /\ d.step = c.step /\ d.op = c.op /\ d.item = c.item /\ d.map = c.map
        /\ d.known = c.known /\ d.masked = c.masked /\ d.input = c.input
        /\ d.entries = c.entries /\ d.entry = c.entry /\ d.all = c.all /\ d.key = c.key
        /\ d.vocab = c.vocab
    BY <1>1 DEF Call
  <2>7. d.vocab \subseteq call[p].vocab
    BY <2>2
  <2>3. d \in Call
    BY <1>1, <2>1 DEF Call
  <2>4. c.op \in {"vision", "chat"} \/ tied \/ Record(c) \in log
    BY <1>1 DEF CallFits, StepFits, IInv, LogFits, SentIsLogged, Sends, At
  <2>5. Record(d) = Record(c)
    BY <2>2 DEF Record
  <2> HIDE DEF c, d
  <2>6. CallFits(d, filed, Checked)
    BY <1>1, <2>2, <2>3, GoesOn
  <2> QED BY <1>1, <1>2, <2>2, <2>4, <2>5, <2>6, <2>7, QuietStep DEF observers, IInv, TypeOK
<1>3. CASE Parks(p)
  BY <1>1, <1>3, ParksStep DEF IInv, TypeOK
<1> QED BY <1>2, <1>3 DEF AttemptFails

LEMMA ImageReadStep == ASSUME IInv, NEW p \in Callers, ImageRead(p) PROVE IInv'
<1> DEFINE c == call[p]
           S == ToSet(TextOf[c.item])
           d == Recording([c EXCEPT !.masked = S], "vision", S)
<1>1. /\ CallFits(c, filed, Checked) /\ c \in Call /\ c.step = "ask" /\ c.op = "vision"
      /\ Become(p, d)
      /\ UNCHANGED <<provider, stores, given, observers, faults>>
  BY CallIs DEF ImageRead, At
<1>2. c.item \in Items /\ c.item \in Images /\ c.known \subseteq filed
  BY <1>1 DEF CallFits, StepFits, TextFits
<1>3. S \subseteq Names \cup Words
  <2>1. TextOf[c.item] \in Seq(Names \cup Words)
    BY <1>2, ProcessingAssumption DEF ProcessingAssumption
  <2> QED BY <2>1 DEF ToSet
<1>4. /\ d.step = "count" /\ d.op = "vision" /\ d.item = c.item /\ d.map = c.map
      /\ d.known = c.known /\ d.masked = S /\ d.vocab \subseteq call[p].vocab
  BY <1>1 DEF Recording, Call
<1>5. d \in Call
  BY <1>1, <1>3 DEF Recording, Call, Token
<1> HIDE DEF c, d
<1>6. ASSUME NEW t \in S PROVE Fits(d, t, Checked)
  <2>1. DOMAIN d.map \subseteq Placeholder
    BY <1>5 DEF Call, UnmaskMap
  <2>2. t \notin Placeholder /\ t # Fragment /\ t \in Token
    BY <1>3, TokensAreFinite, ProcessingAssumption DEF ProcessingAssumption, Token
  <2>3. Unmask(t, d.map) = t
    BY <2>1, <2>2 DEF Unmask
  <2> QED BY <1>2, <1>4, <2>2, <2>3 DEF Fits, Fileable
<1>7. CallFits(d, filed, Checked)
  BY <1>2, <1>4, <1>5, <1>6 DEF CallFits, StepFits, TextFits, EntriesFit, Classifies
<1> QED BY <1>1, <1>4, <1>7, QuietStep DEF stores, observers, IInv, TypeOK

\* The next entry is taken up, or there is none left and all of them are filed.
LEMMA NextEntryFits ==
    ASSUME NEW c \in Call, NEW done, NEW checked, c.item \in Items, c.known \subseteq done,
           \A t \in c.masked : Fits(c, t, checked),
           \A t \in c.entries : Fits(c, t, checked),
           c.all \subseteq done \cup Restored(c, c.entries)
    PROVE  /\ CallFits(NextEntry(c), done, checked)
           /\ NextEntry(c).step \in {"idle", "count"}
           /\ NextEntry(c).vocab \subseteq c.vocab
           /\ c.entries = {} => c.all \subseteq done
<1>1. CASE c.entries = {}
  <2>1. NextEntry(c) = Idle
    BY <1>1 DEF NextEntry
  <2>2. Restored(c, c.entries) = {}
    BY <1>1 DEF Restored
  <2>3. Idle.step = "idle" /\ Idle.vocab = {}
    BY DEF Idle
  <2>4. CallFits(NextEntry(c), done, checked)
    BY <2>1, IdleFits
  <2> QED BY <2>1, <2>2, <2>3, <2>4
<1>2. CASE c.entries # {}
  <2> DEFINE e == CHOOSE x \in c.entries : TRUE
             d == Recording([c EXCEPT !.entries = @ \ {e}, !.entry = e, !.to = "none"],
                            "classify", {e} \cup c.vocab)
  <2>1. e \in c.entries /\ e \in Token
    BY <1>2 DEF Call
  <2>2. NextEntry(c) = d
    BY <1>2 DEF NextEntry
  <2>3. d \in Call
    BY <2>1 DEF Recording, Call
  <2>4. /\ d.step = "count" /\ d.op = "classify" /\ d.item = c.item /\ d.map = c.map
        /\ d.known = c.known /\ d.masked = c.masked /\ d.input = {e} \cup c.vocab /\ d.entry = e
        /\ d.entries = c.entries \ {e} /\ d.all = c.all /\ d.vocab = c.vocab
    BY DEF Recording, Call
  <2> HIDE DEF d, e
  <2>5. \A t : Fits(c, t, checked) <=> Fits(d, t, checked)
    BY <2>4, FitsAlike
  <2>6. Restored(d, d.entries \cup {d.entry}) = Restored(c, c.entries)
    <3>1. d.entries \cup {d.entry} = c.entries
      BY <2>1, <2>4
    <3> QED BY <2>4, <3>1, FitsAlike
  <2>7. StepFits(d)
    BY <2>4 DEF StepFits
  <2>8. TextFits(d, done, checked)
    BY <2>1, <2>4, <2>5 DEF TextFits
  <2>9. EntriesFit(d, done)
    BY <2>4, <2>6 DEF EntriesFit
  <2> QED BY <1>2, <2>2, <2>3, <2>4, <2>7, <2>8, <2>9 DEF CallFits
<1> QED BY <1>1, <1>2

LEMMA SummarizedStep == ASSUME IInv, NEW p \in Callers, Summarized(p) PROVE IInv'
<1> DEFINE c == call[p]
           By(answer) == CASE answer = "whole" -> UNION {kSubset(n, c.input) : n \in 0..MaxEntries}
                           [] answer = "cut"   -> {{Fragment}}
                           [] answer = "empty" -> {{}}
           d(entries) == [c EXCEPT !.step = "topics", !.entries = entries,
                                   !.all = {Unmask(e, c.map) : e \in entries}]
<1> PICK answer \in Answers : \E entries \in By(answer) :
        /\ Takes(answer)
        /\ Become(p, IF entries = {} THEN Idle ELSE d(entries))
        /\ silent' = IF answer = "empty" THEN silent \cup {c.item} ELSE silent
  BY DEF Summarized
<1> PICK entries \in By(answer) :
        /\ Takes(answer)
        /\ Become(p, IF entries = {} THEN Idle ELSE d(entries))
        /\ silent' = IF answer = "empty" THEN silent \cup {c.item} ELSE silent
  OBVIOUS
<1>1. /\ CallFits(c, filed, Checked) /\ c \in Call /\ c.step = "ask" /\ c.op = "summarize"
      /\ c.item \in Items
      /\ UNCHANGED <<provider, stores, given, found, filed, tied, faults>>
  BY CallIs DEF Summarized, At, CallFits, StepFits
<1>2. provider \in {"cli", "openai", "anthropic"}
  BY ProcessingAssumption DEF ProcessingAssumption, IInv, TypeOK
<1>3. Checked => answer = "whole"
  BY <1>2 DEF Checked, Takes, CliTakes, OpenAiTakes, Answers
<1>4. answer \in {"whole", "cut", "empty"}
  BY DEF Answers
<1>5. \A e \in entries : Fits(c, e, Checked)
  <2>1. CASE answer = "whole"
    <3>1. PICK n \in 0..MaxEntries : entries \in kSubset(n, c.input)
      BY <2>1
    <3>2. entries \subseteq c.input
      BY <3>1 DEF kSubset
    <3> QED BY <1>1, <3>2 DEF CallFits, TextFits
  <2>2. CASE answer = "cut"
    <3>1. entries = {Fragment} /\ ~Checked
      BY <1>3, <2>2
    <3>2. c.map \in UnmaskMap
      BY <1>1 DEF Call
    <3>3. Unmask(Fragment, c.map) = Fragment
      BY <3>2, TokensAreFinite DEF Unmask, UnmaskMap
    <3>4. Fragment \in Token /\ Fragment \notin Names
      BY ProcessingAssumption DEF ProcessingAssumption, Token
    <3> QED BY <3>1, <3>3, <3>4, TokensAreFinite DEF Fits, Fileable
  <2>3. CASE answer = "empty"
    BY <2>3
  <2> QED BY <1>4, <2>1, <2>2, <2>3
<1> HIDE DEF By
<1>6. entries \subseteq Token /\ {Unmask(e, c.map) : e \in entries} \subseteq Token
  <2>1. \A e \in entries : e \in Token
    BY <1>5 DEF Fits
  <2>2. c.map \in UnmaskMap
    BY <1>1 DEF Call
  <2>3. \A e \in Token : Unmask(e, c.map) \in Token
    BY <2>2 DEF Unmask, UnmaskMap, Token
  <2> QED BY <2>1, <2>3
<1>7. d(entries) \in Call
  BY <1>1, <1>6 DEF Call
<1>8. /\ d(entries).item = c.item /\ d(entries).map = c.map /\ d(entries).known = c.known
      /\ d(entries).masked = c.masked /\ d(entries).entries = entries
      /\ d(entries).input = c.input /\ d(entries).vocab = c.vocab
      /\ d(entries).step = "topics" /\ d(entries).op = "summarize"
      /\ d(entries).all = Restored(c, entries)
  BY <1>1 DEF Call, Restored
<1> DEFINE m == IF entries = {} THEN Idle ELSE d(entries)
<1>9. Become(p, m)
  OBVIOUS
<1>10. c.known \subseteq filed /\ (\A t \in c.masked : Fits(c, t, Checked))
       /\ (\A t \in c.input : Fits(c, t, Checked))
  BY <1>1 DEF CallFits, TextFits
<1>11. /\ CallFits(m, filed, Checked)
       /\ m.vocab \subseteq call[p].vocab
       /\ m.step \in {"idle", "topics"}
  <2>1. CASE entries = {}
    <3>1. Idle.vocab = {} /\ Idle.step = "idle"
      BY DEF Idle
    <3> QED BY <2>1, <3>1, IdleFits
  <2>2. CASE entries # {}
    <3> DEFINE e == d(entries)
    <3> HIDE DEF d, c
    <3>1. /\ e \in Call /\ e.item = c.item /\ e.map = c.map /\ e.known = c.known
          /\ e.masked = c.masked /\ e.entries = entries /\ e.input = c.input
          /\ e.step = "topics" /\ e.op = "summarize" /\ e.all = Restored(c, entries)
      BY <1>7, <1>8
    <3> HIDE DEF e
    <3>2. \A t : Fits(c, t, Checked) <=> Fits(e, t, Checked)
      BY <3>1, FitsAlike
    <3>3. e.all = Restored(e, e.entries)
      BY <3>1, FitsAlike
    <3>4. StepFits(e) /\ EntriesFit(e, filed)
      BY <1>1, <3>1, <3>3 DEF StepFits, EntriesFit, Classifies
    <3>5. TextFits(e, filed, Checked)
      BY <1>5, <1>10, <3>1, <3>2 DEF TextFits, Classifies
    <3>6. CallFits(e, filed, Checked)
      BY <3>1, <3>4, <3>5 DEF CallFits
    <3> QED BY <1>8, <2>2, <3>1, <3>6 DEF e, c
  <2> QED BY <2>1, <2>2
<1> HIDE DEF m
<1>12. call' \in [Callers -> Call] /\ CallsFit'
  BY <1>1, <1>9, <1>11, OneCallMoves
<1>13. LogFits'
  BY <1>1, <1>9, <1>11, LogKeeps DEF stores
<1>14. StoresFit'
  BY <1>1, <1>3 DEF IInv, StoresFit, Titles, NamesAreItsOwn, AnswersAreFiled, EntriesAreFiled,
                    WholeAnswersOnly, Checked, stores
<1>15. TypeOK'
  BY <1>1, <1>12 DEF IInv, TypeOK, stores
<1>16. TopicsFit'
  BY <1>1, <1>9, <1>11, TopicsKeep DEF stores
<1> QED BY <1>12, <1>13, <1>14, <1>15, <1>16 DEF IInv

LEMMA ReadTopicsStep == ASSUME IInv, NEW p \in Callers, ReadTopics(p) PROVE IInv'
<1> DEFINE c == call[p]
<1> PICK vocab \in SUBSET topics : Become(p, NextEntry([c EXCEPT !.vocab = vocab]))
  BY DEF ReadTopics
<1>1. /\ CallFits(c, filed, Checked) /\ c \in Call /\ c.step = "topics" /\ c.item \in Items
      /\ UNCHANGED <<provider, stores, given, observers, faults>>
  BY CallIs DEF ReadTopics, At, CallFits, StepFits
<1>2. faults' \in Nat
  BY <1>1 DEF IInv, TypeOK
<1>3. vocab \subseteq Token
  BY DEF IInv, TypeOK
<1> DEFINE d == [c EXCEPT !.vocab = vocab]
<1>4. /\ d \in Call /\ d.item = c.item /\ d.map = c.map /\ d.known = c.known
      /\ d.masked = c.masked /\ d.entries = c.entries /\ d.all = c.all /\ d.vocab = vocab
  BY <1>1, <1>3 DEF Call
<1>5. Become(p, NextEntry(d))
  OBVIOUS
<1> HIDE DEF c, d
<1>6. /\ c.known \subseteq filed
      /\ \A t \in c.masked : Fits(c, t, Checked)
      /\ \A t \in c.entries : Fits(c, t, Checked)
      /\ c.all \subseteq filed \cup Restored(c, c.entries)
  BY <1>1 DEF CallFits, TextFits, EntriesFit
<1>7. /\ \A t : Fits(c, t, Checked) <=> Fits(d, t, Checked)
      /\ Restored(d, d.entries) = Restored(c, c.entries)
  BY <1>4, FitsAlike
<1>8. /\ CallFits(NextEntry(d), filed, Checked) /\ NextEntry(d).step \in {"idle", "count"}
      /\ NextEntry(d).vocab \subseteq topics
  BY <1>1, <1>4, <1>6, <1>7, NextEntryFits
<1> QED BY <1>1, <1>2, <1>5, <1>8, QuietStep DEF stores, observers, IInv, TypeOK

LEMMA ClassifiedStep == ASSUME IInv, NEW p \in Callers, Classified(p) PROVE IInv'
<1> DEFINE c == call[p]
           title == Unmask(c.entry, c.map)
<1> PICK answer \in Answers, labels \in SUBSET Control :
        \/ /\ Suppressed(labels, title, c.known)
           /\ Become(p, NextEntry(c))
           /\ found' = Finished(c)
        \/ /\ ~Suppressed(labels, title, c.known)
           /\ Become(p, [c EXCEPT !.step = "file", !.entry = title, !.to = Destination(labels)])
           /\ UNCHANGED found
  BY ProcessingAssumption DEF ProcessingAssumption, Classified
<1>1. /\ CallFits(c, filed, Checked) /\ c \in Call /\ c.step = "ask" /\ c.op = "classify"
      /\ c.item \in Items
      /\ UNCHANGED <<provider, stores, given, filed, silent, tied, faults>>
  BY CallIs DEF Classified, At, CallFits, StepFits
<1>2. /\ Fits(c, c.entry, Checked) /\ c.known \subseteq filed
      /\ \A t \in c.entries : Fits(c, t, Checked)
      /\ \A t \in c.masked : Fits(c, t, Checked)
      /\ c.all \subseteq filed \cup Restored(c, c.entries \cup {c.entry})
      /\ c.input = {c.entry} \cup c.vocab
  BY <1>1 DEF CallFits, TextFits, EntriesFit, Classifies
<1>3. Restored(c, c.entries \cup {c.entry}) = Restored(c, c.entries) \cup {title}
  BY DEF Restored
<1>4. title \in Token /\ Fileable(c.item, title) /\ (Checked => title # Fragment)
  <2>1. c.map \in UnmaskMap
    BY <1>1 DEF Call
  <2>2. title \in Names \cup {c.entry}
    BY <2>1 DEF Unmask, UnmaskMap
  <2> QED BY <1>2, <2>2, ProcessingAssumption DEF ProcessingAssumption, Fits, Token
<1>5. CASE /\ Suppressed(labels, title, c.known)
           /\ Become(p, NextEntry(c))
           /\ found' = Finished(c)
  <2>1. c.all \subseteq filed \cup Restored(c, c.entries)
    BY <1>2, <1>3, <1>5 DEF Suppressed
  <2>2. /\ CallFits(NextEntry(c), filed, Checked) /\ NextEntry(c).step \in {"idle", "count"}
        /\ NextEntry(c).vocab \subseteq c.vocab
        /\ c.entries = {} => c.all \subseteq filed
    BY <1>1, <1>2, <2>1, NextEntryFits
  <2>3. call' \in [Callers -> Call] /\ CallsFit'
    BY <1>1, <1>5, <2>2, OneCallMoves
  <2>4. LogFits'
    BY <1>1, <1>5, <2>2, LogKeeps DEF stores
  <2>5. found' \subseteq filed /\ found' \subseteq Token
    BY <1>1, <1>5, <2>2 DEF Finished, IInv, StoresFit, AnswersAreFiled, EntriesAreFiled, TypeOK, Call
  <2>6. StoresFit'
    BY <1>1, <2>5 DEF IInv, StoresFit, Titles, NamesAreItsOwn, AnswersAreFiled, EntriesAreFiled,
                      WholeAnswersOnly, stores
  <2>7. TypeOK'
    BY <1>1, <2>3, <2>5 DEF IInv, TypeOK, stores
  <2>8. TopicsFit'
    BY <1>1, <1>5, <2>2, TopicsKeep DEF stores
  <2> QED BY <2>3, <2>4, <2>6, <2>7, <2>8 DEF IInv
<1>6. CASE /\ ~Suppressed(labels, title, c.known)
           /\ Become(p, [c EXCEPT !.step = "file", !.entry = title, !.to = Destination(labels)])
           /\ UNCHANGED found
  <2> DEFINE d == [c EXCEPT !.step = "file", !.entry = title, !.to = Destination(labels)]
  <2>1. Destination(labels) \in {"fact", "confirm", "deepen"}
    BY DEF Destination
  <2>2. d \in Call
    BY <1>1, <1>4, <2>1 DEF Call
  <2>3. /\ d.step = "file" /\ d.op = "classify" /\ d.item = c.item /\ d.map = c.map
        /\ d.known = c.known /\ d.masked = c.masked /\ d.entry = title
        /\ d.entries = c.entries /\ d.all = c.all /\ d.to # "none"
        /\ d.input = c.input /\ d.vocab = c.vocab
    BY <1>1, <2>1 DEF Call
  <2>10. ASSUME NEW t \in c.input \cap Names
         PROVE  t \in c.vocab \/ (c.item \in Images /\ t = title)
    <3>1. t \in c.vocab \/ t = c.entry
      BY <1>2
    <3>2. CASE t = c.entry
      <4>1. c.item \in Images
        BY <1>2, <3>2 DEF Fits
      <4>2. DOMAIN c.map \subseteq Placeholder
        BY <1>1 DEF Call, UnmaskMap
      <4>3. title = c.entry
        BY <3>2, <4>2, TokensAreFinite DEF Unmask
      <4> QED BY <3>2, <4>1, <4>3
    <3> QED BY <3>1, <3>2
  <2>11. d.vocab \subseteq call[p].vocab
    BY <2>3
  <2> HIDE DEF d, title, c
  <2>4. \A t : Fits(c, t, Checked) <=> Fits(d, t, Checked)
    BY <2>3, FitsAlike
  <2>5. Restored(d, d.entries) = Restored(c, c.entries)
    BY <2>3, FitsAlike
  <2>6. StepFits(d) /\ EntriesFit(d, filed)
    BY <1>1, <1>2, <1>3, <2>3, <2>5 DEF StepFits, EntriesFit, Classifies
  <2>7. TextFits(d, filed, Checked)
    BY <1>1, <1>2, <1>4, <2>3, <2>4, <2>10 DEF TextFits, Classifies
  <2>8. CallFits(d, filed, Checked)
    BY <2>2, <2>6, <2>7 DEF CallFits
  <2>9. Become(p, d)
    BY <1>6 DEF d
  <2> QED BY <1>1, <1>6, <2>3, <2>8, <2>9, <2>11, QuietStep DEF stores, IInv, TypeOK
<1> QED BY <1>5, <1>6

LEMMA FileStep == ASSUME IInv, NEW p \in Callers, File(p) PROVE IInv'
<1> DEFINE c == call[p]
           f == [title |-> c.entry, from |-> c.item, to |-> c.to]
<1>1. /\ CallFits(c, filed, Checked) /\ c \in Call /\ c.step = "file" /\ c.item \in Items
      /\ c.to # "none"
      /\ facts' \cup queue' = facts \cup queue \cup {f}
      /\ facts' \subseteq facts \cup {f} /\ queue' \subseteq queue \cup {f}
      /\ filed' = filed \cup {c.entry}
      /\ Become(p, NextEntry(c))
      /\ found' = Finished(c)
      /\ UNCHANGED <<provider, parked, log, given, silent, tied, faults>>
  BY CallIs DEF File, At, CallFits, StepFits
<1>2. /\ c.known \subseteq filed
      /\ \A t \in c.entries : Fits(c, t, Checked)
      /\ \A t \in c.masked : Fits(c, t, Checked)
      /\ c.all \subseteq filed \cup Restored(c, c.entries) \cup {c.entry}
      /\ c.entry \in Token /\ Fileable(c.item, c.entry) /\ (Checked => c.entry # Fragment)
      /\ \A t \in c.input \cap Names : t \in c.vocab \/ (c.item \in Images /\ t = c.entry)
  BY <1>1 DEF CallFits, StepFits, TextFits, EntriesFit
<1>3. /\ CallFits(NextEntry(c), filed', Checked) /\ NextEntry(c).step \in {"idle", "count"}
      /\ NextEntry(c).vocab \subseteq c.vocab
      /\ c.entries = {} => c.all \subseteq filed'
  BY <1>1, <1>2, NextEntryFits
<1>4. call' \in [Callers -> Call] /\ CallsFit'
  BY <1>1, <1>3, OneCallMoves
<1>5. LogFits'
  BY <1>1, <1>3, LogKeeps
<1>6. found' \subseteq filed' /\ found' \subseteq Token
  BY <1>1, <1>3 DEF Finished, IInv, StoresFit, AnswersAreFiled, EntriesAreFiled, TypeOK, Call
<1>7. f \in Filed
  BY <1>1, <1>2 DEF Filed, Call
<1>11. topics' \subseteq topics \cup (c.input \cap (Numbers \cup Words))
  BY DEF File, Labelled, kSubset
<1>12. topics' \subseteq Token
  BY <1>1, <1>11 DEF IInv, TypeOK, Call
<1>8. TypeOK'
  BY <1>1, <1>2, <1>4, <1>6, <1>7, <1>12 DEF IInv, TypeOK
<1>13. TopicsFit'
  <2>1. Pictured \subseteq Pictured'
    BY <1>1 DEF Pictured, Titles
  <2>2. /\ topics \cap Names \subseteq Pictured
        /\ \A q \in Callers : call[q].vocab \cap Names \subseteq Pictured
    BY DEF IInv, TopicsFit
  <2>3. ASSUME NEW t \in topics', t \in Names PROVE t \in Pictured'
    <3>1. CASE t \in topics \/ t \in c.vocab
      BY <2>1, <2>2, <2>3, <3>1
    <3>2. CASE t \notin topics /\ t \notin c.vocab
      <4>1. t \in c.input /\ t \in Numbers /\ f \in facts' \cup queue'
        BY <1>1, <1>11, <2>3, <3>2, ProcessingAssumption DEF ProcessingAssumption
      <4>2. c.item \in Images /\ t = c.entry
        BY <1>2, <2>3, <3>2, <4>1
      <4>3. f.title = t /\ f.from \in Images
        BY <4>2
      <4> QED BY <4>1, <4>3 DEF Pictured, Titles
    <3> QED BY <3>1, <3>2
  <2>4. call'[p] = NextEntry(c) /\ \A q \in Callers : q # p => call'[q] = call[q]
    BY <1>1 DEF Become, IInv, TypeOK
  <2>5. ASSUME NEW q \in Callers PROVE call'[q].vocab \cap Names \subseteq Pictured'
    <3>1. CASE q = p
      <4>1. c.vocab \cap Names \subseteq Pictured'
        BY <2>1, <2>2
      <4> QED BY <1>3, <2>4, <3>1, <4>1
    <3>2. CASE q # p
      BY <2>1, <2>2, <2>4, <3>2
    <3> QED BY <3>1, <3>2
  <2> QED BY <2>3, <2>5 DEF TopicsFit
<1>9. ASSUME NEW g \in facts' \cup queue'
      PROVE  /\ g.title \in filed' /\ Fileable(g.from, g.title)
             /\ Checked => g.title # Fragment
  <2>1. CASE g = f
    BY <1>1, <1>2, <2>1
  <2>2. CASE g \in facts \cup queue
    BY <1>1, <2>2 DEF IInv, StoresFit, Titles, NamesAreItsOwn, AnswersAreFiled, WholeAnswersOnly,
                      Checked, Fileable
  <2> QED BY <1>1, <2>1, <2>2
<1>10. StoresFit'
  BY <1>1, <1>6, <1>9 DEF IInv, StoresFit, Titles, NamesAreItsOwn, AnswersAreFiled, EntriesAreFiled,
                          WholeAnswersOnly, Checked, Fileable
<1> QED BY <1>4, <1>5, <1>8, <1>10, <1>13 DEF IInv

LEMMA StoreFailsStep == ASSUME IInv, NEW p \in Callers, StoreFails(p) PROVE IInv'
BY ParksStep DEF StoreFails, IInv, TypeOK

LEMMA BeginChatStep == ASSUME IInv, NEW p \in Callers, BeginChat(p) PROVE IInv'
<1> PICK q \in Questions \ given :
        /\ given' = given \cup {q}
        /\ Become(p, [Idle EXCEPT !.step = "context", !.item = q])
        /\ UNCHANGED <<provider, stores, observers, faults>>
  BY DEF BeginChat
<1> DEFINE c == [Idle EXCEPT !.step = "context", !.item = q]
<1>1. /\ c.step = "context" /\ c.item = q /\ c.known = {} /\ c.masked = {} /\ c.op = "none"
      /\ c.vocab = {}
  BY DEF Idle
<1>2. Idle \in Call
  BY IdleFits DEF CallFits
<1>3. c \in Call
  BY <1>2 DEF Call
<1>4. Become(p, c)
  OBVIOUS
<1> HIDE DEF c
<1>5. CallFits(c, filed, Checked)
  BY <1>1, <1>3 DEF CallFits, StepFits, TextFits, EntriesFit, Classifies
<1> QED BY <1>1, <1>4, <1>5, QuietStep DEF stores, observers, IInv, TypeOK

LEMMA ContextStep == ASSUME IInv, NEW p \in Callers, Context(p) PROVE IInv'
<1> DEFINE c == call[p]
           Document(S) == SetToSeq(S) \o TextOf[c.item]
           d(S) == Asking([c EXCEPT !.op = "chat", !.masked = Mask(Document(S)),
                                    !.map = MapOf(Document(S)),
                                    !.input = Mask(Document(S)), !.known = S])
<1> PICK S \in SUBSET Titles(facts) : Become(p, IF S = {} THEN Idle ELSE d(S))
  BY DEF Context
<1>1. /\ CallFits(c, filed, Checked) /\ c \in Call /\ c.step = "context" /\ c.item \in Questions
      /\ UNCHANGED <<provider, stores, given, observers, faults>>
  BY CallIs DEF Context, At, CallFits, StepFits
<1>2. CASE S = {}
  <2>1. CallFits(Idle, filed, Checked) /\ Idle.step = "idle" /\ Idle.vocab = {}
    BY IdleFits DEF Idle
  <2> QED BY <1>1, <1>2, <2>1, QuietStep DEF stores, observers, IInv, TypeOK
<1>3. CASE S # {}
  <2>1. S \in SUBSET Token /\ S \subseteq filed
    BY DEF IInv, TypeOK, StoresFit, Filed, Titles
  <2>2. SetToSeq(S) \in Seq(Token)
    <3>1. IsFiniteSet(S)
      BY <2>1, TokensAreFinite, FS_Subset
    <3>2. SetToSeq(S) \in Seq(S)
      BY <3>1, ListsTheSet
    <3> QED BY <2>1, <3>2
  <2>3. TextOf[c.item] \in Seq(Token)
    <3>1. TextOf[c.item] \in Seq(Names \cup Words) /\ Names \cup Words \subseteq Token
      BY <1>1, ProcessingAssumption DEF ProcessingAssumption, Token
    <3> QED BY <3>1
  <2> DEFINE D == Document(S)
             e == d(S)
  <2>4. D \in Seq(Token)
    BY <2>2, <2>3
  <2>5. e = [c EXCEPT !.op = "chat", !.masked = Mask(D), !.map = MapOf(D), !.input = Mask(D),
                      !.known = S, !.step = "ask", !.tries = MaxAttempts]
    BY <1>1 DEF Asking, Call
  <2>6. Become(p, e)
    BY <1>3
  <2> HIDE DEF D, e, d, c
  <2>7. Mask(D) \subseteq Token \ Names /\ MapOf(D) \in UnmaskMap
    BY <2>4, MaskedIsClear, MapFits
  <2>8. e \in Call
    BY <1>1, <2>1, <2>5, <2>7, AttemptsAreCounted DEF Call
  <2>9. /\ e.op = "chat" /\ e.step = "ask" /\ e.item = c.item /\ e.known = S
        /\ e.input = Mask(D) /\ e.vocab = c.vocab
    BY <1>1, <2>5 DEF Call
  <2>12. e.vocab \subseteq call[p].vocab
    BY <2>9 DEF c
  <2>10. e.item \notin Items
    BY <1>1, <2>9, ProcessingAssumption DEF ProcessingAssumption
  <2>11. CallFits(e, filed, Checked)
    BY <1>1, <2>1, <2>7, <2>8, <2>9, <2>10
    DEF CallFits, StepFits, TextFits, EntriesFit, Classifies
  <2> QED BY <1>1, <2>6, <2>9, <2>11, <2>12, QuietStep DEF stores, observers, IInv, TypeOK
<1> QED BY <1>2, <1>3

LEMMA RepliedStep == ASSUME IInv, NEW p \in Callers, Replied(p) PROVE IInv'
<1>1. CallFits(Idle, filed, Checked) /\ Idle.step = "idle" /\ Idle.vocab = {}
  BY IdleFits DEF Idle
<1> QED BY <1>1, QuietStep DEF Replied, stores, observers, IInv, TypeOK

LEMMA NextStep == IInv /\ [Next]_vars => IInv'
<1> SUFFICES ASSUME IInv, [Next]_vars PROVE IInv'
  OBVIOUS
<1>1. CASE UNCHANGED vars
  BY <1>1 DEF vars, stores, observers, IInv, TypeOK, CallsFit, Checked, StoresFit, Titles,
              NamesAreItsOwn, AnswersAreFiled, EntriesAreFiled, WholeAnswersOnly, LogFits,
              SentIsLogged, Sends, At, Record, TopicsFit, Pictured
<1>2. ASSUME NEW p \in Callers, BeginItem(p) PROVE IInv'
  BY <1>2, BeginItemStep
<1>3. ASSUME NEW p \in Callers, BeginChat(p) PROVE IInv'
  BY <1>3, BeginChatStep
<1>4. ASSUME NEW p \in Callers, Work(p) PROVE IInv'
  BY <1>4, ReadKnownStep, CountStep, PutRecordStep, ReadTopicsStep, FileStep, ContextStep DEF Work
<1>5. ASSUME NEW p \in Callers, Attempt(p) PROVE IInv'
  BY <1>5, ImageReadStep, SummarizedStep, ClassifiedStep, RepliedStep, AttemptFailsStep DEF Attempt
<1>6. ASSUME NEW p \in Callers, StoreFails(p) PROVE IInv'
  BY <1>6, StoreFailsStep
<1> QED BY <1>1, <1>2, <1>3, <1>4, <1>5, <1>6 DEF Next

-----------------------------------------------------------------------------
(* The theorems.                                                           *)

\* The invariant holds in every state of every behaviour.
THEOREM InductiveInvariant == Spec => []IInv
BY BeginsWell, NextStep, PTL DEF Spec

\* Every variable keeps its type: an answer of the model, a masked text and a restored
\* title are always tokens the item, the stores or the masker put there.
THEOREM TypeCorrect == Spec => []TypeOK
<1>1. IInv => TypeOK
  BY DEF IInv
<1> QED BY <1>1, InductiveInvariant, PTL

\* BR-K1: whatever titles, questions, topics and texts there are, nothing the masker
\* recognises reaches the model with a text or a question (masker.rs, known_titles in
\* service.rs and ground_and_ask), but for the topics shown to the classifier: those
\* are stored unmasked, and an identifier among them is one that was filed from an
\* image and that normalize_topic keeps.
THEOREM MaskedLeaves == Spec => []OnlyMaskedLeaves
<1>1. IInv => OnlyMaskedLeaves
  <2> SUFFICES ASSUME IInv, NEW p \in Callers, Sends(p), call[p].item \notin Images,
                      NEW t \in call[p].input, t \in Names
               PROVE  call[p].op = "classify" /\ t \in Pictured
    BY DEF OnlyMaskedLeaves
  <2>1. CallFits(call[p], filed, Checked) /\ call[p].step = "ask"
    BY CallIs DEF Sends, At
  <2>2. call[p].op \in {"summarize", "classify", "chat"}
    BY <2>1 DEF Sends, CallFits, StepFits
  <2>3. call[p].op # "summarize"
    BY <2>1 DEF CallFits, TextFits, Fits
  <2>4. call[p].op # "chat"
    BY <2>1 DEF CallFits, TextFits
  <2>5. call[p].op = "classify"
    BY <2>2, <2>3, <2>4
  <2>6. Fits(call[p], call[p].entry, Checked) /\ call[p].input = {call[p].entry} \cup call[p].vocab
    BY <2>1, <2>5 DEF CallFits, TextFits, Classifies
  <2>7. t \in call[p].vocab
    BY <2>6 DEF Fits
  <2> QED BY <2>5, <2>7 DEF IInv, TopicsFit
<1> QED BY <1>1, InductiveInvariant, PTL

\* A fact or a question never names a person the item does not name, although the same
\* placeholder stands for another person in another call (split_facts, unmask).
THEOREM NamesStay == Spec => []NamesAreItsOwn
<1>1. IInv => NamesAreItsOwn
  BY DEF IInv, StoresFit
<1> QED BY <1>1, InductiveInvariant, PTL

\* Every entry of an item that went through is stored, and none of it is half of an
\* answer (route, Suppressed, the finish_reason checks of client.rs).
THEOREM Filing == Spec => []AnswersAreFiled
<1>1. IInv => AnswersAreFiled
  BY DEF IInv, StoresFit
<1> QED BY <1>1, InductiveInvariant, PTL

\* US-2.3: as long as appends do not overlap, what is sent is in the transfer log.
THEOREM Logging == Spec => []SentIsLogged
<1>1. IInv => SentIsLogged
  BY DEF IInv, LogFits
<1> QED BY <1>1, InductiveInvariant, PTL

=============================================================================
