--------------------------- MODULE FetchIPRProofs ---------------------------
(***************************************************************************)
(* The answers of get_ipr are right for every set of documents, rules of   *)
(* fan-out, page size and cap, for any number of callers, and whatever is  *)
(* filed, posted and withdrawn between their requests.                     *)
(***************************************************************************)
EXTENDS FetchIPR, FiniteSetTheorems, SequenceTheorems, TLAPS

(* A list has what matches its query, and all of what is listed at all.    *)
ListsInv ==
  /\ posted \subseteq Listed
  /\ \A q \in Queries : \A j \in DOMAIN lists[q] : Matches(lists[q][j], q)
  /\ \A q \in Queries : \A i \in Listed :
       Matches(i, q) => \E j \in DOMAIN lists[q] : lists[q][j] = i

(* An answer p's caller may be given.                                      *)
Right(p, a) ==
  /\ Covers(p, a)
  /\ a.items \subseteq a.may \intersect Against(a.docs)
  /\ a.must \intersect Against(a.docs) \subseteq a.items

Live(k) == k.at \notin Ended =>
  k.doc \in Primaries /\ k.ans.must \subseteq posted /\ posted \subseteq k.ans.may

Starting(k) == k.at \in {"verify", "cache", "link"} =>
  /\ k.ans.docs = {k.doc} /\ k.ans.items = {}
  /\ k.at # "verify" => k.doc \in Docs
  /\ k.at = "link" => k.doc \in Rfcs

(* Up to the offset the replaced drafts are known: if the Datatracker      *)
(* honours it.                                                             *)
Following(k) == k.at = "replaces" =>
  /\ k.doc \in Docs /\ k.ans.items = {} /\ Origin(k) \in Docs \ Rfcs
  /\ {k.doc, Origin(k)} \subseteq k.ans.docs /\ k.ans.docs \subseteq FanOut(k.doc)
  /\ ~stuck => \A j \in DOMAIN Replaced[Origin(k)] :
                 j <= k.offset => Replaced[Origin(k)][j] \in k.ans.docs

(* The lists walked to their end are in the answer; of the one being       *)
(* walked, what was posted all along is there or still ahead.              *)
Walking(k) == k.at = "rows" =>
  /\ Covers(k.doc, k.ans)
  /\ k.left # {} /\ k.left \subseteq k.ans.docs \X Kinds
  /\ k.ans.items \subseteq k.ans.may \intersect Against(k.ans.docs)
  /\ \A q \in (k.ans.docs \X Kinds) \ k.left : \A i \in k.ans.must :
       Matches(i, q) => i \in k.ans.items
  /\ ~stuck => \A j \in DOMAIN lists[Query(k.left)] :
       LET i == lists[Query(k.left)][j]
       IN  i \in k.ans.must => j > k.offset \/ i \in k.ans.items

Finished(k) == k.at \in {"save", "done"} => Right(k.doc, k.ans)

CallInv(k) == Live(k) /\ Starting(k) /\ Following(k) /\ Walking(k) /\ Finished(k)

CacheInv == \A p \in Primaries : cache[p] # NoAnswer => Right(p, cache[p])

IInv == TypeOK /\ ListsInv /\ CacheInv /\ \A c \in Callers : CallInv(call[c])
-----------------------------------------------------------------------------
From(offset) == IF stuck THEN 0 ELSE offset

(* A page that is not full ends the list, a full one has PageLimit rows.   *)
PageOf(list, page, from) ==
  /\ page \subseteq DOMAIN list /\ Cardinality(page) \in Nat
  /\ IsLast(page) => \A j \in DOMAIN list : j > from => j \in page
  /\ ~IsLast(page) =>
       /\ Cardinality(page) = PageLimit
       /\ \A j \in DOMAIN list : j > from /\ j <= from + PageLimit => j \in page

LEMMA PageFacts ==
  ASSUME NEW S, NEW list \in Seq(S), NEW offset \in Nat
  PROVE  PageOf(list, Page(list, offset), From(offset))
<1> SUFFICES ASSUME NEW page, page = Page(list, offset), NEW from, from = From(offset)
             PROVE  PageOf(list, page, from)
  OBVIOUS
<1>1. from \in Nat /\ PageLimit \in Nat \ {0} /\ Len(list) \in Nat
      /\ DOMAIN list = 1..Len(list)
  BY PagesAssumption DEF From
<1>2. page = {i \in DOMAIN list : from < i /\ i <= from + PageLimit}
  BY DEF Page, From
<1> DEFINE window == (from + 1)..(from + PageLimit)
<1>3. IsFiniteSet(window) /\ Cardinality(window) = PageLimit
  <2> DEFINE first == from + 1  final == from + PageLimit
  <2>1. first \in Int /\ final \in Int /\ first <= final /\ final - first + 1 = PageLimit
    BY <1>1
  <2> HIDE DEF first, final
  <2>2. IsFiniteSet(first..final) /\ Cardinality(first..final) = PageLimit
    <3>1. /\ IsFiniteSet(first..final)
          /\ Cardinality(first..final) = IF first > final THEN 0 ELSE final - first + 1
      BY <2>1, FS_Interval
    <3>2. ~(first > final)
      BY <2>1
    <3>3. QED
      BY <2>1, <3>1, <3>2
  <2>3. QED
    BY <2>2 DEF first, final
<1>4. page \subseteq window
  BY <1>1, <1>2
<1>5. IsFiniteSet(page) /\ Cardinality(page) \in Nat /\ Cardinality(page) <= PageLimit
  <2> HIDE DEF window
  <2>1. IsFiniteSet(page) /\ Cardinality(page) <= Cardinality(window)
    BY <1>3, <1>4, FS_Subset
  <2>2. Cardinality(page) \in Nat
    BY <2>1, FS_CardinalityType
  <2>3. QED
    BY <1>3, <2>1, <2>2
<1>6. CASE from + PageLimit <= Len(list)
  <2>1. page = window
    BY <1>1, <1>2, <1>6
  <2>2. ~IsLast(page)
    BY <1>1, <1>3, <2>1 DEF IsLast
  <2>3. QED
    BY <1>1, <1>2, <1>3, <1>5, <2>1, <2>2 DEF PageOf
<1>7. CASE from + PageLimit > Len(list)
  <2>1. \A j \in DOMAIN list : j > from => j \in page
    BY <1>1, <1>2, <1>7
  <2>2. ~IsLast(page) => Cardinality(page) = PageLimit
    BY <1>1, <1>5 DEF IsLast
  <2>3. QED
    BY <1>2, <1>5, <2>1, <2>2 DEF PageOf
<1>8. QED
  BY <1>1, <1>6, <1>7

(* What is inserted moves the rows behind it, and none before it.          *)
Shifted(list, at, i, new) ==
  /\ new \in Seq(Ids) /\ Len(new) = Len(list) + 1
  /\ \A j \in 1..(Len(list) + 1) :
       new[j] = IF j < at THEN list[j] ELSE IF j = at THEN i ELSE list[j - 1]

LEMMA Inserted ==
  ASSUME NEW list \in Seq(Ids), NEW at \in 1..(Len(list) + 1), NEW i \in Ids
  PROVE  Shifted(list, at, i, InsertAt(list, at, i))
<1> SUFFICES ASSUME NEW new, new = InsertAt(list, at, i) PROVE Shifted(list, at, i, new)
  OBVIOUS
<1> DEFINE front == SubSeq(list, 1, at - 1)  back == SubSeq(list, at, Len(list))
<1>1. front \in Seq(Ids) /\ Len(front) = at - 1 /\ \A j \in 1..(at - 1) : front[j] = list[j]
  OBVIOUS
<1>2. /\ back \in Seq(Ids) /\ Len(back) = Len(list) + 1 - at
      /\ \A j \in 1..(Len(list) + 1 - at) : back[j] = list[at + j - 1]
  OBVIOUS
<1>3. new = (front \o <<i>>) \o back
  BY Zenon DEF InsertAt
<1>4. <<i>> \in Seq(Ids) /\ Len(<<i>>) = 1 /\ <<i>>[1] = i
  OBVIOUS
<1> DEFINE start == front \o <<i>>
<1> HIDE DEF front, back, start
<1>5. /\ start \in Seq(Ids) /\ Len(start) = at
      /\ \A j \in 1..at : start[j] = IF j < at THEN list[j] ELSE i
  <2>1. /\ start \in Seq(Ids) /\ Len(start) = Len(front) + 1
        /\ \A j \in 1..(Len(front) + 1) :
             start[j] = IF j <= Len(front) THEN front[j] ELSE <<i>>[j - Len(front)]
    BY <1>1, <1>4, ConcatProperties DEF start
  <2>2. QED
    BY <1>1, <1>4, <2>1
<1>6. /\ new \in Seq(Ids) /\ Len(new) = Len(start) + Len(back)
      /\ \A j \in 1..(Len(start) + Len(back)) :
           new[j] = IF j <= Len(start) THEN start[j] ELSE back[j - Len(start)]
  <2>1. new = start \o back
    BY <1>3 DEF start
  <2>2. /\ start \o back \in Seq(Ids) /\ Len(start \o back) = Len(start) + Len(back)
        /\ \A j \in 1..(Len(start) + Len(back)) :
             (start \o back)[j] = IF j <= Len(start) THEN start[j] ELSE back[j - Len(start)]
    BY <1>2, <1>5, ConcatProperties
  <2>3. QED
    BY <2>1, <2>2, Zenon
<1>7. Len(start) + Len(back) = Len(list) + 1 /\ Len(list) \in Nat /\ at \in Nat
  BY <1>2, <1>5
<1>8. ASSUME NEW j \in 1..(Len(list) + 1)
      PROVE  new[j] = IF j < at THEN list[j] ELSE IF j = at THEN i ELSE list[j - 1]
  <2>1. CASE j <= at
    BY <1>5, <1>6, <1>7, <2>1
  <2>2. CASE j > at
    <3>1. j - at \in 1..(Len(list) + 1 - at) /\ at + (j - at) - 1 = j - 1
      BY <1>7, <2>2
    <3>2. back[j - at] = list[at + (j - at) - 1]
      BY <1>2, <3>1
    <3>3. QED
      BY <1>5, <1>6, <1>7, <2>2, <3>1, <3>2
  <2>3. QED
    BY <1>7, <2>1, <2>2
<1>9. QED
  BY <1>6, <1>7, <1>8 DEF Shifted
-----------------------------------------------------------------------------
LEMMA QueryIsLeft ==
  ASSUME NEW left, left # {}
  PROVE  Query(left) \in left
  BY DEF Query

(* A call that goes on, and nothing else: what is to be shown is about the *)
(* new state of that call alone.                                           *)
LEMMA OneCallAndCache ==
  ASSUME IInv, NEW c \in Callers, NEW k, k \in Calls, CallInv(k), Becomes(c, k),
         UNCHANGED <<lists, posted, stuck>>,
         cache' \in [Primaries -> Answers],
         \A p \in Primaries : cache'[p] # NoAnswer => Right(p, cache'[p])
  PROVE  IInv'
<1>1. TypeOK'
  BY DEF IInv, TypeOK, Becomes
<1>2. ListsInv' /\ CacheInv'
  BY DEF IInv, ListsInv, CacheInv, Listed, Right, Covers, Against, FanOut, Matches
<1>3. \A d \in Callers : call'[d] = IF d = c THEN k ELSE call[d]
  BY DEF IInv, TypeOK, Becomes
<1>4. ASSUME NEW d \in Callers PROVE CallInv(call[d])'
  <2>1. PICK l : l = call'[d] /\ CallInv(l)
    BY <1>3 DEF IInv
  <2>2. QED
    BY ONLY <2>1, UNCHANGED <<lists, posted, stuck>>
    DEF CallInv, Live, Starting, Following, Walking, Finished
<1>5. QED
  BY <1>1, <1>2, <1>4 DEF IInv
LEMMA OneCall ==
  ASSUME IInv, NEW c \in Callers, NEW k, k \in Calls, CallInv(k), Becomes(c, k),
         UNCHANGED <<lists, posted, stuck, cache>>
  PROVE  IInv'
  BY OneCallAndCache DEF IInv, TypeOK, CacheInv
-----------------------------------------------------------------------------
(* What the goings-on of a call leave of its state.                        *)
LEMMA OnwardIs ==
  ASSUME NEW k \in Calls, NEW stage \in Stages, NEW o, o = Onward(k, stage)
  PROVE  /\ o \in Calls /\ o.at = stage /\ o.doc = k.doc /\ o.ans = k.ans
         /\ o.left = k.left /\ o.offset = 0
<1>1. o = [at |-> stage, doc |-> k.doc, cancelled |-> k.cancelled, attempt |-> 0,
           pages |-> 0, offset |-> 0, left |-> k.left, ans |-> k.ans]
  BY DEF Calls, Onward
<1>2. 0 \in 0..(MaxPages - 1) /\ 0 \in 0..2 /\ 0 \in Nat
  BY PagesAssumption
<1>3. /\ k.doc \in Primaries \union {NoDoc} /\ k.cancelled \in BOOLEAN
      /\ k.left \in SUBSET Queries /\ k.ans \in Answers
  BY DEF Calls
<1>4. QED
  BY <1>1, <1>2, <1>3 DEF Calls

LEMMA FailedInv ==
  ASSUME NEW k \in Calls
  PROVE  Onward(k, "failed") \in Calls /\ CallInv(Onward(k, "failed"))
  BY OnwardIs DEF Stages, Ended, CallInv, Live, Starting, Following, Walking, Finished

(* What every call under way may rely on.                                  *)
UnderWay(k) == /\ k \in Calls /\ k.doc \in Docs \intersect Primaries /\ k.ans.items = {}
               /\ k.ans.must \subseteq posted /\ posted \subseteq k.ans.may

LEMMA SearchInv ==
  ASSUME TypeOK, NEW k, UnderWay(k), Covers(k.doc, k.ans), k.ans.docs \subseteq Docs
  PROVE  Search(k) \in Calls /\ CallInv(Search(k))
<1> DEFINE s == Search(k)  o == Onward(k, "rows")
<1>1. /\ o \in Calls /\ o.at = "rows" /\ o.doc = k.doc /\ o.ans = k.ans /\ o.offset = 0
  BY OnwardIs DEF UnderWay, Stages
<1>2. s = [o EXCEPT !.left = k.ans.docs \X Kinds]
  BY DEF Search
<1> HIDE DEF s, o
<1>3. /\ s.at = "rows" /\ s.doc = k.doc /\ s.ans = k.ans /\ s.offset = 0
      /\ s.left = k.ans.docs \X Kinds
  BY <1>1, <1>2 DEF Calls
<1>4. s \in Calls
  <2>1. k.ans.docs \X Kinds \in SUBSET Queries
    BY DEF Queries
  <2>2. QED
    BY <1>1, <1>2, <2>1 DEF Calls
<1>5. k.doc \in k.ans.docs
  BY DEF Covers, FanOut
<1>6. PICK kind : kind \in Kinds
  BY DocsAssumption
<1>7. <<k.doc, kind>> \in s.left
  BY <1>3, <1>5, <1>6
<1>8. lists[Query(s.left)] \in Seq(Ids)
  <2>1. Query(s.left) \in Queries
    BY <1>4, <1>7, QueryIsLeft DEF Calls
  <2>2. QED
    BY <2>1 DEF TypeOK
<1>9. \A j \in DOMAIN lists[Query(s.left)] : j > s.offset
  BY <1>3, <1>8
<1>10. Walking(s)
  BY <1>3, <1>7, <1>9 DEF UnderWay, Walking
<1>11. QED
  BY <1>3, <1>4, <1>10, Zenon DEF UnderWay, CallInv, Live, Starting, Following, Finished, Ended, s

LEMMA GatheredInv ==
  ASSUME TypeOK, NEW k, UnderWay(k),
         \/ k.ans.docs = {k.doc}
         \/ k.doc \in Rfcs /\ k.ans.docs = {k.doc} \union ({DraftOf[k.doc]} \ {NoDoc})
  PROVE  Gathered(k) \in Calls /\ CallInv(Gathered(k))
<1>1. k.ans.docs \subseteq Docs
  BY DocsAssumption DEF UnderWay
<1>2. CASE k.ans.docs \subseteq Rfcs
  <2>1. k.doc \in Rfcs /\ k.ans.docs = {k.doc}
    BY <1>2, DocsAssumption
  <2>2. Covers(k.doc, k.ans)
    BY <2>1 DEF Covers, UnderWay
  <2>3. QED
    BY <1>1, <1>2, <2>2, SearchInv DEF Gathered
<1>3. CASE ~(k.ans.docs \subseteq Rfcs)
  <2> DEFINE o == Onward(k, "replaces")
  <2>1. Gathered(k) = o
    BY <1>3 DEF Gathered
  <2>2. o \in Calls /\ o.at = "replaces" /\ o.doc = k.doc /\ o.ans = k.ans /\ o.offset = 0
    BY OnwardIs DEF UnderWay, Stages
  <2> HIDE DEF o
  <2>3. Origin(o) = Origin(k)
    BY <2>2 DEF Origin
  <2>4. Origin(k) \in Docs \ Rfcs /\ Origin(k) \in k.ans.docs /\ k.doc \in k.ans.docs
    <3>1. CASE k.doc \in Rfcs
      BY <1>3, <3>1, DocsAssumption DEF Origin
    <3>2. CASE k.doc \notin Rfcs
      BY <3>2 DEF Origin, UnderWay
    <3>3. QED
      BY <3>1, <3>2
  <2>5. k.ans.docs \subseteq FanOut(k.doc)
    BY DEF FanOut
  <2>6. Replaced[Origin(k)] \in Seq(Docs \ Rfcs)
    BY <2>4, DocsAssumption
  <2>7. Following(o)
    BY <2>2, <2>3, <2>4, <2>5, <2>6 DEF Following, UnderWay
  <2>8. CallInv(o)
    BY <2>2, <2>7, Zenon DEF UnderWay, CallInv, Live, Starting, Walking, Finished, Ended
  <2>9. QED
    BY <2>1, <2>2, <2>8
<1>4. QED
  BY <1>2, <1>3
-----------------------------------------------------------------------------
LEMMA IdleIsCall == Idle \in Calls
<1>1. NoAnswer \in Answers
  BY DEF NoAnswer, Answers
<1>2. 0 \in 0..(MaxPages - 1) /\ 0 \in 0..2 /\ 0 \in Nat
  BY PagesAssumption
<1>3. QED
  BY <1>1, <1>2, Zenon DEF Idle, Calls, Stages

LEMMA BeginInv ==
  ASSUME IInv, NEW c \in Callers, NEW p \in Primaries, Begin(c, p)
  PROVE  IInv'
<1> DEFINE a == [docs |-> {p}, items |-> {}, must |-> posted, may |-> posted]
           k == [Idle EXCEPT !.at = "verify", !.doc = p, !.ans = a]
<1>1. Becomes(c, k) /\ UNCHANGED <<lists, posted, stuck, cache>>
  BY Zenon DEF Begin
<1>2. a \in Answers
  <2>1. {p} \in (SUBSET Docs) \union (SUBSET Primaries)
    OBVIOUS
  <2>2. {} \in SUBSET Ids /\ posted \in SUBSET Ids
    BY DEF IInv, TypeOK
  <2>3. QED
    BY <2>1, <2>2 DEF Answers
<1>3. a.docs = {p} /\ a.items = {} /\ a.must = posted /\ a.may = posted
  OBVIOUS
<1> HIDE DEF a
<1>4. k \in Calls /\ k.at = "verify" /\ k.doc = p /\ k.ans = a
  BY <1>2, IdleIsCall DEF Calls, Stages
<1> HIDE DEF k
<1>5. CallInv(k)
  BY <1>3, <1>4 DEF CallInv, Live, Starting, Following, Walking, Finished, Ended
<1>6. QED
  BY <1>1, <1>4, <1>5, OneCall

LEMMA VerifyInv ==
  ASSUME IInv, NEW c \in Callers, Verify(c)
  PROVE  IInv'
<1> DEFINE k == call[c]  o == Onward(k, "cache")
<1>1. k \in Calls /\ k.at = "verify" /\ k.doc \in Docs /\ CallInv(k)
  BY DEF IInv, TypeOK, Verify, At
<1>2. o \in Calls /\ o.at = "cache" /\ o.doc = k.doc /\ o.ans = k.ans
  BY <1>1, OnwardIs DEF Stages
<1>3. Becomes(c, o) /\ UNCHANGED <<lists, posted, stuck, cache>>
  BY DEF Verify
<1> HIDE DEF k, o
<1>4. CallInv(o)
  BY <1>1, <1>2 DEF CallInv, Live, Starting, Following, Walking, Finished, Ended
<1>5. QED
  BY <1>2, <1>3, <1>4, OneCall

LEMMA LookupInv ==
  ASSUME IInv, NEW c \in Callers, Lookup(c)
  PROVE  IInv'
<1> DEFINE k == call[c]
<1>1. k \in Calls /\ k.at = "cache" /\ CallInv(k) /\ UNCHANGED <<lists, posted, stuck, cache>>
  BY DEF IInv, TypeOK, Lookup, At
<1>2. k.doc \in Primaries /\ UnderWay(k) /\ k.ans.docs = {k.doc}
  BY <1>1 DEF CallInv, Live, Starting, UnderWay, Ended
<1>3. CASE cache[k.doc] # NoAnswer
  <2> DEFINE o == Onward(k, "done")  l == [o EXCEPT !.ans = cache[k.doc]]
  <2>1. o \in Calls /\ o.at = "done" /\ o.doc = k.doc
    BY <1>1, OnwardIs DEF Stages
  <2>2. cache[k.doc] \in Answers /\ Right(k.doc, cache[k.doc])
    BY <1>2, <1>3 DEF IInv, TypeOK, CacheInv
  <2>3. Becomes(c, l)
    BY <1>3 DEF Lookup
  <2> HIDE DEF o
  <2>4. l \in Calls /\ l.at = "done" /\ l.doc = k.doc /\ l.ans = cache[k.doc]
    BY <2>1, <2>2 DEF Calls
  <2> HIDE DEF l
  <2>5. CallInv(l)
    BY <2>2, <2>4 DEF CallInv, Live, Starting, Following, Walking, Finished, Ended
  <2>6. QED
    BY <1>1, <2>3, <2>4, <2>5, OneCall
<1>4. CASE cache[k.doc] = NoAnswer /\ k.doc \in Rfcs
  <2> DEFINE l == Onward(k, "link")
  <2>1. l \in Calls /\ l.at = "link" /\ l.doc = k.doc /\ l.ans = k.ans
    BY <1>1, OnwardIs DEF Stages
  <2>2. Becomes(c, l)
    BY <1>4 DEF Lookup
  <2> HIDE DEF l
  <2>3. CallInv(l)
    BY <1>2, <1>4, <2>1 DEF UnderWay, CallInv, Live, Starting, Following, Walking, Finished, Ended
  <2>4. QED
    BY <1>1, <2>1, <2>2, <2>3, OneCall
<1>5. CASE cache[k.doc] = NoAnswer /\ k.doc \notin Rfcs
  <2>1. Becomes(c, Gathered(k))
    BY <1>5 DEF Lookup
  <2>2. Gathered(k) \in Calls /\ CallInv(Gathered(k))
    BY <1>2, GatheredInv DEF IInv
  <2>3. QED
    BY <1>1, <2>1, <2>2, OneCall
<1>6. QED
  BY <1>3, <1>4, <1>5

LEMMA LinkInv ==
  ASSUME IInv, NEW c \in Callers, Link(c)
  PROVE  IInv'
<1> DEFINE k == call[c]
           docs == k.ans.docs \union ({DraftOf[k.doc]} \ {NoDoc})
           l == [k EXCEPT !.ans.docs = docs]
<1>1. k \in Calls /\ k.at = "link" /\ CallInv(k) /\ UNCHANGED <<lists, posted, stuck, cache>>
  BY DEF IInv, TypeOK, Link, At
<1>2. UnderWay(k) /\ k.doc \in Rfcs /\ k.ans.docs = {k.doc}
  BY <1>1 DEF CallInv, Live, Starting, UnderWay, Ended
<1>3. Becomes(c, Gathered(l))
  BY DEF Link
<1>4. docs \subseteq Docs /\ docs = {k.doc} \union ({DraftOf[k.doc]} \ {NoDoc})
  BY <1>2, DocsAssumption
<1> HIDE DEF docs
<1>5. k.ans \in Answers
  BY <1>1 DEF Calls
<1>6. [k.ans EXCEPT !.docs = docs] \in Answers
  BY <1>4, <1>5 DEF Answers
<1>7. /\ l \in Calls /\ l.doc = k.doc /\ l.ans.docs = docs /\ l.ans.items = k.ans.items
      /\ l.ans.must = k.ans.must /\ l.ans.may = k.ans.may
  BY <1>1, <1>5, <1>6 DEF Calls, Answers
<1> HIDE DEF k, l
<1>8. Gathered(l) \in Calls /\ CallInv(Gathered(l))
  BY <1>2, <1>4, <1>7, GatheredInv DEF IInv, UnderWay
<1>9. QED
  BY <1>1, <1>3, <1>8, OneCall

LEMMA GiveUpInv ==
  ASSUME IInv, NEW c \in Callers, GiveUp(c)
  PROVE  IInv'
<1> DEFINE k == call[c]
<1>1. k \in Calls /\ CallInv(k) /\ UNCHANGED <<lists, posted, stuck, cache>>
  BY DEF IInv, TypeOK, GiveUp
<1>2. CASE k.at = "link"
  <2>1. UnderWay(k) /\ k.ans.docs = {k.doc}
    BY <1>1, <1>2, DocsAssumption DEF CallInv, Live, Starting, UnderWay, Ended
  <2>2. Gathered(k) \in Calls /\ CallInv(Gathered(k))
    BY <2>1, GatheredInv DEF IInv
  <2>3. QED
    BY <1>1, <1>2, <2>2, OneCall DEF GiveUp
<1>3. CASE k.at # "link"
  BY <1>1, <1>3, FailedInv, OneCall DEF GiveUp
<1>4. QED
  BY <1>2, <1>3

(* A failed attempt and a cancellation leave what is known as it is.       *)
LEMMA QuietInv ==
  ASSUME IInv, NEW c \in Callers, Retry(c) \/ Cancel(c)
  PROVE  IInv'
<1> DEFINE k == call[c]
<1>1. k \in Calls /\ CallInv(k) /\ UNCHANGED <<lists, posted, stuck, cache>>
  BY DEF IInv, TypeOK, Retry, Cancel
<1>2. PICK l \in Calls : /\ Becomes(c, l)
                        /\ l.at = k.at /\ l.doc = k.doc /\ l.ans = k.ans
                        /\ l.left = k.left /\ l.offset = k.offset
  <2>1. CASE Retry(c)
    <3>1. k.attempt + 1 \in 0..2
      BY <1>1, <2>1 DEF Retry, Calls
    <3>2. [k EXCEPT !.attempt = @ + 1] \in Calls
      BY <1>1, <3>1 DEF Calls
    <3>3. Becomes(c, [k EXCEPT !.attempt = @ + 1])
      BY <1>1, <2>1 DEF Retry, Becomes, IInv, TypeOK
    <3>4. QED
      BY <1>1, <3>2, <3>3 DEF Calls
  <2>2. CASE Cancel(c)
    <3>1. [k EXCEPT !.cancelled = TRUE] \in Calls
      BY <1>1 DEF Calls
    <3>2. Becomes(c, [k EXCEPT !.cancelled = TRUE])
      BY <1>1, <2>2 DEF Cancel, Becomes, IInv, TypeOK
    <3>3. QED
      BY <1>1, <3>1, <3>2 DEF Calls
  <2>3. QED
    BY <2>1, <2>2
<1> HIDE DEF k
<1>3. Origin(l) = Origin(k)
  BY <1>2 DEF Origin
<1>4. CallInv(l)
  BY <1>1, <1>2, <1>3 DEF CallInv, Live, Starting, Following, Walking, Finished, Ended
<1>5. QED
  BY <1>1, <1>2, <1>4, OneCall
-----------------------------------------------------------------------------
(* A page is followed by the end, the next page, or, at the cap, failure.  *)
LEMMA PagedIs ==
  ASSUME NEW k \in Calls, NEW page, Cardinality(page) \in Nat, NEW end
  PROVE  \/ IsLast(page) /\ Paged(k, page, end) = end
         \/ Paged(k, page, end) = Onward(k, "failed")
         \/ /\ ~IsLast(page)
            /\ \E m \in Calls : /\ Paged(k, page, end) = m
                               /\ m.at = k.at /\ m.doc = k.doc /\ m.ans = k.ans
                               /\ m.left = k.left
                               /\ m.offset = k.offset + Cardinality(page)
<1> DEFINE m == [k EXCEPT !.attempt = 0, !.pages = @ + 1, !.offset = @ + Cardinality(page)]
<1>1. CASE IsLast(page)
  BY <1>1 DEF Paged
<1>2. CASE ~IsLast(page) /\ k.pages + 1 = MaxPages
  BY <1>2 DEF Paged
<1>3. CASE ~IsLast(page) /\ k.pages + 1 # MaxPages
  <2>1. Paged(k, page, end) = m
    BY <1>3 DEF Paged
  <2>2. /\ k.pages + 1 \in 0..(MaxPages - 1) /\ 0 \in 0..2
        /\ k.offset + Cardinality(page) \in Nat
    BY <1>3, PagesAssumption DEF Calls
  <2>3. /\ m \in Calls /\ m.at = k.at /\ m.doc = k.doc /\ m.ans = k.ans
        /\ m.left = k.left /\ m.offset = k.offset + Cardinality(page)
    BY <2>2 DEF Calls
  <2> HIDE DEF m
  <2>4. QED
    BY <1>3, <2>1, <2>3
<1>4. QED
  BY <1>1, <1>2, <1>3

LEMMA ReplacesInv ==
  ASSUME IInv, NEW c \in Callers, Replaces(c)
  PROVE  IInv'
<1> DEFINE k == call[c]
           list == Replaced[Origin(k)]
           page == Page(list, k.offset)
           docs == k.ans.docs \union {list[j] : j \in page}
           more == [k EXCEPT !.ans.docs = docs]
           l == Paged(more, page, Search(more))
<1>1. /\ k \in Calls /\ k.at = "replaces" /\ CallInv(k) /\ Becomes(c, l)
      /\ UNCHANGED <<lists, posted, stuck, cache>>
  BY DEF IInv, TypeOK, Replaces, At
<1>2. UnderWay(k) /\ Following(k) /\ k.offset \in Nat
  BY <1>1 DEF CallInv, Live, Following, UnderWay, Ended, Calls
<1>3. list \in Seq(Docs \ Rfcs) /\ DOMAIN list = 1..Len(list)
  BY <1>1, <1>2, DocsAssumption DEF Following
<1> DEFINE from == From(k.offset)
<1>4. PageOf(list, page, from)
  BY <1>2, <1>3, PageFacts
<1>5. FanOut(k.doc) = {k.doc, Origin(k)} \union {list[j] : j \in DOMAIN list}
  BY <1>1, <1>2, DocsAssumption DEF FanOut, Origin, ToSet, Following
<1>6. FanOut(k.doc) \subseteq Docs
  BY <1>1, <1>2, <1>3, <1>5 DEF Following
<1> HIDE DEF list, page, l
<1>7. /\ docs \subseteq FanOut(k.doc) /\ {k.doc, Origin(k)} \subseteq docs
      /\ k.ans.docs \subseteq docs /\ \A j \in page : list[j] \in docs
  BY <1>1, <1>2, <1>4, <1>5 DEF Following, PageOf
<1>8. k.ans \in Answers /\ docs \in (SUBSET Docs) \union (SUBSET Primaries)
  BY <1>1, <1>6, <1>7 DEF Calls
<1> HIDE DEF docs
<1>9. [k.ans EXCEPT !.docs = docs] \in Answers
  BY <1>8 DEF Answers
<1>10. /\ more \in Calls /\ more.at = k.at /\ more.doc = k.doc /\ more.offset = k.offset
       /\ more.ans.docs = docs /\ more.ans.items = k.ans.items
       /\ more.ans.must = k.ans.must /\ more.ans.may = k.ans.may
  BY <1>1, <1>8, <1>9 DEF Calls, Answers
<1> HIDE DEF more
<1>11. UnderWay(more)
  BY <1>2, <1>10 DEF UnderWay
<1> HIDE DEF k
<1>12. CASE IsLast(page) /\ l = Search(more)
  <2>1. docs = FanOut(k.doc)
    <3>1. \A j \in DOMAIN list : list[j] \in docs
      <4>1. CASE stuck
        BY <1>3, <1>4, <1>7, <1>12, <4>1 DEF From, PageOf
      <4>2. CASE ~stuck
        BY <1>1, <1>2, <1>3, <1>4, <1>7, <1>12, <4>2 DEF Following, list, From, PageOf
      <4>3. QED
        BY <4>1, <4>2
    <3>2. QED
      BY <1>5, <1>7, <3>1
  <2>2. Covers(more.doc, more.ans)
    BY <1>10, <1>11, <2>1 DEF Covers, UnderWay
  <2>3. Search(more) \in Calls /\ CallInv(Search(more))
    BY <1>6, <1>7, <1>10, <1>11, <2>2, SearchInv DEF IInv
  <2>4. QED
    BY <1>1, <1>12, <2>3, OneCall
<1>13. CASE l = Onward(more, "failed")
  BY <1>1, <1>10, <1>13, FailedInv, OneCall
<1>14. ASSUME ~IsLast(page), NEW m \in Calls, l = m, m.at = more.at, m.doc = more.doc,
              m.ans = more.ans, m.offset = more.offset + Cardinality(page)
       PROVE  IInv'
  <2>1. Origin(m) = Origin(k)
    BY <1>10, <1>14 DEF Origin
  <2>2. ~stuck => \A j \in DOMAIN list : j <= m.offset => list[j] \in docs
    <3>1. m.offset = k.offset + PageLimit
      BY <1>4, <1>10, <1>14 DEF PageOf
    <3>2. QED
      BY <1>1, <1>2, <1>3, <1>4, <1>7, <1>14, <3>1, PagesAssumption DEF Following, list, From, PageOf
  <2>3. Following(m)
    BY <1>1, <1>2, <1>7, <1>10, <1>14, <2>1, <2>2 DEF Following, list
  <2>4. CallInv(m)
    BY <1>1, <1>2, <1>10, <1>14, <2>3 DEF UnderWay, CallInv, Live, Starting, Walking, Finished, Ended
  <2>5. QED
    BY <1>1, <1>14, <2>4, OneCall
<1>15. QED
  <2>1. Cardinality(page) \in Nat
    BY <1>4 DEF PageOf
  <2>2. l = Paged(more, page, Search(more))
    BY DEF l
  <2>3. QED
    BY <1>10, <1>12, <1>13, <1>14, <2>1, <2>2, PagedIs

LEMMA FanOutDocs ==
  ASSUME NEW p, NEW a, Covers(p, a)
  PROVE  a.docs \subseteq Docs /\ p \in a.docs
<1>1. CASE p \in Rfcs /\ a.docs = {p}
  BY <1>1, DocsAssumption
<1>2. CASE a.docs = FanOut(p)
  <2> DEFINE d == IF p \in Rfcs THEN DraftOf[p] ELSE p
  <2>1. p \in Docs /\ (d = NoDoc \/ d \in Docs \ Rfcs)
    BY DocsAssumption DEF Covers
  <2>2. d # NoDoc => Replaced[d] \in Seq(Docs \ Rfcs)
    BY <2>1, DocsAssumption
  <2>3. d # NoDoc => ToSet(Replaced[d]) \subseteq Docs
    BY <2>2 DEF ToSet
  <2>4. a.docs = {p} \union ({d} \ {NoDoc})
                 \union (IF d = NoDoc THEN {} ELSE ToSet(Replaced[d]))
    BY <1>2 DEF FanOut
  <2> HIDE DEF d
  <2>5. QED
    BY <2>1, <2>3, <2>4
<1>3. QED
  BY <1>1, <1>2 DEF Covers

LEMMA RowsInv ==
  ASSUME IInv, NEW c \in Callers, Rows(c)
  PROVE  IInv'
<1> DEFINE k == call[c]
           q == Query(k.left)
           list == lists[q]
           page == Page(list, k.offset)
           items == k.ans.items \union Kept(list, page)
           more == [k EXCEPT !.ans.items = items]
           rest == k.left \ {q}
           end == [Onward(more, IF rest = {} THEN "save" ELSE "rows") EXCEPT !.left = rest]
           l == Paged(more, page, end)
<1>1. /\ k \in Calls /\ k.at = "rows" /\ CallInv(k) /\ Becomes(c, l)
      /\ UNCHANGED <<lists, posted, stuck, cache>>
  BY DEF IInv, TypeOK, Rows, At
<1>2. /\ k.doc \in Primaries /\ k.ans.must \subseteq posted /\ posted \subseteq k.ans.may
      /\ Walking(k) /\ k.offset \in Nat /\ k.left \subseteq Queries /\ k.ans \in Answers
  BY <1>1 DEF CallInv, Live, Ended, Calls
<1>3. /\ Covers(k.doc, k.ans) /\ q \in k.left /\ k.left \subseteq k.ans.docs \X Kinds
      /\ k.ans.docs \subseteq Docs
  BY <1>1, <1>2, QueryIsLeft, FanOutDocs DEF Walking
<1>4. q \in Queries /\ list \in Seq(Ids) /\ DOMAIN list = 1..Len(list) /\ posted \subseteq Ids
  BY <1>2, <1>3 DEF IInv, TypeOK
<1> DEFINE from == From(k.offset)
<1>5. PageOf(list, page, from)
  BY <1>2, <1>4, PageFacts
<1>6. /\ \A j \in DOMAIN list : Matches(list[j], q)
      /\ \A i \in posted : Matches(i, q) => \E j \in DOMAIN list : list[j] = i
  BY <1>4 DEF IInv, ListsInv
<1> HIDE DEF l, end, q, page, from
<1>7. /\ k.ans.items \subseteq items
      /\ items \subseteq k.ans.items \union posted
      /\ \A i \in items : i \in k.ans.items \/ \E j \in page : list[j] = i
      /\ \A j \in page : list[j] \in posted => list[j] \in items
  <2>1. items = k.ans.items \union ({list[j] : j \in page} \intersect posted)
    BY DEF Kept
  <2> HIDE DEF items, list, k
  <2>2. QED
    BY ONLY <2>1
<1>8. items \subseteq k.ans.may \intersect Against(k.ans.docs)
  <2>1. k.ans.items \subseteq k.ans.may \intersect Against(k.ans.docs)
    BY <1>1, <1>2 DEF Walking
  <2>2. q[1] \in k.ans.docs
    BY <1>3
  <2>3. ASSUME NEW j \in page PROVE list[j] \in Against(k.ans.docs)
    <3>1. list[j] \in Ids /\ q[1] \in About[list[j]]
      BY <1>4, <1>5, <1>6 DEF PageOf, Matches
    <3>2. QED
      BY <2>2, <3>1 DEF Against
  <2>4. QED
    BY <1>2, <1>7, <2>1, <2>3
<1>9. items \in SUBSET Ids
  BY <1>8 DEF Against
<1> HIDE DEF items
<1>10. [k.ans EXCEPT !.items = items] \in Answers
  BY <1>2, <1>9 DEF Answers
<1>11. /\ more \in Calls /\ more.at = k.at /\ more.doc = k.doc /\ more.offset = k.offset
       /\ more.left = k.left /\ more.ans.docs = k.ans.docs /\ more.ans.items = items
       /\ more.ans.must = k.ans.must /\ more.ans.may = k.ans.may
  BY <1>1, <1>2, <1>9, <1>10 DEF Calls, Answers
<1> HIDE DEF more, list
<1>12. ASSUME IsLast(page), NEW i \in k.ans.must, Matches(i, q)
       PROVE  i \in items
  <2>1. PICK j \in DOMAIN list : list[j] = i
    BY <1>2, <1>6, <1>12
  <2>2. CASE j \in page
    BY <1>2, <1>7, <2>1, <2>2
  <2>3. CASE ~stuck /\ j <= k.offset
    <3>1. i \in k.ans.items
      BY <1>1, <1>2, <1>4, <2>1, <2>3 DEF Walking, list, q
    <3>2. QED
      BY <1>7, <3>1
  <2>4. QED
    BY <1>2, <1>4, <1>5, <1>12, <2>1, <2>2, <2>3 DEF PageOf, From, from
<1>13. CASE IsLast(page) /\ l = end
  <2> DEFINE stage == IF rest = {} THEN "save" ELSE "rows"
             o == Onward(more, stage)
  <2>1. o \in Calls /\ o.at = stage /\ o.doc = more.doc /\ o.ans = more.ans /\ o.offset = 0
    <3>1. stage \in Stages
      BY DEF Stages
    <3> HIDE DEF stage
    <3>2. QED
      BY <1>11, <3>1, OnwardIs
  <2>2. end = [o EXCEPT !.left = rest]
    BY DEF end
  <2> HIDE DEF o, stage
  <2>3. rest \in SUBSET Queries
    BY <1>2
  <2> HIDE DEF rest
  <2>4. /\ end \in Calls /\ end.at = stage /\ end.doc = k.doc /\ end.ans = more.ans
        /\ end.offset = 0 /\ end.left = rest
    BY <1>11, <2>1, <2>2, <2>3 DEF Calls
  <2>5. ASSUME NEW r \in (k.ans.docs \X Kinds) \ rest, NEW i \in k.ans.must, Matches(i, r)
        PROVE  i \in items
    <3>1. CASE r = q
      BY <1>12, <1>13, <2>5, <3>1
    <3>2. CASE r # q
      <4>1. r \in (k.ans.docs \X Kinds) \ k.left
        BY <2>5, <3>2 DEF rest
      <4>2. QED
        BY <1>1, <1>2, <1>7, <2>5, <4>1 DEF Walking
    <3>3. QED
      BY <3>1, <3>2
  <2>6. CASE rest = {}
    <3>1. ASSUME NEW i \in k.ans.must, i \in Against(k.ans.docs)
          PROVE  i \in items
      <4>1. PICK d \in k.ans.docs : d \in About[i]
        BY <3>1 DEF Against
      <4>2. i \in Ids /\ KindOf[i] \in Kinds
        BY <3>1, DocsAssumption DEF Against
      <4>3. <<d, KindOf[i]>> \in (k.ans.docs \X Kinds) \ rest /\ Matches(i, <<d, KindOf[i]>>)
        BY <2>6, <4>1, <4>2 DEF Matches
      <4>4. QED
        BY <2>5, <4>3
    <3>2. Right(end.doc, end.ans)
      BY <1>3, <1>8, <1>11, <2>4, <3>1 DEF Right, Covers
    <3>3. end.at = "save"
      BY <2>4, <2>6 DEF stage
    <3>4. CallInv(end)
      BY <1>2, <1>11, <2>4, <3>2, <3>3 DEF CallInv, Live, Starting, Following, Walking, Finished, Ended
    <3>5. QED
      BY <1>1, <1>13, <2>4, <3>4, OneCall
  <2>7. CASE rest # {}
    <3>1. lists[Query(rest)] \in Seq(Ids)
      BY <2>3, <2>7, QueryIsLeft DEF IInv, TypeOK
    <3>2. \A j \in DOMAIN lists[Query(rest)] : j > 0
      BY <3>1
    <3>3. rest \subseteq k.ans.docs \X Kinds
      BY <1>3 DEF rest
    <3>4. Walking(end)
      BY <1>3, <1>8, <1>11, <2>4, <2>5, <2>7, <3>2, <3>3 DEF Walking, Covers
    <3>5. end.at = "rows"
      BY <2>4, <2>7 DEF stage
    <3>6. CallInv(end)
      BY <1>2, <1>11, <2>4, <3>4, <3>5 DEF CallInv, Live, Starting, Following, Finished, Ended
    <3>7. QED
      BY <1>1, <1>13, <2>4, <3>6, OneCall
  <2>8. QED
    BY <2>6, <2>7
<1>14. CASE l = Onward(more, "failed")
  BY <1>1, <1>11, <1>14, FailedInv, OneCall
<1>15. ASSUME ~IsLast(page), NEW m \in Calls, l = m, m.at = more.at, m.doc = more.doc,
              m.ans = more.ans, m.left = more.left, m.offset = more.offset + Cardinality(page)
       PROVE  IInv'
  <2>1. m.offset = k.offset + PageLimit
    BY <1>5, <1>11, <1>15 DEF PageOf
  <2>2. ASSUME ~stuck, NEW j \in DOMAIN list, list[j] \in k.ans.must
        PROVE  j > m.offset \/ list[j] \in items
    <3>1. CASE j <= k.offset
      <4>1. list[j] \in k.ans.items
        BY <1>1, <1>2, <1>4, <2>2, <3>1 DEF Walking, list, q
      <4>2. QED
        BY <1>7, <4>1
    <3>2. CASE j > k.offset /\ j <= k.offset + PageLimit
      <4>1. j \in page
        BY <1>2, <1>4, <1>5, <1>15, <2>2, <3>2 DEF PageOf, From, from
      <4>2. QED
        BY <1>2, <1>7, <2>2, <4>1
    <3>3. QED
      BY <1>2, <1>4, <2>1, <2>2, <3>1, <3>2, PagesAssumption
  <2>3. list = lists[Query(m.left)]
    BY <1>11, <1>15 DEF list, q
  <2>4. \A r \in (k.ans.docs \X Kinds) \ k.left : \A i \in k.ans.must :
          Matches(i, r) => i \in items
    BY <1>1, <1>2, <1>7 DEF Walking
  <2>5. Walking(m)
    BY <1>3, <1>8, <1>11, <1>15, <2>2, <2>3, <2>4 DEF Walking, Covers
  <2>6. CallInv(m)
    BY <1>1, <1>2, <1>11, <1>15, <2>5 DEF CallInv, Live, Starting, Following, Finished, Ended
  <2>7. QED
    BY <1>1, <1>15, <2>6, OneCall
<1>16. QED
  <2>1. Cardinality(page) \in Nat
    BY <1>5 DEF PageOf
  <2>2. l = Paged(more, page, end)
    BY DEF l
  <2>3. QED
    BY <1>11, <1>13, <1>14, <1>15, <2>1, <2>2, PagedIs

LEMMA SaveInv ==
  ASSUME IInv, NEW c \in Callers, Save(c)
  PROVE  IInv'
<1> DEFINE k == call[c]  l == Onward(k, "done")
<1>1. /\ k \in Calls /\ k.at = "save" /\ CallInv(k) /\ Becomes(c, l)
      /\ UNCHANGED <<lists, posted, stuck>>
  BY DEF IInv, TypeOK, Save, At
<1>2. k.doc \in Primaries /\ Right(k.doc, k.ans) /\ k.ans \in Answers
  BY <1>1 DEF CallInv, Live, Finished, Ended, Calls
<1>3. l \in Calls /\ l.at = "done" /\ l.doc = k.doc /\ l.ans = k.ans
  BY <1>1, OnwardIs DEF Stages
<1>4. /\ cache' \in [Primaries -> Answers]
      /\ \A p \in Primaries : cache'[p] # NoAnswer => Right(p, cache'[p])
  BY <1>2 DEF IInv, TypeOK, CacheInv, Save
<1> HIDE DEF l
<1>5. CallInv(l)
  BY <1>2, <1>3 DEF CallInv, Live, Starting, Following, Walking, Finished, Ended
<1>6. QED
  BY <1>1, <1>3, <1>4, <1>5, OneCallAndCache

LEMMA ExpireInv ==
  ASSUME IInv, Expire
  PROVE  IInv'
<1>1. NoAnswer \in Answers
  BY DEF NoAnswer, Answers
<1>2. TypeOK' /\ CacheInv'
  BY <1>1 DEF Expire, IInv, TypeOK, CacheInv, Right, Covers, Against, FanOut
<1>3. ListsInv'
  BY DEF Expire, IInv, ListsInv, Listed, Matches
<1>4. ASSUME NEW d \in Callers PROVE CallInv(call[d])'
  <2>1. PICK l : l = call'[d] /\ CallInv(l)
    BY DEF IInv, Expire
  <2>2. UNCHANGED <<lists, posted, stuck>>
    BY DEF Expire
  <2>3. QED
    BY ONLY <2>1, <2>2 DEF CallInv, Live, Starting, Following, Walking, Finished
<1>5. QED
  BY <1>2, <1>3, <1>4 DEF IInv
-----------------------------------------------------------------------------
(* A disclosure that is posted may be in an answer, whichever call it is.  *)
LEMMA PostInv ==
  ASSUME IInv, Post
  PROVE  IInv'
<1>1. PICK i \in Listed \ posted :
        /\ posted' = posted \union {i} /\ UNCHANGED <<lists, stuck, cache>>
        /\ call' = [c \in Callers |-> IF call[c].at \in Ended THEN call[c]
                                     ELSE [call[c] EXCEPT !.ans.may = @ \union {i}]]
  BY DEF Post
<1>2. i \in Ids
  BY DEF IInv, TypeOK, Listed, ToSet
<1>3. ListsInv' /\ CacheInv'
  BY <1>1 DEF IInv, ListsInv, Listed, Matches, CacheInv, Right, Covers, Against, FanOut
<1>4. ASSUME NEW d \in Callers
      PROVE  call'[d] \in Calls /\ CallInv(call[d])'
  <2> DEFINE k == call[d]
  <2>1. k \in Calls /\ CallInv(k) /\ k.ans \in Answers
    BY DEF IInv, TypeOK, Calls
  <2>2. CASE k.at \in Ended
    <3>1. call'[d] = k
      BY <1>1, <2>2
    <3>2. PICK l : l = call'[d] /\ l \in Calls /\ CallInv(l) /\ l.at \in Ended
      BY <2>1, <2>2, <3>1
    <3>3. QED
      BY <1>1, <3>2 DEF CallInv, Live, Starting, Following, Walking, Finished, Ended
  <2>3. CASE k.at \notin Ended
    <3> DEFINE may == k.ans.may \union {i}  l == [k EXCEPT !.ans.may = may]
    <3>1. [k.ans EXCEPT !.may = may] \in Answers
      BY <1>2, <2>1 DEF Answers
    <3>2. /\ l \in Calls /\ l.at = k.at /\ l.doc = k.doc /\ l.left = k.left
          /\ l.offset = k.offset /\ l.ans.docs = k.ans.docs /\ l.ans.items = k.ans.items
          /\ l.ans.must = k.ans.must /\ l.ans.may = may
      BY <2>1, <3>1 DEF Calls, Answers
    <3>3. call'[d] = l
      BY <1>1, <2>3
    <3> HIDE DEF l
    <3>4. PICK m : m = call'[d] /\ m = l
      BY <3>3
    <3>5. Origin(l) = Origin(k)
      BY <3>2 DEF Origin
    <3> HIDE DEF k
    <3>6. (Live(call[d]) /\ Starting(call[d]))'
      BY <1>1, <2>1, <2>3, <3>2, <3>3 DEF CallInv, Live, Starting
    <3>7. Following(call[d])'
      BY <1>1, <2>1, <3>2, <3>3, <3>5 DEF CallInv, Following
    <3>8. Walking(call[d])'
      BY <1>1, <2>1, <3>2, <3>3 DEF CallInv, Walking, Covers
    <3>9. Finished(call[d])'
      BY <1>1, <2>1, <3>2, <3>3 DEF CallInv, Finished, Right, Covers
    <3>10. QED
      BY <3>2, <3>3, <3>6, <3>7, <3>8, <3>9 DEF CallInv
  <2>4. QED
    BY <2>2, <2>3
<1>5. TypeOK'
  <2>1. call' \in [Callers -> Calls]
    BY <1>1, <1>4
  <2>2. QED
    BY <1>1, <1>2, <2>1 DEF IInv, TypeOK
<1>6. QED
  BY <1>3, <1>4, <1>5 DEF IInv

(* One that is withdrawn need not be.                                      *)
LEMMA WithdrawInv ==
  ASSUME IInv, Withdraw
  PROVE  IInv'
<1>1. PICK i \in posted :
        /\ posted' = posted \ {i} /\ UNCHANGED <<lists, stuck>>
        /\ call' = [c \in Callers |-> [call[c] EXCEPT !.ans.must = @ \ {i}]]
        /\ cache' = [p \in Primaries |-> [cache[p] EXCEPT !.must = @ \ {i}]]
  BY DEF Withdraw
<1>2. ListsInv'
  BY <1>1 DEF IInv, ListsInv, Listed, Matches
<1>3. ASSUME NEW p \in Primaries
      PROVE  cache'[p] \in Answers /\ (cache'[p] # NoAnswer => Right(p, cache'[p]))
  <2> DEFINE a == cache[p]  b == [a EXCEPT !.must = @ \ {i}]
  <2>1. a \in Answers /\ cache'[p] = b
    BY <1>1 DEF IInv, TypeOK
  <2>2. /\ b \in Answers /\ b.docs = a.docs /\ b.items = a.items /\ b.may = a.may
        /\ b.must = a.must \ {i}
    BY <2>1 DEF Answers
  <2>3. CASE a = NoAnswer
    <3>1. b = NoAnswer
      BY <2>3 DEF NoAnswer
    <3>2. QED
      BY <2>1, <2>2, <3>1
  <2>4. CASE a # NoAnswer
    <3>1. Right(p, a)
      BY <2>4 DEF IInv, CacheInv
    <3> HIDE DEF a, b
    <3>2. Right(p, b)
      BY <2>2, <3>1 DEF Right, Covers
    <3>3. QED
      BY <2>1, <2>2, <3>2
  <2>5. QED
    BY <2>3, <2>4
<1>4. CacheInv' /\ cache' \in [Primaries -> Answers]
  <2>1. cache' \in [Primaries -> Answers]
    BY <1>1, <1>3
  <2>2. QED
    BY <1>3, <2>1 DEF CacheInv, Right, Covers, Against, FanOut
<1>5. ASSUME NEW d \in Callers
      PROVE  call'[d] \in Calls /\ CallInv(call[d])'
  <2> DEFINE k == call[d]  must == k.ans.must \ {i}  l == [k EXCEPT !.ans.must = must]
  <2>1. k \in Calls /\ CallInv(k) /\ k.ans \in Answers
    BY DEF IInv, TypeOK, Calls
  <2>2. [k.ans EXCEPT !.must = must] \in Answers
    BY <2>1 DEF Answers
  <2>3. /\ l \in Calls /\ l.at = k.at /\ l.doc = k.doc /\ l.left = k.left
        /\ l.offset = k.offset /\ l.ans.docs = k.ans.docs /\ l.ans.items = k.ans.items
        /\ l.ans.must = must /\ l.ans.may = k.ans.may
    BY <2>1, <2>2 DEF Calls, Answers
  <2>4. call'[d] = l
    BY <1>1
  <2> HIDE DEF l
  <2>5. Origin(l) = Origin(k)
    BY <2>3 DEF Origin
  <2> HIDE DEF k
  <2>6. (Live(call[d]) /\ Starting(call[d]))'
    BY <1>1, <2>1, <2>3, <2>4 DEF CallInv, Live, Starting
  <2>7. Following(call[d])'
    BY <1>1, <2>1, <2>3, <2>4, <2>5 DEF CallInv, Following
  <2>8. Walking(call[d])'
    BY <1>1, <2>1, <2>3, <2>4 DEF CallInv, Walking, Covers
  <2>9. Finished(call[d])'
    BY <1>1, <2>1, <2>3, <2>4 DEF CallInv, Finished, Right, Covers
  <2>10. QED
    BY <2>3, <2>4, <2>6, <2>7, <2>8, <2>9 DEF CallInv
<1>6. TypeOK'
  <2>1. call' \in [Callers -> Calls]
    BY <1>1, <1>5
  <2>2. QED
    BY <1>1, <1>4, <2>1 DEF IInv, TypeOK
<1>7. QED
  BY <1>2, <1>4, <1>5, <1>6 DEF IInv

(* One that is filed moves the rows behind it away from the walk's start:  *)
(* a row may be read twice, none is passed over.                           *)
LEMMA DiscloseInv ==
  ASSUME IInv, Disclose
  PROVE  IInv'
<1>1. PICK i \in Ids \ Listed, at \in [Queries -> 1..(Cardinality(Listed) + 1)] :
        /\ \A q \in Queries : at[q] <= Len(lists[q]) + 1
        /\ lists' = [q \in Queries |-> IF Matches(i, q) THEN InsertAt(lists[q], at[q], i)
                                                     ELSE lists[q]]
        /\ UNCHANGED <<posted, stuck, cache, call>>
  BY DEF Disclose
<1>2. ASSUME NEW q \in Queries, Matches(i, q)
      PROVE  /\ lists[q] \in Seq(Ids) /\ DOMAIN lists[q] = 1..Len(lists[q])
             /\ Len(lists[q]) \in Nat /\ at[q] \in 1..(Len(lists[q]) + 1)
             /\ DOMAIN lists'[q] = 1..(Len(lists[q]) + 1)
             /\ Shifted(lists[q], at[q], i, lists'[q])
  <2>1. lists[q] \in Seq(Ids) /\ Len(lists[q]) \in Nat /\ DOMAIN lists[q] = 1..Len(lists[q])
    BY DEF IInv, TypeOK
  <2>2. at[q] \in 1..(Len(lists[q]) + 1)
    BY <1>1, <2>1
  <2>3. lists'[q] = InsertAt(lists[q], at[q], i)
    BY <1>1, <1>2
  <2>4. Shifted(lists[q], at[q], i, lists'[q])
    BY <2>1, <2>2, <2>3, Inserted
  <2>5. DOMAIN lists'[q] = 1..(Len(lists[q]) + 1)
    BY <2>4 DEF Shifted
  <2>6. QED
    BY <2>1, <2>2, <2>4, <2>5
<1>3. ASSUME NEW q \in Queries, ~Matches(i, q)
      PROVE  lists'[q] = lists[q] /\ lists[q] \in Seq(Ids)
  BY <1>1, <1>3 DEF IInv, TypeOK
<1>4. TypeOK'
  <2>1. lists' \in [Queries -> Seq(Ids)]
    BY <1>1, <1>2, <1>3 DEF Shifted
  <2>2. QED
    BY <1>1, <2>1 DEF IInv, TypeOK
(* Where a row goes.                                                       *)
<1>5. ASSUME NEW q \in Queries, NEW j \in DOMAIN lists[q]
      PROVE  \E n \in DOMAIN lists'[q] : lists'[q][n] = lists[q][j]
  <2>1. CASE Matches(i, q) /\ j < at[q]
    <3>1. lists'[q][j] = lists[q][j] /\ j \in DOMAIN lists'[q]
      <4>1. /\ Shifted(lists[q], at[q], i, lists'[q]) /\ lists[q] \in Seq(Ids)
            /\ DOMAIN lists'[q] = 1..(Len(lists[q]) + 1)
        BY <1>2, <2>1
      <4>2. j \in 1..(Len(lists[q]) + 1)
        BY <1>5, <4>1
      <4>3. QED
        BY <2>1, <4>1, <4>2 DEF Shifted
    <3>2. QED
      BY <3>1
  <2>2. CASE Matches(i, q) /\ j >= at[q]
    <3>1. j + 1 \in 1..(Len(lists[q]) + 1) /\ ~(j + 1 <= at[q]) /\ (j + 1) - 1 = j
      BY <1>2, <1>5, <2>2
    <3>2. lists'[q][j + 1] = lists[q][(j + 1) - 1]
      <4>1. ~(j + 1 < at[q]) /\ j + 1 # at[q]
        BY <1>2, <1>5, <2>2
      <4>2. PICK n \in 1..(Len(lists[q]) + 1) : n = j + 1
        BY <3>1
      <4>3. lists'[q][n] = lists[q][n - 1]
        BY <1>2, <2>2, <4>1, <4>2 DEF Shifted
      <4>4. QED
        BY <4>2, <4>3
    <3>3. QED
      BY <1>2, <2>2, <3>1, <3>2
  <2>3. CASE ~Matches(i, q)
    BY <1>3, <1>5, <2>3
  <2>4. QED
    BY <1>2, <1>5, <2>1, <2>2, <2>3
(* Where it comes from.                                                    *)
<1>6. ASSUME NEW q \in Queries, NEW n \in DOMAIN lists'[q]
      PROVE  \/ lists'[q][n] = i /\ Matches(i, q)
             \/ \E j \in DOMAIN lists[q] : j <= n /\ lists[q][j] = lists'[q][n]
  <2>1. CASE Matches(i, q) /\ n < at[q]
    <3>1. n \in 1..Len(lists[q]) /\ n <= n
      BY <1>2, <1>6, <2>1
    <3>2. lists'[q][n] = lists[q][n]
      BY <1>2, <1>6, <2>1 DEF Shifted
    <3>3. QED
      BY <1>2, <2>1, <3>1, <3>2
  <2>2. CASE Matches(i, q) /\ n > at[q]
    <3>1. n - 1 \in 1..Len(lists[q]) /\ n - 1 <= n
      BY <1>2, <1>6, <2>2
    <3>2. lists'[q][n] = lists[q][n - 1]
      <4>1. n \in 1..(Len(lists[q]) + 1) /\ ~(n < at[q]) /\ n # at[q]
        BY <1>2, <1>6, <2>2
      <4>2. QED
        BY <1>2, <2>2, <4>1 DEF Shifted
    <3>3. QED
      BY <1>2, <2>2, <3>1, <3>2
  <2>3. CASE Matches(i, q) /\ n = at[q]
    BY <1>2, <1>6, <2>3 DEF Shifted
  <2>4. CASE ~Matches(i, q)
    <3>1. n \in DOMAIN lists[q] /\ n \in Nat
      BY <1>3, <1>6, <2>4
    <3>2. QED
      BY <1>3, <2>4, <3>1
  <2>5. QED
    BY <1>2, <1>6, <2>1, <2>2, <2>3, <2>4
<1>7. \A q \in Queries : \A j \in DOMAIN lists[q] : lists[q][j] \in Listed
  BY DEF Listed, ToSet
<1>8. Listed \subseteq Listed' /\ Listed' \subseteq Listed \union {i}
  <2>1. ASSUME NEW x \in Listed PROVE x \in Listed'
    <3>1. PICK q \in Queries : \E j \in DOMAIN lists[q] : lists[q][j] = x
      BY DEF Listed, ToSet
    <3>2. \E n \in DOMAIN lists'[q] : lists'[q][n] = x
      BY <1>5, <3>1
    <3>3. QED
      BY <3>2 DEF Listed, ToSet
  <2>2. ASSUME NEW x \in Listed' PROVE x \in Listed \union {i}
    <3>1. PICK q \in Queries : \E n \in DOMAIN lists'[q] : lists'[q][n] = x
      BY <2>2 DEF Listed, ToSet
    <3>2. QED
      BY <1>6, <1>7, <3>1
  <2>3. QED
    BY <2>1, <2>2
<1>9. ListsInv'
  <2>1. (posted \subseteq Listed)'
    BY <1>1, <1>8 DEF IInv, ListsInv
  <2>2. ASSUME NEW q \in Queries, NEW n \in DOMAIN lists'[q]
        PROVE  Matches(lists'[q][n], q)
    BY <1>6, <2>2 DEF IInv, ListsInv
  <2>3. ASSUME NEW q \in Queries, NEW x \in Listed', Matches(x, q)
        PROVE  \E n \in DOMAIN lists'[q] : lists'[q][n] = x
    <3>1. CASE x = i
      BY <1>2, <2>3, <3>1 DEF Shifted
    <3>2. CASE x \in Listed
      <4>1. PICK j \in DOMAIN lists[q] : lists[q][j] = x
        BY <2>3, <3>2 DEF IInv, ListsInv
      <4>2. QED
        BY <1>5, <4>1
    <3>3. QED
      BY <1>8, <2>3, <3>1, <3>2
  <2>4. QED
    BY <2>1, <2>2, <2>3 DEF ListsInv, Matches
<1>10. ASSUME NEW d \in Callers PROVE CallInv(call[d])'
  <2> DEFINE k == call[d]  q == Query(k.left)
  <2>1. k \in Calls /\ CallInv(k) /\ call'[d] = k
    BY <1>1 DEF IInv, TypeOK
  <2>2. (Live(call[d]) /\ Starting(call[d]) /\ Following(call[d]) /\ Finished(call[d]))'
    <3>1. PICK l : l = call'[d] /\ CallInv(l)
      BY <2>1
    <3>2. QED
      BY ONLY <1>1, <3>1 DEF CallInv, Live, Starting, Following, Finished
  <2>3. ASSUME k.at = "rows", ~stuck, NEW n \in DOMAIN lists'[q], lists'[q][n] \in k.ans.must
        PROVE  n > k.offset \/ lists'[q][n] \in k.ans.items
    <3>1. q \in Queries /\ k.left # {} /\ k.offset \in Nat /\ n \in Nat
      <4>1. k.left \subseteq Queries /\ k.left # {} /\ k.offset \in Nat
        BY <2>1, <2>3 DEF CallInv, Walking, Calls
      <4>2. q \in Queries
        BY <4>1, QueryIsLeft
      <4>3. lists'[q] \in Seq(Ids)
        BY <1>4, <4>2 DEF TypeOK
      <4>4. n \in Nat
        BY <2>3, <4>3
      <4>5. QED
        BY <4>1, <4>2, <4>4
    <3>2. k.ans.must \subseteq Listed
      BY <2>1, <2>3 DEF CallInv, Live, Ended, IInv, ListsInv
    <3>3. PICK j \in DOMAIN lists[q] : j <= n /\ lists[q][j] = lists'[q][n]
      BY <1>1, <1>6, <2>3, <3>1, <3>2
    <3>4. j > k.offset \/ lists[q][j] \in k.ans.items
      BY <2>1, <2>3, <3>3 DEF CallInv, Walking
    <3>5. j \in Nat
      BY <3>1, <3>3 DEF IInv, TypeOK
    <3>6. QED
      BY <3>1, <3>3, <3>4, <3>5
  <2>4. Walking(call[d])'
    <3> HIDE DEF k
    <3>1. q = Query(call'[d].left)
      BY <2>1
    <3> HIDE DEF q
    <3>2. QED
      BY <1>1, <2>1, <2>3, <3>1 DEF CallInv, Walking, Covers
  <2>5. QED
    BY <2>2, <2>4 DEF CallInv
<1>11. CacheInv'
  BY <1>1 DEF IInv, CacheInv, Right, Covers, Against, FanOut
<1>12. QED
  BY <1>4, <1>9, <1>10, <1>11 DEF IInv
-----------------------------------------------------------------------------
(* The state of every call says how much of the lists its answer has.      *)
THEOREM Invariance == Safety => []IInv
<1>1. Init => IInv
  <2> SUFFICES ASSUME Init PROVE IInv
    OBVIOUS
  <2>1. NoAnswer \in Answers /\ Idle \in Calls
    BY IdleIsCall DEF NoAnswer, Answers
  <2>2. TypeOK
    BY <2>1 DEF Init, TypeOK
  <2>3. Listed = {} /\ ListsInv
    BY DEF Init, Listed, ListsInv, ToSet
  <2>4. CacheInv
    BY DEF Init, CacheInv
  <2>5. CallInv(Idle)
    BY DEF Idle, CallInv, Live, Starting, Following, Walking, Finished, Ended
  <2>6. QED
    BY <2>2, <2>3, <2>4, <2>5 DEF Init, IInv
<1>2. IInv /\ [Next]_vars => IInv'
  <2> SUFFICES ASSUME IInv, [Next]_vars PROVE IInv'
    OBVIOUS
  <2>1. CASE Datatracker
    BY <2>1, DiscloseInv, PostInv, WithdrawInv DEF Datatracker
  <2>2. CASE Expire
    BY <2>2, ExpireInv
  <2>3. ASSUME NEW c \in Callers, Step(c) \/ Cancel(c) PROVE IInv'
    BY <2>3, VerifyInv, LookupInv, LinkInv, ReplacesInv, RowsInv, SaveInv, QuietInv, GiveUpInv
    DEF Step
  <2>4. ASSUME NEW c \in Callers, NEW p \in Primaries, Begin(c, p) PROVE IInv'
    BY <2>4, BeginInv
  <2>5. CASE UNCHANGED vars
    <3>1. TypeOK' /\ ListsInv' /\ CacheInv'
      BY <2>5 DEF vars, IInv, TypeOK, ListsInv, Listed, Matches, CacheInv, Right, Covers,
                  Against, FanOut
    <3>2. ASSUME NEW d \in Callers PROVE CallInv(call[d])'
      <4>1. PICK l : l = call'[d] /\ CallInv(l)
        BY <2>5 DEF vars, IInv
      <4>2. QED
        BY ONLY <2>5, <4>1
        DEF vars, CallInv, Live, Starting, Following, Walking, Finished
    <3>3. QED
      BY <3>1, <3>2 DEF IInv
  <2>6. QED
    BY <2>1, <2>2, <2>3, <2>4, <2>5 DEF Next
<1>3. QED
  BY <1>1, <1>2, PTL DEF Safety

LEMMA GivenIsRight ==
  ASSUME IInv
  PROVE  \A a \in Given \union Stored : \E p : Right(p, a)
<1>1. ASSUME NEW c \in Callers, At(c, "done") PROVE Right(call[c].doc, call[c].ans)
  BY <1>1 DEF IInv, CallInv, Finished, At
<1>2. QED
  BY <1>1 DEF Given, Stored, IInv, CacheInv

(* However the lists move between the pages, an answer has every           *)
(* disclosure against its documents that was posted all along (ipr.go:     *)
(* 64-66, 164-170): pages of any size, any cap, any number of callers.     *)
THEOREM SearchIsComplete == Safety => []CompleteForSearched
<1>1. IInv => CompleteForSearched
  BY GivenIsRight DEF CompleteForSearched, Right
<1>2. QED
  BY <1>1, Invariance, PTL

(* An answer has nothing else, and its documents are those of the fan-out  *)
(* rule: only the RFC's draft may be missing (ipr.go:294-303, 329-340).    *)
THEOREM AnswersStayRight == Safety => []AnswersAreRight
<1>1. IInv => AnswersAreRight
  <2> SUFFICES ASSUME IInv PROVE AnswersAreRight
    OBVIOUS
  <2>1. Sound
    BY GivenIsRight DEF Sound, Right
  <2>2. CoverageIsShown
    BY DEF IInv, CallInv, Finished, CacheInv, Right, CoverageIsShown, At
  <2>3. QED
    BY <2>1, <2>2 DEF AnswersAreRight, IInv
<1>2. QED
  BY <1>1, Invariance, PTL
=============================================================================
