------------------------ MODULE SectionLookupProofs ------------------------
(***************************************************************************)
(* The properties of SectionLookup, for every set of documents, every      *)
(* question and every number of imports.  First the index and the rows an  *)
(* import writes, then what the queries make of a document, then the calls.*)
(***************************************************************************)
EXTENDS SectionLookup, FiniteSetTheorems, WellFoundedInduction, TLAPS

Parts == UNION {Range(doc) : doc \in Documents}
Rows == [number : {s.number : s \in Parts}, parent : {s.parent : s \in Parts},
         text : {s.text : s \in Parts}, id : Nat \X Nat]

(* What the triggers make of a table.                                      *)
Entries(rows) == {<<r.id, Section(r)>> : r \in Range(rows)}

(* The writer's view of the two is in step after every statement, not only *)
(* when it commits: that is what makes the invariant inductive.            *)
Statements == {"delete", "insert"}
InTx ==
  /\ tx.pc \in Statements =>
       /\ tx = [pc |-> tx.pc, row |-> tx.row, doc |-> tx.doc,
                table |-> tx.table, fts |-> tx.fts, done |-> tx.done]
       /\ tx.doc \in Documents /\ tx.done \in 0 .. Len(tx.doc)
       /\ tx.table \in Seq(Rows) /\ tx.fts = Entries(tx.table)
  /\ tx.pc \in Statements \union {"references", "none"}

FtsInv == imports \in Nat /\ table \in Seq(Rows) /\ FtsInStep /\ InTx

LEMMA AppendedEntries ==
  ASSUME NEW rows \in Seq(Rows), NEW s \in Parts, NEW i \in Nat, NEW k \in Nat, NEW r,
         r = [number |-> s.number, parent |-> s.parent, text |-> s.text, id |-> <<i, k>>]
  PROVE  /\ Append(rows, r) \in Seq(Rows)
         /\ Entries(Append(rows, r)) = Entries(rows) \union {<<<<i, k>>, s>>}
<1>1. r \in Rows
  BY DEF Rows
<1>2. s = Section(s) /\ Section(r) = Section(s) /\ r.id = <<i, k>>
  BY DocumentsAreSections DEF Parts, Section
<1>3. Range(Append(rows, r)) = Range(rows) \union {r}
  <2>1. /\ DOMAIN rows = 1 .. Len(rows) /\ Len(rows) \in Nat
        /\ DOMAIN Append(rows, r) = 1 .. Len(rows) + 1
        /\ Append(rows, r)[Len(rows) + 1] = r
        /\ \A i1 \in 1 .. Len(rows) : Append(rows, r)[i1] = rows[i1]
    BY <1>1
  <2>2. 1 .. Len(rows) + 1 = (1 .. Len(rows)) \union {Len(rows) + 1}
    BY <2>1
  <2>3. ASSUME NEW x \in Range(Append(rows, r)) PROVE x \in Range(rows) \union {r}
    <3>1. PICK j \in DOMAIN Append(rows, r) : x = Append(rows, r)[j]
      BY <2>3, Zenon DEF Range
    <3>2. CASE j \in 1 .. Len(rows)
      BY <2>1, <3>1, <3>2, Zenon DEF Range
    <3>3. CASE j = Len(rows) + 1
      BY <2>1, <3>1, <3>3, Zenon
    <3>4. QED
      BY <2>1, <2>2, <3>1, <3>2, <3>3, Zenon
  <2>4. ASSUME NEW x \in Range(rows) PROVE x \in Range(Append(rows, r))
    <3>1. PICK j \in DOMAIN rows : x = rows[j]
      BY <2>4, Zenon DEF Range
    <3>2. j \in DOMAIN Append(rows, r) /\ Append(rows, r)[j] = x
      BY <2>1, <2>2, <3>1, Zenon
    <3>3. QED
      BY <3>2, Zenon DEF Range
  <2>5. r \in Range(Append(rows, r))
    BY <2>1, <2>2, Zenon DEF Range
  <2>6. QED
    BY <2>3, <2>4, <2>5, Zenon
<1>4. Append(rows, r) \in Seq(Rows)
  BY <1>1
<1>5. Entries(Append(rows, r)) = Entries(rows) \union {<<r.id, Section(r)>>}
  BY <1>3, Zenon DEF Entries
<1>6. QED
  BY <1>2, <1>4, <1>5

LEMMA ImportInv ==
  ASSUME FtsInv, Import
  PROVE  FtsInv'
<1> USE DEF FtsInv
<1>1. ASSUME NEW doc \in Documents, BeginImport(doc) PROVE FtsInv'
  BY <1>1, DocumentsAreSections DEF BeginImport, InTx, Statements, FtsInStep, Entries
<1>2. CASE DeleteSections
  <2>1. /\ tx.pc = "delete" /\ tx'.pc = "insert" /\ tx'.table = <<>>
        /\ tx'.fts = tx.fts \ Entries(tx.table) /\ tx'.doc = tx.doc /\ tx'.done = tx.done
    BY <1>2 DEF DeleteSections, Deleted, Entries
  <2>2. Entries(<<>>) = {}
    BY DEF Entries, Range
  <2>3. QED
    BY <1>2, <2>1, <2>2 DEF DeleteSections, InTx, Statements, FtsInStep
<1>3. CASE InsertSection
  <2> DEFINE s == tx.doc[tx.done + 1]
             r == [number |-> s.number, parent |-> s.parent, text |-> s.text,
                   id |-> <<imports, tx.done>>]
  <2>1. /\ tx.pc = "insert" /\ tx.done < Len(tx.doc) /\ tx.doc \in Documents
        /\ tx.done \in Nat /\ tx.done + 1 \in 1 .. Len(tx.doc)
    BY <1>3, DocumentsAreSections DEF InsertSection, InTx, Statements
  <2>2. s \in Parts
    BY <2>1, DocumentsAreSections DEF Parts, Range
  <2>3. /\ tx'.table = Append(tx.table, r) /\ tx'.fts = tx.fts \union {<<r.id, s>>}
        /\ tx'.done = tx.done + 1 /\ tx'.doc = tx.doc /\ tx'.pc = tx.pc
    BY <1>3 DEF InsertSection, Inserted
  <2>4. /\ Append(tx.table, r) \in Seq(Rows)
        /\ Entries(Append(tx.table, r)) = Entries(tx.table) \union {<<<<imports, tx.done>>, s>>}
    <3>1. tx.table \in Seq(Rows) /\ tx.fts = Entries(tx.table) /\ imports \in Nat
      BY <2>1 DEF InTx, Statements
    <3>2. r = [number |-> s.number, parent |-> s.parent, text |-> s.text,
               id |-> <<imports, tx.done>>]
      OBVIOUS
    <3>3. HIDE DEF s, r
    <3>4. QED
      BY ONLY <2>1, <2>2, <3>1, <3>2, AppendedEntries
  <2>5. tx'.fts = Entries(tx'.table) /\ tx'.table \in Seq(Rows)
    <3>1. r.id = <<imports, tx.done>> /\ tx.fts = Entries(tx.table)
      BY <2>1 DEF InTx, Statements
    <3>2. HIDE DEF s, r
    <3>3. QED
      BY ONLY <2>3, <2>4, <3>1
  <2>6. tx' = [pc |-> tx'.pc, row |-> tx'.row, doc |-> tx'.doc,
               table |-> tx'.table, fts |-> tx'.fts, done |-> tx'.done]
    BY <1>3, <2>1 DEF InsertSection, Inserted, InTx, Statements
  <2>7. tx'.done \in 0 .. Len(tx'.doc)
    BY <2>1, <2>3, DocumentsAreSections
  <2>8. InTx'
    BY ONLY <2>1, <2>3, <2>5, <2>6, <2>7 DEF InTx, Statements
  <2>9. QED
    BY <1>3, <2>8 DEF InsertSection, FtsInStep
<1>4. CASE Commit
  BY <1>4 DEF Commit, InTx, Statements, FtsInStep, Entries
<1>5. CASE Rollback
  BY <1>5 DEF Rollback, InTx, Statements, NoImport, FtsInStep
<1>6. CASE StoreReferences
  BY <1>6 DEF StoreReferences, InTx, Statements, NoImport, FtsInStep
<1>7. QED
  BY <1>1, <1>2, <1>3, <1>4, <1>5, <1>6 DEF Import

-----------------------------------------------------------------------------
(* The operators: what the queries make of a table and of its document.    *)

Docs == Documents \union {<<>>}

(* What the assumptions say of a document, position by position.           *)
LEMMA DocFacts ==
  ASSUME NEW doc \in Docs
  PROVE  /\ Len(doc) \in Nat /\ DOMAIN doc = 1 .. Len(doc) /\ doc \in Seq(Range(doc))
         /\ \A i \in DOMAIN doc :
              /\ doc[i] = Section(doc[i]) /\ doc[i] \in Range(doc)
              /\ doc[i].number \in Seq(DOMAIN FoldCase) /\ doc[i].number # <<>>
              /\ doc[i].parent = <<>> \/ \E j \in DOMAIN doc : doc[j].number = doc[i].parent
              /\ \A j \in DOMAIN doc : doc[i].number = doc[j].number => i = j
<1>1. CASE doc = <<>>
  BY <1>1 DEF Range
<1>2. CASE doc \in Documents
  <2>1. /\ Len(doc) \in Nat /\ DOMAIN doc = 1 .. Len(doc) /\ doc \in Seq(Range(doc))
    BY <1>2, DocumentsAreSections
  <2>2. ASSUME NEW i \in DOMAIN doc PROVE doc[i] \in Range(doc)
    BY Zenon DEF Range
  <2>3. \A i \in DOMAIN doc :
          doc[i] = Section(doc[i]) /\ doc[i].number \in Seq(DOMAIN FoldCase) \ {<<>>}
    BY <1>2, <2>2, DocumentsAreSections, NumbersAreSequences, Zenon
  <2>4. IsClosed(doc)
    BY <1>2, DocumentsAreClosed
  <2>5. \A i \in DOMAIN doc :
          doc[i].parent = <<>> \/ \E j \in DOMAIN doc : doc[j].number = doc[i].parent
    BY <2>1, <2>4 DEF IsClosed
  <2>6. \A i, j \in DOMAIN doc : doc[i].number = doc[j].number => i = j
    BY <2>4 DEF IsClosed
  <2>7. QED
    BY <2>1, <2>2, <2>3, <2>5, <2>6
<1>3. QED
  BY <1>1, <1>2 DEF Docs

(* A question is never the empty number, which is the parent of the roots. *)
LEMMA QuestionFacts ==
  ASSUME NEW number \in Questions
  PROVE  number \in Seq(DOMAIN FoldCase) /\ number # <<>>
BY NumbersAreSequences

(* The descendants are closed, and the least such set.                     *)
LEMMA DescendantsFacts ==
  ASSUME NEW rows, NEW number
  PROVE  LET D == Descendants(rows, number)
         IN  /\ number \in D
             /\ \A r \in Range(rows) : r.parent \in D => r.number \in D
             /\ \A n \in D : n = number \/ \E r \in Range(rows) : n = r.number
             /\ \A N : /\ number \in N
                       /\ \A r \in Range(rows) : r.parent \in N => r.number \in N
                       => D \subseteq N
<1> DEFINE numbers == {number} \union {r.number : r \in Range(rows)}
           Closed(N) == number \in N /\ \A r \in Range(rows) : r.parent \in N => r.number \in N
           D == Descendants(rows, number)
<1>1. D = {n \in numbers : \A N \in SUBSET numbers : Closed(N) => n \in N}
  BY Zenon DEF Descendants
<1>2. number \in D
  BY <1>1
<1>3. ASSUME NEW r \in Range(rows), r.parent \in D PROVE r.number \in D
  <2>1. r.number \in numbers
    OBVIOUS
  <2>2. ASSUME NEW N \in SUBSET numbers, Closed(N) PROVE r.number \in N
    BY <1>1, <1>3, <2>2
  <2>3. QED
    BY <1>1, <2>1, <2>2
<1>4. ASSUME NEW N, Closed(N) PROVE D \subseteq N
  <2>1. Closed(N \intersect numbers)
    BY <1>4
  <2>2. N \intersect numbers \in SUBSET numbers
    OBVIOUS
  <2>3. QED
    BY <1>1, <2>1, <2>2
<1>5. \A n \in D : n = number \/ \E r \in Range(rows) : n = r.number
  BY <1>1
<1>6. QED
  BY <1>2, <1>3, <1>4, <1>5

(* The walk down from a number and the walks up to it find the same        *)
(* sections.                                                               *)
LEMMA DescendantsAreUnder ==
  ASSUME NEW doc \in Docs, NEW number \in Questions
  PROVE  SelectTree(doc, number) = Under(doc, number)
<1> DEFINE D == Descendants(doc, number)
           WithParents(X) ==
             \A i \in X, j \in DOMAIN doc : doc[j].number = doc[i].parent => j \in X
           U == Under(doc, number)
<1>1. U = {i \in DOMAIN doc :
             \A X \in SUBSET DOMAIN doc :
               i \in X /\ WithParents(X) => \E j \in X : doc[j].number = number}
  BY DEF Under
<1>2. /\ number \in D
      /\ \A r \in Range(doc) : r.parent \in D => r.number \in D
      /\ \A N : /\ number \in N
                /\ \A r \in Range(doc) : r.parent \in N => r.number \in N
                => D \subseteq N
  BY DescendantsFacts
<1>3. SelectTree(doc, number) = {i \in DOMAIN doc : doc[i].number \in D}
  BY DEF SelectTree
<1>4. number # <<>> /\ \A i \in DOMAIN doc : doc[i] \in Range(doc) /\ doc[i].number # <<>>
  BY DocFacts, QuestionFacts
<1>5. \A i \in DOMAIN doc :
        /\ doc[i].parent = <<>> \/ \E j \in DOMAIN doc : doc[j].number = doc[i].parent
        /\ \A j \in DOMAIN doc : doc[i].number = doc[j].number => i = j
  BY DocFacts
<1>6. \A r \in Range(doc) : \E k \in DOMAIN doc : r = doc[k]
  BY DEF Range
<1> HIDE DEF D, U
<1>7. ASSUME NEW i \in DOMAIN doc, doc[i].number \in D PROVE i \in U
  <2> DEFINE N == {n \in {number} \union {doc[k].number : k \in DOMAIN doc} :
                     \A k \in DOMAIN doc : doc[k].number = n => k \in U}
  <2>1. number \in N
    BY <1>1
  <2>2. ASSUME NEW k \in DOMAIN doc, doc[k].parent \in N PROVE doc[k].number \in N
    <3>1. PICK p \in DOMAIN doc : doc[p].number = doc[k].parent
      BY <1>4, <1>5, <2>2
    <3>2. p \in U
      BY <2>2, <3>1
    <3>3. k \in U
      BY <1>1, <3>1, <3>2
    <3>4. QED
      BY <1>5, <3>3
  <2>3. D \subseteq N
    <3>1. \A r \in Range(doc) : r.parent \in N => r.number \in N
      BY <1>6, <2>2
    <3>2. HIDE DEF N
    <3>3. QED
      BY <1>2, <2>1, <3>1
  <2>4. QED
    BY <1>7, <2>3
<1>8. ASSUME NEW i \in U PROVE i \in DOMAIN doc /\ doc[i].number \in D
  <2> DEFINE X == {j \in DOMAIN doc : doc[j].number \notin D}
  <2>1. i \in DOMAIN doc
    BY <1>1
  <2>2. WithParents(X)
    BY <1>2, <1>4
  <2>3. \A j \in X : doc[j].number # number
    BY <1>2
  <2>4. i \notin X
    BY <1>1, <2>2, <2>3
  <2>5. QED
    BY <2>1, <2>4
<1>9. QED
  BY <1>1, <1>3, <1>7, <1>8 DEF U

-----------------------------------------------------------------------------
(***************************************************************************)
(* The rounds of the lookup in memory.                                     *)
(***************************************************************************)

LEMMA Least ==
  ASSUME NEW S, S \subseteq Nat, S # {}
  PROVE  \E n \in S : \A m \in S : n <= m
<1>1. IsWellFoundedOn(OpToRel(<, Nat), Nat)
  BY NatLessThanWellFounded
<1>2. PICK n \in S : \A m \in S : <<m, n>> \notin OpToRel(<, Nat)
  BY <1>1, WFMin
<1>3. \A m \in S : ~(m < n)
  BY <1>2 DEF OpToRel
<1>4. QED
  BY <1>3

(* What holds at 0, and after k when it holds at k, holds up to n.         *)
LEMMA UpToN ==
  ASSUME NEW n \in Nat, NEW S, 0 \in S, \A k \in 0 .. n - 1 : k \in S => k + 1 \in S
  PROVE  0 .. n \subseteq S
<1> DEFINE Bad == {k \in 0 .. n : k \notin S}
<1> SUFFICES ASSUME Bad # {} PROVE FALSE
  OBVIOUS
<1>1. PICK k \in Bad : \A j \in Bad : k <= j
  <2>1. Bad \subseteq Nat
    OBVIOUS
  <2> HIDE DEF Bad
  <2>2. QED
    BY <2>1, Least
<1>2. k \in 0 .. n /\ k # 0 /\ k \notin S
  OBVIOUS
<1>3. k - 1 \in 0 .. n - 1 /\ k - 1 \notin Bad
  BY <1>1, <1>2
<1>4. k - 1 \in S
  BY <1>3
<1>5. QED
  BY <1>2, <1>3, <1>4

(* A function given by its value at 0 and by steps.                        *)
Runs(f, n, S, x, step) ==
    f \in [0 .. n -> S] /\ f[0] = x /\ \A k \in 1 .. n : f[k] = step[k][f[k - 1]]

LEMMA Iterate ==
  ASSUME NEW n \in Nat, NEW S, NEW x \in S, NEW step \in [1 .. n -> [S -> S]]
  PROVE  \E f : Runs(f, n, S, x, step)
<1> DEFINE Part(k, f) == /\ f \in [0 .. k -> S] /\ f[0] = x
                         /\ \A j \in 1 .. k : f[j] = step[j][f[j - 1]]
           Good == {k \in 0 .. n : \E f : Part(k, f)}
<1>1. 0 \in Good
  <2>1. Part(0, [k \in 0 .. 0 |-> x])
    OBVIOUS
  <2>2. 0 \in 0 .. n
    OBVIOUS
  <2> HIDE DEF Part
  <2>3. QED
    BY <2>1, <2>2
<1>2. ASSUME NEW k \in 0 .. n - 1, k \in Good PROVE k + 1 \in Good
  <2>1. PICK f : Part(k, f)
    BY <1>2
  <2> DEFINE g == [j \in 0 .. k + 1 |-> IF j = k + 1 THEN step[k + 1][f[k]] ELSE f[j]]
  <2>2. g \in [0 .. k + 1 -> S] /\ g[0] = x
    BY <2>1
  <2>3. ASSUME NEW j \in 1 .. k + 1 PROVE g[j] = step[j][g[j - 1]]
    BY <2>1
  <2> HIDE DEF g
  <2>4. QED
    BY <2>2, <2>3
<1>3. n \in Good
  <2> HIDE DEF Good
  <2>1. 0 .. n \subseteq Good
    BY <1>1, <1>2, UpToN
  <2>2. QED
    BY <2>1
<1>4. PICK f : Part(n, f)
  BY <1>3
<1>5. QED
  BY <1>4 DEF Runs

(* A round keeps what is wanted and adds its children, and nothing that a  *)
(* closed set with what is wanted has not.                                 *)
LEMMA RoundFacts ==
  ASSUME NEW doc \in Docs, NEW S, \A i \in DOMAIN doc : doc[i].number \in S,
         NEW W \in SUBSET S
  PROVE  /\ Round(doc, W) \in SUBSET S /\ W \subseteq Round(doc, W)
         /\ \A i \in DOMAIN doc : doc[i].parent \in W => doc[i].number \in Round(doc, W)
         /\ \A D : /\ W \subseteq D
                   /\ \A i \in DOMAIN doc : doc[i].parent \in D => doc[i].number \in D
                   => Round(doc, W) \subseteq D
<1> DEFINE n == Len(doc)
           With(X, i) == X \union (IF doc[i].parent \in X THEN {doc[i].number} ELSE {})
           Is(w) == w = [i \in 0 .. n |->
                      IF i = 0 THEN W
                      ELSE w[i - 1] \union
                             (IF doc[i].parent \in w[i - 1] THEN {doc[i].number} ELSE {})]
           wanted == CHOOSE w : Is(w)
<1>1. n \in Nat /\ DOMAIN doc = 1 .. n
  BY DocFacts
<1>2. Round(doc, W) = wanted[n]
  BY DEF Round
<1>3. PICK f : f \in [0 .. n -> SUBSET S] /\ f[0] = W /\ \A i \in 1 .. n : f[i] = With(f[i - 1], i)
  <2> DEFINE step == [i \in 1 .. n |-> [X \in SUBSET S |-> With(X, i)]]
  <2>1. step \in [1 .. n -> [SUBSET S -> SUBSET S]]
    BY <1>1
  <2>2. PICK f : Runs(f, n, SUBSET S, W, step)
    <3> HIDE DEF step, n
    <3>1. QED
      BY <1>1, <2>1, Iterate
  <2>3. /\ f \in [0 .. n -> SUBSET S] /\ f[0] = W
        /\ \A i \in 1 .. n : f[i] = step[i][f[i - 1]]
    BY <2>2 DEF Runs
  <2>4. ASSUME NEW i \in 1 .. n PROVE f[i] = With(f[i - 1], i)
    <3>1. i - 1 \in 0 .. n
      BY <1>1
    <3>2. f[i - 1] \in SUBSET S
      BY <2>3, <3>1
    <3> HIDE DEF With
    <3>3. QED
      BY <2>3, <3>2
  <2> HIDE DEF With
  <2>5. QED
    BY <2>3, <2>4
<1>4. Is(f)
  <2> DEFINE g(i) == IF i = 0 THEN W ELSE With(f[i - 1], i)
  <2>1. ASSUME NEW i \in 0 .. n PROVE f[i] = g(i)
    <3>1. i = 0 \/ i \in 1 .. n
      BY <1>1
    <3> HIDE DEF With
    <3>2. QED
      BY <1>3, <3>1
  <2> HIDE DEF g
  <2>2. f = [i \in 0 .. n |-> g(i)]
    BY <1>3, <2>1
  <2>3. QED
    BY <2>2 DEF g
<1>5. Is(wanted)
  <2> HIDE DEF Is
  <2>1. QED
    BY <1>4
<1> HIDE DEF wanted
<1>6. wanted[0] = W /\ \A i \in 1 .. n : wanted[i] = With(wanted[i - 1], i)
  <2>1. 0 \in 0 .. n /\ \A i \in 1 .. n : i \in 0 .. n /\ i # 0
    BY <1>1
  <2>2. QED
    BY <1>5, <2>1
<1>7. ASSUME NEW D, W \subseteq D,
             \A i \in DOMAIN doc : doc[i].parent \in D => doc[i].number \in D
      PROVE  /\ W \subseteq wanted[n] /\ wanted[n] \subseteq D
             /\ \A j \in 1 .. n : doc[j].parent \in W => doc[j].number \in wanted[n]
  <2> DEFINE Good(i) == /\ W \subseteq wanted[i] /\ wanted[i] \subseteq D
                        /\ \A j \in 1 .. i : doc[j].parent \in W => doc[j].number \in wanted[i]
             G == {i \in 0 .. n : Good(i)}
  <2>1. 0 \in G
    BY <1>1, <1>6, <1>7
  <2>2. ASSUME NEW i \in 0 .. n - 1, Good(i) PROVE Good(i + 1)
    <3>1. i + 1 \in 1 .. n /\ i + 1 - 1 = i
      BY <1>1
    <3>2. wanted[i + 1] = With(wanted[i], i + 1)
      BY <1>6, <3>1
    <3>3. wanted[i] \subseteq wanted[i + 1] /\ wanted[i + 1] \subseteq D
      BY <1>1, <1>7, <2>2, <3>1, <3>2
    <3>4. doc[i + 1].parent \in W => doc[i + 1].number \in wanted[i + 1]
      BY <2>2, <3>2
    <3>5. \A j \in 1 .. i + 1 : j \in 1 .. i \/ j = i + 1
      BY <1>1
    <3> HIDE DEF With
    <3>6. QED
      BY <2>2, <3>3, <3>4, <3>5
  <2>3. \A i \in 0 .. n - 1 : i \in G => i + 1 \in G
    <3>1. \A i \in 0 .. n - 1 : i + 1 \in 0 .. n
      BY <1>1
    <3> HIDE DEF Good
    <3>2. QED
      BY <2>2, <3>1
  <2>4. n \in G
    <3> HIDE DEF G
    <3>1. 0 .. n \subseteq G
      BY <1>1, <2>1, <2>3, UpToN
    <3>2. QED
      BY <1>1, <3>1
  <2>5. QED
    BY <2>4
<1>8. W \subseteq S /\ \A i \in DOMAIN doc : doc[i].parent \in S => doc[i].number \in S
  OBVIOUS
<1>9. QED
  BY <1>1, <1>2, <1>7, <1>8

(* After as many rounds as there are sections nothing is left to add: what *)
(* is wanted is what the recursive query finds.                            *)
LEMMA RoundsFindDescendants ==
  ASSUME NEW doc \in Docs, NEW number
  PROVE  DraftTree(doc, number) = SelectTree(doc, number)
<1> DEFINE n == Len(doc)
           D == Descendants(doc, number)
           Is(w) == w = [k \in 0 .. n |-> IF k = 0 THEN {number} ELSE Round(doc, w[k - 1])]
           wanted == CHOOSE w : Is(w)
           S == {number} \union {doc[i].number : i \in DOMAIN doc}
           Closed(N) == \A i \in DOMAIN doc : doc[i].parent \in N => doc[i].number \in N
<1>1. n \in Nat /\ DOMAIN doc = 1 .. n /\ Range(doc) = {doc[i] : i \in DOMAIN doc}
  BY DocFacts DEF Range
<1>2. DraftWanted(doc, number) = wanted[n]
  BY DEF DraftWanted
<1>3. /\ number \in D /\ Closed(D) /\ D \subseteq S
      /\ \A N : number \in N /\ Closed(N) => D \subseteq N
  <2>1. /\ number \in D
        /\ \A r \in Range(doc) : r.parent \in D => r.number \in D
        /\ \A m \in D : m = number \/ \E r \in Range(doc) : m = r.number
        /\ \A N : /\ number \in N
                  /\ \A r \in Range(doc) : r.parent \in N => r.number \in N
                  => D \subseteq N
    BY DescendantsFacts
  <2> HIDE DEF D
  <2>2. \A N : Closed(N) <=> \A r \in Range(doc) : r.parent \in N => r.number \in N
    BY <1>1
  <2>3. D \subseteq S
    BY <1>1, <2>1
  <2> HIDE DEF Closed
  <2>4. QED
    BY <2>1, <2>2, <2>3
<1> HIDE DEF D
<1>4. \A i \in DOMAIN doc : doc[i].number \in S
  OBVIOUS
<1>5. ASSUME NEW W \in SUBSET S
      PROVE  /\ Round(doc, W) \in SUBSET S /\ W \subseteq Round(doc, W)
             /\ \A i \in DOMAIN doc : doc[i].parent \in W => doc[i].number \in Round(doc, W)
             /\ W \subseteq D => Round(doc, W) \subseteq D
  <2> HIDE DEF S
  <2>1. QED
    BY <1>3, <1>4, RoundFacts
<1>6. PICK f : /\ f \in [0 .. n -> SUBSET S] /\ f[0] = {number}
               /\ \A k \in 1 .. n : f[k] = Round(doc, f[k - 1])
  <2> DEFINE step == [k \in 1 .. n |-> [X \in SUBSET S |-> Round(doc, X)]]
  <2>1. step \in [1 .. n -> [SUBSET S -> SUBSET S]] /\ {number} \in SUBSET S
    <3>1. {number} \in SUBSET S
      OBVIOUS
    <3> HIDE DEF S
    <3>2. QED
      BY <1>5, <3>1
  <2>2. PICK f : Runs(f, n, SUBSET S, {number}, step)
    <3> HIDE DEF step, n, S
    <3>1. QED
      BY <1>1, <2>1, Iterate
  <2> HIDE DEF S
  <2>3. /\ f \in [0 .. n -> SUBSET S] /\ f[0] = {number}
        /\ \A k \in 1 .. n : f[k] = step[k][f[k - 1]]
    BY <2>2 DEF Runs
  <2>4. ASSUME NEW k \in 1 .. n PROVE f[k] = Round(doc, f[k - 1])
    <3>1. k - 1 \in 0 .. n
      BY <1>1
    <3>2. f[k - 1] \in SUBSET S
      BY <2>3, <3>1
    <3>3. QED
      BY <2>3, <3>2
  <2>5. QED
    BY <2>3, <2>4
<1>7. Is(f)
  <2> DEFINE g(k) == IF k = 0 THEN {number} ELSE Round(doc, f[k - 1])
  <2>1. ASSUME NEW k \in 0 .. n PROVE f[k] = g(k)
    <3>1. k = 0 \/ k \in 1 .. n
      BY <1>1
    <3>2. QED
      BY <1>6, <3>1
  <2> HIDE DEF g
  <2>2. f = [k \in 0 .. n |-> g(k)]
    BY <1>6, <2>1
  <2>3. QED
    BY <2>2 DEF g
<1>8. Is(wanted)
  <2> HIDE DEF Is
  <2>1. QED
    BY <1>7
<1> HIDE DEF wanted
<1>9. wanted[0] = {number} /\ \A k \in 1 .. n : wanted[k] = Round(doc, wanted[k - 1])
  <2>1. 0 \in 0 .. n /\ \A k \in 1 .. n : k \in 0 .. n /\ k # 0
    BY <1>1
  <2>2. QED
    BY <1>8, <2>1
(* At most one number more than there are sections.                        *)
<1>10. IsFiniteSet(S) /\ Cardinality(S) <= n + 1 /\ Cardinality(S) \in Nat
  <2> DEFINE N == {doc[i].number : i \in DOMAIN doc}
  <2>1. IsFiniteSet(1 .. n) /\ Cardinality(1 .. n) = n
    <3> HIDE DEF n
    <3>1. 1 \in Int /\ n \in Int
      BY <1>1
    <3>2. /\ IsFiniteSet(1 .. n)
          /\ Cardinality(1 .. n) = IF 1 > n THEN 0 ELSE n - 1 + 1
      BY <3>1, FS_Interval
    <3>3. QED
      BY <1>1, <3>2
  <2> DEFINE num == [i \in 1 .. n |-> doc[i].number]
  <2>2. num \in Surjection(1 .. n, N)
    BY <1>1 DEF Surjection
  <2>3. IsFiniteSet(N) /\ Cardinality(N) <= n
    <3> HIDE DEF N, num, n
    <3>1. QED
      BY <2>1, <2>2, FS_Surjection
  <2> HIDE DEF N
  <2>4. IsFiniteSet(N \union {number}) /\ Cardinality(N \union {number}) <= n + 1
    BY <1>1, <2>3, FS_AddElement, FS_CardinalityType
  <2>5. S = N \union {number}
    BY DEF N
  <2> HIDE DEF S
  <2>6. QED
    BY <2>4, <2>5, FS_CardinalityType
<1>11. ASSUME NEW W \in SUBSET S, ~Closed(W)
       PROVE  Cardinality(Round(doc, W)) >= Cardinality(W) + 1
  <2>1. W \subseteq Round(doc, W) /\ W # Round(doc, W) /\ Round(doc, W) \in SUBSET S
    <3> HIDE DEF S
    <3>1. QED
      BY <1>5, <1>11
  <2> HIDE DEF S
  <2>2. IsFiniteSet(Round(doc, W)) /\ IsFiniteSet(W)
    BY <1>10, <2>1, FS_Subset
  <2>3. /\ Cardinality(W) <= Cardinality(Round(doc, W))
        /\ Cardinality(W) # Cardinality(Round(doc, W))
    BY <2>1, <2>2, FS_Subset
  <2>4. QED
    BY <2>2, <2>3, FS_CardinalityType
<1>12. ASSUME NEW W \in SUBSET S, Closed(W) PROVE Closed(Round(doc, W))
  <2>1. Round(doc, W) \subseteq W
    <3> HIDE DEF S
    <3>1. QED
      BY <1>4, <1>12, RoundFacts
  <2>2. W \subseteq Round(doc, W)
    <3> HIDE DEF S
    <3>1. QED
      BY <1>5
  <2>3. QED
    BY <1>12, <2>1, <2>2
<1>13. /\ wanted[n] \in SUBSET S /\ number \in wanted[n] /\ wanted[n] \subseteq D
       /\ Closed(wanted[n]) \/ Cardinality(wanted[n]) >= n + 1
  <2> DEFINE Good(k) == /\ wanted[k] \in SUBSET S /\ number \in wanted[k] /\ wanted[k] \subseteq D
                        /\ Closed(wanted[k]) \/ Cardinality(wanted[k]) >= k + 1
             G == {k \in 0 .. n : Good(k)}
  <2>1. 0 \in 0 .. n /\ Good(0)
    <3>1. Cardinality({number}) = 1
      BY FS_Singleton
    <3>2. QED
      BY <1>1, <1>3, <1>9, <3>1
  <2>2. ASSUME NEW k \in 0 .. n - 1, Good(k) PROVE Good(k + 1)
    <3>1. k + 1 \in 1 .. n /\ k + 1 - 1 = k
      BY <1>1
    <3>2. wanted[k + 1] = Round(doc, wanted[k])
      BY <1>9, <3>1
    <3> HIDE DEF S, Closed
    <3>3. wanted[k] \in SUBSET S /\ IsFiniteSet(wanted[k]) /\ Cardinality(wanted[k]) \in Nat
      BY <1>10, <2>2, FS_Subset, FS_CardinalityType
    <3>4. /\ wanted[k + 1] \in SUBSET S /\ number \in wanted[k + 1]
          /\ wanted[k + 1] \subseteq D
      BY <1>5, <2>2, <3>2
    <3>5. IsFiniteSet(wanted[k + 1]) /\ Cardinality(wanted[k + 1]) \in Nat
      BY <1>10, <3>4, FS_Subset, FS_CardinalityType
    <3>6. CASE Closed(wanted[k])
      BY <1>12, <3>2, <3>3, <3>4, <3>6
    <3>7. CASE ~Closed(wanted[k])
      <4>1. Cardinality(wanted[k + 1]) >= Cardinality(wanted[k]) + 1
        BY <1>11, <3>2, <3>3, <3>7
      <4>2. Cardinality(wanted[k]) >= k + 1
        BY <2>2, <3>7
      <4>3. Cardinality(wanted[k + 1]) >= (k + 1) + 1
        BY <3>3, <3>5, <4>1, <4>2
      <4>4. QED
        BY <3>4, <4>3
    <3>8. QED
      BY <3>6, <3>7
  <2>3. 0 \in G /\ \A k \in 0 .. n - 1 : k \in G => k + 1 \in G
    <3>1. \A k \in 0 .. n - 1 : k + 1 \in 0 .. n
      BY <1>1
    <3> HIDE DEF Good
    <3>2. QED
      BY <2>1, <2>2, <3>1
  <2>4. n \in G
    <3> HIDE DEF G
    <3>1. 0 .. n \subseteq G
      BY <1>1, <2>3, UpToN
    <3>2. QED
      BY <1>1, <3>1
  <2> HIDE DEF S, Closed
  <2>5. QED
    BY <2>4
(* All of S is closed, so that a set that is not closed is smaller.        *)
<1>14. Closed(wanted[n])
  <2> SUFFICES ASSUME ~Closed(wanted[n]) PROVE FALSE
    OBVIOUS
  <2>1. Closed(S)
    OBVIOUS
  <2>2. wanted[n] # S /\ wanted[n] \in SUBSET S /\ Cardinality(wanted[n]) >= n + 1
    <3> HIDE DEF S, Closed
    <3>1. QED
      BY <1>13, <2>1
  <2> HIDE DEF S, Closed
  <2>3. /\ Cardinality(wanted[n]) \in Nat /\ Cardinality(wanted[n]) <= Cardinality(S)
        /\ Cardinality(wanted[n]) # Cardinality(S)
    BY <1>10, <2>2, FS_Subset, FS_CardinalityType
  <2>4. QED
    BY <1>1, <1>10, <2>2, <2>3
<1>15. wanted[n] = D
  <2> HIDE DEF S, Closed
  <2>1. QED
    BY <1>3, <1>13, <1>14
<1>16. QED
  BY <1>2, <1>15 DEF DraftTree, SelectTree, D

-----------------------------------------------------------------------------
(* A number with children has a section, above them.                       *)
LEMMA ChildrenAreUnder ==
  ASSUME NEW doc \in Docs, NEW number \in Questions, NEW k \in GetChildren(doc, number)
  PROVE  HasNumber(doc, number) /\ k \in Under(doc, number) /\ k \in DOMAIN doc
<1>1. k \in DOMAIN doc /\ doc[k].parent = number /\ number # <<>>
  BY QuestionFacts DEF GetChildren
<1>2. PICK j \in DOMAIN doc : doc[j].number = number
  BY <1>1, DocFacts
<1>3. QED
  BY <1>1, <1>2 DEF HasNumber, Under

(* A table that holds a document answers as the document would.            *)
LEMMA SameAnswers ==
  ASSUME NEW rows \in Seq(Rows), NEW doc \in Docs, Content(rows) = doc, NEW number
  PROVE  /\ DOMAIN rows = DOMAIN doc
         /\ SelectOne(rows, number) = SelectOne(doc, number)
         /\ SelectTree(rows, number) = SelectTree(doc, number)
         /\ Exists(rows, number) <=> Exists(doc, number)
         /\ GetChildren(rows, number) = GetChildren(doc, number)
         /\ GetDescendantsByPrefix(rows, number) = GetDescendantsByPrefix(doc, number)
         /\ Descendants(rows, number) = Descendants(doc, number)
         /\ \A P \in SUBSET DOMAIN doc :
              /\ Picked(rows, P) = [i \in P |-> doc[i]] /\ Picked(doc, P) = [i \in P |-> doc[i]]
              /\ AllBlank(rows, P) <=> AllBlank(doc, P)
         /\ rows = <<>> <=> doc = <<>>
<1>1. DOMAIN rows = DOMAIN doc /\ \A i \in DOMAIN doc : Section(rows[i]) = doc[i]
  BY DEF Content, Picked
<1>2. \A i \in DOMAIN doc : /\ rows[i].number = doc[i].number
                            /\ rows[i].parent = doc[i].parent
                            /\ rows[i].text = doc[i].text
                            /\ Section(doc[i]) = doc[i]
  BY <1>1, DocFacts DEF Section
<1>3. SelectOne(rows, number) = SelectOne(doc, number)
  BY <1>1, <1>2 DEF SelectOne
<1>4. GetChildren(rows, number) = GetChildren(doc, number)
  BY <1>1, <1>2 DEF GetChildren
<1>5. GetDescendantsByPrefix(rows, number) = GetDescendantsByPrefix(doc, number)
  BY <1>1, <1>2 DEF GetDescendantsByPrefix
<1>6. Descendants(rows, number) = Descendants(doc, number)
  <2>1. /\ \A r \in Range(rows) : \E s \in Range(doc) : r.number = s.number /\ r.parent = s.parent
        /\ \A s \in Range(doc) : \E r \in Range(rows) : r.number = s.number /\ r.parent = s.parent
    BY <1>1, <1>2 DEF Range
  <2> DEFINE D == Descendants(rows, number)  E == Descendants(doc, number)
  <2>2. /\ number \in D
        /\ \A r \in Range(rows) : r.parent \in D => r.number \in D
        /\ \A N : /\ number \in N
                  /\ \A r \in Range(rows) : r.parent \in N => r.number \in N
                  => D \subseteq N
    BY DescendantsFacts
  <2>3. /\ number \in E
        /\ \A r \in Range(doc) : r.parent \in E => r.number \in E
        /\ \A N : /\ number \in N
                  /\ \A r \in Range(doc) : r.parent \in N => r.number \in N
                  => E \subseteq N
    BY DescendantsFacts
  <2> HIDE DEF D, E
  <2>4. \A r \in Range(rows) : r.parent \in E => r.number \in E
    BY <2>1, <2>3
  <2>5. \A r \in Range(doc) : r.parent \in D => r.number \in D
    BY <2>1, <2>2
  <2>6. D \subseteq E /\ E \subseteq D
    BY <2>2, <2>3, <2>4, <2>5
  <2>7. QED
    BY <2>6 DEF D, E
<1>7. SelectTree(rows, number) = SelectTree(doc, number)
  BY <1>1, <1>2, <1>6 DEF SelectTree
<1>8. \A P \in SUBSET DOMAIN doc :
        /\ Picked(rows, P) = [i \in P |-> doc[i]] /\ Picked(doc, P) = [i \in P |-> doc[i]]
        /\ AllBlank(rows, P) <=> AllBlank(doc, P)
  <2> TAKE P \in SUBSET DOMAIN doc
  <2>1. \A i \in P : Section(rows[i]) = doc[i]
    BY <1>1
  <2>2. Picked(rows, P) = [i \in P |-> doc[i]]
    BY <2>1 DEF Picked
  <2>3. \A i \in P : Section(doc[i]) = doc[i]
    BY <1>2
  <2>4. Picked(doc, P) = [i \in P |-> doc[i]]
    BY <2>3 DEF Picked
  <2>5. AllBlank(rows, P) <=> AllBlank(doc, P)
    BY <1>2 DEF AllBlank, Blank
  <2>6. QED
    BY <2>2, <2>4, <2>5
<1>9. rows = <<>> <=> doc = <<>>
  BY <1>1, DocFacts
<1>10. QED
  BY <1>1, <1>3, <1>4, <1>5, <1>6, <1>7, <1>8, <1>9 DEF Exists

(* Sections are above what is under them, if anything is.                  *)
LEMMA UnderHasNumber ==
  ASSUME NEW doc \in Docs, NEW number
  PROVE  /\ SelectOne(doc, number) # {} <=> HasNumber(doc, number)
         /\ Under(doc, number) # {} <=> HasNumber(doc, number)
         /\ Under(doc, number) \subseteq DOMAIN doc
<1>1. SelectOne(doc, number) # {} <=> HasNumber(doc, number)
  BY DEF SelectOne, HasNumber
<1>2. Under(doc, number) \subseteq DOMAIN doc
  BY DEF Under
<1>3. ASSUME NEW i \in Under(doc, number) PROVE HasNumber(doc, number)
  <2>1. DOMAIN doc \in SUBSET DOMAIN doc /\ i \in DOMAIN doc
    BY <1>2
  <2>2. \E j \in DOMAIN doc : doc[j].number = number
    BY <2>1 DEF Under
  <2>3. QED
    BY <2>2 DEF HasNumber
<1>4. ASSUME NEW i \in DOMAIN doc, doc[i].number = number PROVE i \in Under(doc, number)
  BY <1>4 DEF Under
<1>5. QED
  BY <1>1, <1>2, <1>3, <1>4 DEF HasNumber

(* What LIKE finds and HasPrefix does not differs in case.                 *)
LEMMA PrefixFacts ==
  ASSUME NEW doc \in Docs, NEW number \in Questions
  PROVE  DraftDescendantsByPrefix(doc, number) =
           {i \in GetDescendantsByPrefix(doc, number) : IsPrefix(number, doc[i].number)}
<1>1. ASSUME NEW i \in DOMAIN doc, Len(doc[i].number) = Len(number) + 1,
             IsPrefix(number, doc[i].number)
      PROVE  Folded(Front(doc[i].number)) = Folded(number)
  <2> DEFINE s == doc[i].number
  <2>1. s \in Seq(DOMAIN FoldCase) /\ number \in Seq(DOMAIN FoldCase)
    BY DocFacts, QuestionFacts
  <2>2. Front(s) = SubSeq(s, 1, Len(number))
    BY <1>1, <2>1 DEF Front
  <2>3. \A k \in 1 .. Len(number) : s[k] = number[k]
    BY <1>1, <2>1 DEF IsPrefix
  <2>4. Front(s) = number
    BY <1>1, <2>1, <2>2, <2>3
  <2>5. QED
    BY <2>4
<1>2. QED
  BY <1>1 DEF DraftDescendantsByPrefix, GetDescendantsByPrefix

(* The answers about a draft, case by case.                                *)
LEMMA DraftCases ==
  ASSUME NEW doc, NEW number, NEW include \in BOOLEAN
  PROVE  LET found == DraftSection(doc, number, include)
             children == GetChildren(doc, number)
             prefixed == DraftDescendantsByPrefix(doc, number)
             draft == DraftAnswer(doc, number, include)
         IN  /\ found = {} /\ children # {} => draft = MissingSection(doc, children, TRUE)
             /\ found = {} /\ children = {} /\ prefixed # {} =>
                  draft = MissingSection(doc, prefixed, FALSE)
             /\ found = {} /\ children = {} /\ prefixed = {} => draft = SectionNotFound
             /\ found # {} /\ ~include /\ AllBlank(doc, found) /\ children # {} =>
                  draft = EmptyParent(doc, children)
             /\ found # {} /\ (include \/ ~AllBlank(doc, found) \/ children = {}) =>
                  draft = Text(doc, found)
<1> DEFINE found == DraftSection(doc, number, include)
           children == GetChildren(doc, number)
           prefixed == DraftDescendantsByPrefix(doc, number)
           draft == DraftAnswer(doc, number, include)
           Empty == AllBlank(doc, found)
           m1 == MissingSection(doc, children, TRUE)
           m2 == MissingSection(doc, prefixed, FALSE)
           e == EmptyParent(doc, children)
           t == Text(doc, found)
<1>1. draft = CASE found = {} /\ children # {} -> m1
                [] found = {} /\ children = {} /\ prefixed # {} -> m2
                [] found = {} /\ children = {} /\ prefixed = {} -> SectionNotFound
                [] found # {} /\ ~include /\ Empty /\ children # {} -> e
                [] OTHER -> t
  BY DEF DraftAnswer
<1>2. Empty \in BOOLEAN
  BY DEF AllBlank
<1> HIDE DEF found, children, prefixed, draft, Empty, m1, m2, e, t
<1>3. /\ found = {} /\ children # {} => draft = m1
      /\ found = {} /\ children = {} /\ prefixed # {} => draft = m2
      /\ found = {} /\ children = {} /\ prefixed = {} => draft = SectionNotFound
      /\ found # {} /\ ~include /\ Empty /\ children # {} => draft = e
      /\ found # {} /\ (include \/ ~Empty \/ children = {}) => draft = t
  BY <1>1, <1>2
<1>4. QED
  BY <1>3 DEF found, children, prefixed, draft, Empty, m1, m2, e, t

-----------------------------------------------------------------------------
(* The calls.                                                              *)

(* The committed rows are those of the last document, and the references   *)
(* those of the document that last brought some.                           *)
StoreInv ==
  /\ table \in Seq(Rows) /\ Content(table) = last.doc /\ last.doc \in Docs
  /\ row \in {"absent", "notIssued", "issued"} /\ last.row = row
  /\ row = "absent" => last.doc = <<>>
  /\ last = [row |-> last.row, doc |-> last.doc, cited |-> last.cited]
  /\ refs = Citing(last.cited)

(* What the transaction has written so far; it makes up a missing row.     *)
TxInv ==
  /\ tx.pc \in Statements => tx.row = IF row = "absent" THEN "issued" ELSE row
  /\ tx.pc = "delete" => tx.done = 0
  /\ tx.pc = "insert" => /\ Len(tx.table) = tx.done
                         /\ \A i \in 1 .. tx.done : Section(tx.table[i]) = tx.doc[i]

(* The current version is among those seen, and what a call has found out  *)
(* so far was so in one of them.                                           *)
Asking == call.pc \notin {"none", "done"}

CallInv ==
  /\ call.pc # "none" =>
       /\ call.include \in BOOLEAN
       /\ call.tool \in {"section", "references", "toc", "document"}
       /\ call.tool \in {"section", "references"} => call.number \in Questions
       /\ \A v \in seen : v.row = "notIssued" <=> row = "notIssued"
  /\ Asking => Version(last) \in seen
  /\ Asking /\ call.pc # "kids" =>
       call = [pc |-> call.pc, tool |-> call.tool, number |-> call.number, include |-> call.include]
  /\ call.pc \in {"exists", "kids", "toc", "children", "prefix"} => call.tool = "section"
  /\ call.pc = "row" => call.tool # "references"
  /\ call.pc = "kids" =>
       /\ ~call.include
       /\ \E v \in seen : /\ call.text = [kind |-> "text", sections |-> Asked(v.doc)]
                          /\ HasNumber(v.doc, call.number)
                          /\ AllBlank(v.doc, SelectOne(v.doc, call.number))
  /\ call.pc \in {"toc", "children", "prefix"} =>
       \E v \in seen : ~HasNumber(v.doc, call.number)
  /\ call.pc = "prefix" => \E v \in seen : GetChildren(v.doc, call.number) = {}
  /\ call.pc = "row" => \E v \in seen : v.doc = <<>>

Right == AnswersAreTrue /\ AdviceCanBeFollowed /\ DraftsAgree /\ ReferencesFollowText

IInv == FtsInv /\ StoreInv /\ TxInv /\ CallInv /\ Right

LEMMA StoreStep ==
  ASSUME FtsInv, StoreInv, TxInv, Import
  PROVE  /\ StoreInv' /\ TxInv' /\ call' = call
         /\ (row' = "notIssued" <=> row = "notIssued")
         /\ \/ seen' = seen /\ Version(last') = Version(last)
            \/ /\ call.pc \in {"none", "done"} => seen' = seen
               /\ Asking => seen' = seen \union {Version(last')}
<1>1. ASSUME NEW doc \in Documents, BeginImport(doc)
      PROVE  StoreInv' /\ TxInv' /\ UNCHANGED <<call, row, seen, last>>
  BY <1>1 DEF BeginImport, StoreInv, TxInv, Statements
<1>2. CASE DeleteSections
  <2>1. tx'.pc = "insert" /\ tx'.table = <<>> /\ tx'.row = tx.row /\ tx'.done = 0
    BY <1>2 DEF DeleteSections, Deleted, InTx, FtsInv, TxInv, Statements
  <2>2. QED
    BY <1>2, <2>1 DEF DeleteSections, StoreInv, TxInv, Statements, FtsInv, InTx
<1>3. CASE InsertSection
  <2> DEFINE d == tx.doc[tx.done + 1]
             r == [number |-> d.number, parent |-> d.parent, text |-> d.text,
                   id |-> <<imports, tx.done>>]
  <2>1. /\ tx.pc = "insert" /\ tx.doc \in Documents /\ tx.table \in Seq(Rows)
        /\ tx.done \in Nat /\ tx.done + 1 \in 1 .. Len(tx.doc) /\ imports \in Nat
        /\ Len(tx.table) = tx.done
        /\ \A i \in 1 .. tx.done : Section(tx.table[i]) = tx.doc[i]
    BY <1>3, DocumentsAreSections DEF InsertSection, FtsInv, InTx, TxInv, Statements
  <2>2. /\ tx'.table = Append(tx.table, r) /\ tx'.done = tx.done + 1
        /\ tx'.doc = tx.doc /\ tx'.pc = tx.pc /\ tx'.row = tx.row
    BY <1>3, <2>1 DEF InsertSection, Inserted, FtsInv, InTx, Statements
  <2>3. d \in Parts /\ d = Section(d)
    BY <2>1, DocFacts DEF Parts, Docs
  <2>4. r \in Rows /\ Section(r) = d
    BY <2>1, <2>3 DEF Rows, Section
  <2>5. Len(tx'.table) = tx'.done /\ \A i \in 1 .. tx'.done : Section(tx'.table[i]) = tx'.doc[i]
    <3> HIDE DEF d, r
    <3>1. \A i \in 1 .. tx.done + 1 : i \in 1 .. tx.done \/ i = tx.done + 1
      BY <2>1
    <3>2. /\ Len(Append(tx.table, r)) = tx.done + 1
          /\ Append(tx.table, r)[tx.done + 1] = r
          /\ \A i \in 1 .. tx.done : Append(tx.table, r)[i] = tx.table[i]
      BY <2>1, <2>4
    <3>3. QED
      BY <2>1, <2>2, <2>4, <3>1, <3>2 DEF d
  <2>6. QED
    BY <1>3, <2>1, <2>2, <2>5 DEF InsertSection, StoreInv, TxInv, Statements
<1>4. CASE Commit
  <2>1. /\ tx.pc = "insert" /\ tx.doc \in Documents /\ tx.table \in Seq(Rows)
        /\ Len(tx.table) = Len(tx.doc)
        /\ \A i \in 1 .. Len(tx.doc) : Section(tx.table[i]) = tx.doc[i]
        /\ tx.row = IF row = "absent" THEN "issued" ELSE row
    BY <1>4 DEF Commit, FtsInv, InTx, TxInv, Statements
  <2>2. Content(tx.table) = tx.doc /\ tx.doc \in Docs
    <3>1. /\ DOMAIN tx.doc = 1 .. Len(tx.doc) /\ tx.doc \in Seq(Range(tx.doc))
          /\ DOMAIN tx.table = 1 .. Len(tx.doc)
      BY <2>1, DocFacts DEF Docs
    <3>2. QED
      BY <2>1, <3>1 DEF Content, Picked, Docs
  <2>3. /\ row' = tx.row /\ table' = tx.table /\ tx'.pc = "references"
        /\ last' = [row |-> tx.row, doc |-> tx.doc, cited |-> last.cited]
        /\ UNCHANGED <<refs, call>>
        /\ seen' = IF call.pc \in {"none", "done"} THEN seen ELSE seen \union {Version(last')}
    BY <1>4, <2>1 DEF Commit, StoreInv, FtsInv, InTx, Statements
  <2>4. StoreInv'
    BY <2>1, <2>2, <2>3 DEF StoreInv
  <2>5. QED
    BY <2>1, <2>3, <2>4 DEF TxInv, Statements, Asking, StoreInv
<1>5. CASE Rollback
  BY <1>5 DEF Rollback, NoImport, StoreInv, TxInv, Statements
<1>6. CASE StoreReferences
  <2>1. refs' = Citing(tx.doc)
    BY <1>6 DEF StoreReferences, ReplaceReferences, DeleteReferencesForRFC, InsertReferences
  <2>2. /\ last' = [last EXCEPT !.cited = tx.doc] /\ tx' = NoImport
        /\ UNCHANGED <<row, table, call, seen>>
    BY <1>6 DEF StoreReferences
  <2>3. QED
    BY <2>1, <2>2 DEF StoreInv, TxInv, NoImport, Statements, Version
<1>7. QED
  BY <1>1, <1>2, <1>3, <1>4, <1>5, <1>6 DEF Import, Version

(* What a query sees is the document of the last commit, which is one of   *)
(* the versions seen; if it is the only one, everything found out before   *)
(* is so in it.                                                            *)
LEMMA SeenNow ==
  ASSUME StoreInv, CallInv, Asking
  PROVE  /\ Version(last) \in seen /\ last.doc \in Docs
         /\ Version(last).doc = last.doc /\ Version(last).row = row
         /\ \A v \in seen : seen = {v} => v = Version(last)
BY DEF StoreInv, CallInv, Asking, Version

(* Nothing is promised of a call that has not been answered.               *)
LEMMA NotYet ==
  ASSUME call.pc # "done"
  PROVE  Right
BY DEF Right, AnswersAreTrue, TextIsOneVersion, NotFoundIsTrue, AdviceCanBeFollowed,
       DraftsAgree, ReferencesFollowText, Says, Done

LEMMA AskStep ==
  ASSUME StoreInv, CallInv,
         NEW tool \in {"section", "references", "toc", "document"},
         NEW number, NEW include \in BOOLEAN,
         tool \in {"section", "references"} => number \in Questions,
         Ask(tool, number, include)
  PROVE  CallInv' /\ Right'
<1>1. call' = [pc |-> IF tool = "section" /\ include THEN "exists" ELSE "select",
               tool |-> tool, number |-> number, include |-> include]
  BY DEF Ask
<1>2. seen' = {Version(last)} /\ UNCHANGED <<row, last>>
  BY DEF Ask, store
<1>3. CallInv'
  BY <1>1, <1>2 DEF CallInv, StoreInv, Asking, Version
<1>4. call'.pc # "done"
  BY <1>1
<1>5. Right'
  BY <1>4 DEF Right, AnswersAreTrue, TextIsOneVersion, NotFoundIsTrue, AdviceCanBeFollowed,
       DraftsAgree, ReferencesFollowText, Says, Done
<1>6. QED
  BY <1>3, <1>5

(* A step from one query to the next keeps what the call knows.            *)
LEMMA GotoStep ==
  ASSUME StoreInv, CallInv, Asking, call.pc # "kids", UNCHANGED <<store, seen>>,
         NEW pc \in {"select", "toc", "children", "prefix", "row"}, Goto(pc),
         pc = "toc" => call.tool = "section" /\ ~HasNumber(last.doc, call.number),
         pc \in {"children", "prefix"} => call.pc \in {"toc", "children"},
         pc = "prefix" => GetChildren(last.doc, call.number) = {},
         pc = "row" => call.tool # "references" /\ last.doc = <<>>
  PROVE  CallInv' /\ Right'
<1>1. call' = [call EXCEPT !.pc = pc]
  BY DEF Goto
<1>2. /\ call'.tool = call.tool /\ call'.include = call.include /\ call'.number = call.number
      /\ call'.pc = pc
      /\ Asking' /\ call'.pc # "kids"
      /\ call' = [pc |-> pc, tool |-> call.tool, number |-> call.number, include |-> call.include]
  BY <1>1 DEF CallInv, Asking
<1>3. Version(last) \in seen /\ Version(last).doc = last.doc
  BY SeenNow
<1>4. UNCHANGED <<seen, row, last>>
  BY DEF store
<1>5. CallInv'
  BY <1>2, <1>3, <1>4 DEF CallInv, Asking, Version
<1>6. Right'
  BY <1>2 DEF Right, AnswersAreTrue, TextIsOneVersion, NotFoundIsTrue, AdviceCanBeFollowed,
       DraftsAgree, ReferencesFollowText, Says, Done
<1>7. QED
  BY <1>5, <1>6

(* An answer ends the call; what is to be shown of it.                     *)
LEMMA AnswerStep ==
  ASSUME StoreInv, CallInv, Asking, UNCHANGED <<store, seen>>, NEW a, Answer(a)
  PROVE  /\ CallInv'
         /\ call' = [pc |-> "done", tool |-> call.tool, number |-> call.number,
                     include |-> call.include, answer |-> a]
         /\ seen' = seen
<1>1. call' = [pc |-> "done", tool |-> call.tool, number |-> call.number,
              include |-> call.include, answer |-> a]
  BY DEF Answer
<1>2. CallInv'
  BY <1>1 DEF CallInv, Asking, store
<1>3. QED
  BY <1>1, <1>2

(* Text of the current document is right.                                  *)
LEMMA TextStep ==
  ASSUME StoreInv, CallInv, Asking, UNCHANGED <<store, seen>>,
         NEW kind \in {"text", "toc"}, NEW sections,
         \E v \in seen : sections = Asked(v.doc),
         Answer([kind |-> kind, sections |-> sections]),
         \A v \in seen :
           call.tool = "section" /\ seen = {v} /\ v.doc # <<>> =>
             [kind |-> kind, sections |-> sections] = DraftAnswer(v.doc, call.number, call.include),
         call.tool # "references"
  PROVE  CallInv' /\ Right'
<1> DEFINE a == [kind |-> kind, sections |-> sections]
<1>1. /\ CallInv' /\ seen' = seen
      /\ call' = [pc |-> "done", tool |-> call.tool, number |-> call.number,
                  include |-> call.include, answer |-> a]
  BY AnswerStep
<1>2. /\ call'.pc = "done" /\ call'.tool = call.tool /\ call'.number = call.number
      /\ call'.include = call.include /\ call'.answer = a
      /\ a.kind = kind /\ a.sections = sections
  BY <1>1
<1>3. \A doc : Asked(doc)' = Asked(doc)
  BY <1>2 DEF Asked
<1> HIDE DEF a
<1>4. AnswersAreTrue'
  BY <1>1, <1>2, <1>3 DEF AnswersAreTrue, TextIsOneVersion, NotFoundIsTrue, Says
<1>5. AdviceCanBeFollowed'
  BY <1>2 DEF AdviceCanBeFollowed, Says
<1>6. DraftsAgree'
  BY <1>1, <1>2 DEF DraftsAgree, Done, a
<1>7. ReferencesFollowText'
  BY <1>2 DEF ReferencesFollowText, Done
<1>8. QED
  BY <1>1, <1>4, <1>5, <1>6, <1>7 DEF Right

LEMMA CheckExistsStep ==
  ASSUME StoreInv, CallInv, CheckExists, UNCHANGED <<store, seen>>
  PROVE  CallInv' /\ Right'
<1>1. call.pc = "exists" /\ Asking /\ call.tool = "section" /\ call.pc # "kids"
  BY DEF CheckExists, CallInv, Asking
<1>2. Exists(table, call.number) <=> HasNumber(last.doc, call.number)
  BY SameAnswers, UnderHasNumber DEF StoreInv, Exists
<1>3. CASE Exists(table, call.number)
  <2>1. Goto("select")
    BY <1>3 DEF CheckExists
  <2>2. QED
    BY <1>1, <2>1, GotoStep
<1>4. CASE ~Exists(table, call.number)
  <2>1. Goto("toc")
    BY <1>4 DEF CheckExists
  <2>2. QED
    BY <1>1, <1>2, <1>4, <2>1, GotoStep
<1>5. QED
  BY <1>3, <1>4

LEMMA SelectStep ==
  ASSUME StoreInv, CallInv, Select, UNCHANGED <<store, seen>>
  PROVE  CallInv' /\ Right'
<1> DEFINE doc == last.doc
           number == call.number
           found == IF call.include THEN SelectTree(table, number) ELSE SelectOne(table, number)
<1>1. /\ call.pc = "select" /\ call.tool = "section" /\ Asking /\ call.pc # "kids"
      /\ call.include \in BOOLEAN /\ number \in Questions
  BY DEF Select, CallInv, Asking
<1>2. /\ doc \in Docs /\ table \in Seq(Rows) /\ Content(table) = doc
      /\ Version(last) \in seen /\ Version(last).doc = doc
      /\ \A v \in seen : seen = {v} => v.doc = doc
  BY <1>1, SeenNow DEF StoreInv
<1>3. /\ found = IF call.include THEN Under(doc, number) ELSE SelectOne(doc, number)
      /\ found # {} <=> HasNumber(doc, number)
      /\ found \subseteq DOMAIN doc
      /\ SelectOne(doc, number) # {} <=> HasNumber(doc, number)
  <2>1. /\ SelectTree(table, number) = SelectTree(doc, number)
        /\ SelectOne(table, number) = SelectOne(doc, number)
    BY <1>2, SameAnswers
  <2>2. SelectTree(doc, number) = Under(doc, number)
    BY <1>1, <1>2, DescendantsAreUnder
  <2>3. /\ SelectOne(doc, number) # {} <=> HasNumber(doc, number)
        /\ Under(doc, number) # {} <=> HasNumber(doc, number)
        /\ Under(doc, number) \subseteq DOMAIN doc
    BY <1>2, UnderHasNumber
  <2>4. SelectOne(doc, number) \subseteq DOMAIN doc
    BY DEF SelectOne
  <2>5. QED
    BY <2>1, <2>2, <2>3, <2>4
<1>4. /\ Picked(table, found) = [i \in found |-> doc[i]]
      /\ Picked(doc, found) = [i \in found |-> doc[i]]
      /\ AllBlank(table, found) <=> AllBlank(doc, found)
  BY <1>2, <1>3, SameAnswers
<1>5. Asked(doc) = Picked(table, found)
  BY <1>1, <1>3, <1>4 DEF Asked, SelectOne
<1>6. found # {} => DraftSection(doc, number, call.include) = found
  BY <1>1, <1>2, <1>3, DescendantsAreUnder, RoundsFindDescendants DEF DraftSection, Exists
<1>7. /\ Text(table, found) = [kind |-> "text", sections |-> Picked(table, found)]
      /\ Text(table, found) = Text(doc, found)
  BY <1>4 DEF Text
<1>8. CASE found = {} /\ Goto("toc")
  BY <1>1, <1>3, <1>8, GotoStep
<1>9. CASE /\ found # {} /\ ~call.include /\ AllBlank(table, found)
           /\ call' = [pc |-> "kids", tool |-> call.tool, number |-> number,
                       include |-> call.include, text |-> Text(table, found)]
  <2>1. /\ call'.pc = "kids" /\ call'.tool = call.tool /\ call'.number = number
        /\ call'.include = call.include /\ call'.text = Text(table, found)
    BY <1>9
  <2>2. \A d : Asked(d)' = Asked(d)
    BY <2>1 DEF Asked
  <2>3. \E v \in seen : /\ call'.text = [kind |-> "text", sections |-> Asked(v.doc)']
                        /\ HasNumber(v.doc, call'.number)
                        /\ AllBlank(v.doc, SelectOne(v.doc, call'.number))
    BY <1>2, <1>3, <1>4, <1>5, <1>7, <1>9, <2>1, <2>2
  <2>4. CallInv'
    BY <1>1, <1>2, <1>9, <2>1, <2>3 DEF CallInv, Asking, store
  <2>5. call'.pc # "done"
    BY <2>1
  <2>6. Right'
    BY <2>5 DEF Right, AnswersAreTrue, TextIsOneVersion, NotFoundIsTrue, AdviceCanBeFollowed,
         DraftsAgree, ReferencesFollowText, Says, Done
  <2>7. QED
    BY <2>4, <2>6
<1>10. CASE /\ found # {} /\ (call.include \/ ~AllBlank(table, found))
            /\ Answer(Text(table, found))
  <2>1. DraftAnswer(doc, number, call.include) = Text(doc, found)
    <3>1. found # {} /\ (call.include \/ ~AllBlank(doc, found))
      BY <1>4, <1>10
    <3>2. DraftSection(doc, number, call.include) = found
      BY <1>6, <1>10
    <3> HIDE DEF doc, number, found
    <3>3. QED
      BY <1>1, <3>1, <3>2, DraftCases
  <2> HIDE DEF doc, number, found
  <2>2. Answer([kind |-> "text", sections |-> Picked(table, found)])
    BY <1>7, <1>10
  <2>3. \A v \in seen : seen = {v} =>
          [kind |-> "text", sections |-> Picked(table, found)]
            = DraftAnswer(v.doc, call.number, call.include)
    BY <1>2, <1>7, <2>1 DEF number
  <2>4. \E v \in seen : Picked(table, found) = Asked(v.doc)
    BY <1>2, <1>5
  <2>5. QED
    BY <1>1, <2>2, <2>3, <2>4, TextStep
<1>11. QED
  BY <1>8, <1>9, <1>10 DEF Select

LEMMA AskTOCStep ==
  ASSUME StoreInv, CallInv, AskTOC, UNCHANGED <<store, seen>>
  PROVE  CallInv' /\ Right'
<1>1. call.pc = "toc" /\ Asking /\ call.tool = "section" /\ call.pc # "kids"
  BY DEF AskTOC, CallInv, Asking
<1>2. table = <<>> <=> last.doc = <<>>
  BY SameAnswers DEF StoreInv
<1>3. CASE table # <<>>
  <2>1. Goto("children")
    BY <1>3 DEF AskTOC
  <2>2. QED
    BY <1>1, <2>1, GotoStep
<1>4. CASE table = <<>>
  <2>1. Goto("row")
    BY <1>4 DEF AskTOC
  <2>2. QED
    BY <1>1, <1>2, <1>4, <2>1, GotoStep
<1>5. QED
  BY <1>3, <1>4

(* The table of contents and the whole document: one query each.           *)
LEMMA WholeStep ==
  ASSUME StoreInv, CallInv, HandleGetTOC \/ HandleGetDocument, UNCHANGED <<store, seen>>
  PROVE  CallInv' /\ Right'
<1> DEFINE doc == last.doc
<1>1. call.pc = "select" /\ Asking /\ call.pc # "kids" /\ call.tool \in {"toc", "document"}
  BY DEF HandleGetTOC, HandleGetDocument, Asking
<1>2. /\ doc \in Docs /\ Content(table) = doc /\ Picked(table, DOMAIN table) = doc
      /\ table = <<>> <=> doc = <<>>
      /\ Version(last) \in seen /\ Version(last).doc = doc
  BY <1>1, SeenNow, SameAnswers DEF StoreInv, Content
<1>3. Asked(doc) = doc
  <2>1. doc = [i \in DOMAIN doc |-> doc[i]]
    BY <1>2, DocFacts
  <2>2. QED
    BY <1>1, <2>1 DEF Asked
<1>4. CASE table = <<>>
  <2>1. Goto("row")
    BY <1>4 DEF HandleGetTOC, HandleGetDocument
  <2>2. QED
    BY <1>1, <1>2, <1>4, <2>1, GotoStep
<1>5. ASSUME NEW kind \in {"text", "toc"}, Answer([kind |-> kind, sections |-> doc])
      PROVE  CallInv' /\ Right'
  <2>1. \E v \in seen : doc = Asked(v.doc)
    BY <1>2, <1>3
  <2> HIDE DEF doc
  <2>2. QED
    BY <1>1, <1>5, <2>1, TextStep
<1>6. CASE table # <<>>
  <2>1. \/ Answer([kind |-> "toc", sections |-> doc])
        \/ Answer([kind |-> "text", sections |-> doc])
    BY <1>2, <1>6 DEF HandleGetTOC, HandleGetDocument, TOC, GetDocument, Text
  <2>2. QED
    BY <1>5, <2>1
<1>7. QED
  BY <1>4, <1>6

(* Why nothing was found: the row as it is now, the sections as they were. *)
LEMMA AskRowStep ==
  ASSUME StoreInv, CallInv, AskRow, UNCHANGED <<store, seen>>
  PROVE  CallInv' /\ Right'
<1>1. /\ call.pc = "row" /\ Asking /\ call.tool # "references"
      /\ \E v \in seen : v.doc = <<>>
      /\ \A v \in seen : v.row = "notIssued" <=> row = "notIssued"
  BY DEF AskRow, CallInv, Asking
<1>2. /\ Version(last) \in seen /\ Version(last).doc = last.doc /\ Version(last).row = row
      /\ \A v \in seen : seen = {v} => v = Version(last)
      /\ row = "absent" => last.doc = <<>>
  BY <1>1, SeenNow DEF StoreInv
<1>3. PICK kind \in {"unknown", "neverIssued", "noSections"} :
        /\ NoContent = [kind |-> kind]
        /\ kind = "unknown" => row = "absent"
        /\ kind = "neverIssued" => row = "notIssued"
        /\ kind = "noSections" => row = "issued"
  BY DEF StoreInv, NoContent, NotFound
<1> DEFINE a == [kind |-> kind]
<1>4. /\ CallInv' /\ seen' = seen
      /\ call' = [pc |-> "done", tool |-> call.tool, number |-> call.number,
                  include |-> call.include, answer |-> a]
  BY <1>1, <1>3, AnswerStep DEF AskRow
<1>5. /\ call'.pc = "done" /\ call'.tool = call.tool /\ call'.answer = a /\ a.kind = kind
  BY <1>4
<1> HIDE DEF a
<1>6. AnswersAreTrue'
  BY <1>1, <1>2, <1>3, <1>4, <1>5 DEF AnswersAreTrue, TextIsOneVersion, NotFoundIsTrue, Says
<1>7. AdviceCanBeFollowed' /\ ReferencesFollowText'
  BY <1>1, <1>5 DEF AdviceCanBeFollowed, ReferencesFollowText, Says, Done
<1>8. DraftsAgree'
  BY <1>1, <1>4 DEF DraftsAgree
<1>9. QED
  BY <1>4, <1>6, <1>7, <1>8 DEF Right

(* References found in a text that is still the one stored are those of    *)
(* the text asked for.                                                     *)
LEMMA AskReferencesStep ==
  ASSUME StoreInv, CallInv, AskReferences, UNCHANGED <<store, seen>>
  PROVE  CallInv' /\ Right'
<1> PICK doc, number : doc = last.doc /\ number = call.number
  OBVIOUS
<1> DEFINE found == GetReferences(table, number, call.include)
           a == References(found)
<1>1. /\ call.pc = "select" /\ Asking /\ call.tool = "references"
      /\ number \in Questions /\ call.include \in BOOLEAN
  BY DEF AskReferences, CallInv, Asking
<1>2. /\ doc \in Docs /\ Content(table) = doc /\ table \in Seq(Rows)
      /\ \A v \in seen : seen = {v} => v.doc = doc
      /\ refs = Citing(last.cited)
  BY <1>1, SeenNow DEF StoreInv
<1>3. /\ CallInv' /\ seen' = seen
      /\ call' = [pc |-> "done", tool |-> call.tool, number |-> number,
                  include |-> call.include, answer |-> a]
  BY <1>1, AnswerStep DEF AskReferences
<1>4. /\ call'.pc = "done" /\ call'.tool = "references" /\ call'.answer = a
      /\ call'.number = number /\ call'.include = call.include
      /\ a.kind = "references" /\ a.found = found /\ a.cited = last.cited
  BY <1>1, <1>3 DEF References
<1> DEFINE part == IF call.include THEN Under(doc, number) ELSE SelectOne(doc, number)
           wanted == IF call.include THEN Descendants(doc, number) ELSE {number}
<1>5. part = {i \in DOMAIN doc : doc[i].number \in wanted}
  BY <1>1, <1>2, DescendantsAreUnder DEF SelectTree, SelectOne
<1>6. found = {r \in refs : r[1] \in wanted}
  BY <1>2, SameAnswers DEF GetReferences
<1>7. Asked(doc)' = [i \in part |-> doc[i]]
  BY <1>4 DEF Asked, SelectOne
<1> HIDE DEF found, a, part, wanted
<1>8. ASSUME last.cited = doc PROVE found = Citing([i \in part |-> doc[i]])
  <2>1. refs = {<<s.number, s.text>> : s \in {u \in Range(doc) : ~Blank(u)}}
    BY <1>2, <1>8, Zenon DEF Citing
  <2>2. Range(doc) = {doc[i] : i \in DOMAIN doc}
    BY DEF Range
  <2>3. Range([i \in part |-> doc[i]]) = {doc[i] : i \in part}
    BY DEF Range
  <2>4. Citing([i \in part |-> doc[i]]) =
          {<<s.number, s.text>> : s \in {u \in {doc[i] : i \in part} : ~Blank(u)}}
    BY <2>3, Zenon DEF Citing
  <2>5. QED
    BY <1>5, <1>6, <2>1, <2>2, <2>4
<1>9. ReferencesFollowText'
  BY <1>2, <1>3, <1>4, <1>7, <1>8 DEF ReferencesFollowText
<1>10. AnswersAreTrue' /\ AdviceCanBeFollowed' /\ DraftsAgree'
  BY <1>4 DEF AnswersAreTrue, TextIsOneVersion, NotFoundIsTrue, AdviceCanBeFollowed,
       DraftsAgree, Says, Done
<1>11. QED
  BY <1>3, <1>9, <1>10 DEF Right

(* The answer a is what get_draft_section says, but for the case.         *)
AsDraft(a, doc, number, include) ==
  LET draft == DraftAnswer(doc, number, include)
      OfOtherCase == {s \in Range(doc) : ~IsPrefix(number, s.number)}
  IN  \/ a = draft
      \/ /\ a.kind = "missing" /\ ~a.include
         /\ draft.kind \in {"missing", "sectionNotFound"}
         /\ Range(a.children) \intersect OfOtherCase # {}
         /\ Range(a.children) \ OfOtherCase =
              IF draft.kind = "missing" THEN Range(draft.children) ELSE {}

(* Children found by their parent are advice that can be followed.         *)
LEMMA AdviceStep ==
  ASSUME StoreInv, CallInv, Asking, call.tool = "section", UNCHANGED <<store, seen>>,
         NEW doc, doc = last.doc, NEW number, number = call.number,
         NEW children, children \subseteq DOMAIN doc, children # {},
         NEW a, Answer(a), a.kind \in {"emptyParent", "missing"},
         a.children = [i \in children |-> doc[i]],
         a.kind = "emptyParent" \/ a.include => children = GetChildren(doc, number),
         \A v \in seen : seen = {v} => AsDraft(a, doc, number, call.include)
  PROVE  CallInv' /\ Right'
<1>1. /\ CallInv' /\ seen' = seen
      /\ call' = [pc |-> "done", tool |-> call.tool, number |-> number,
                  include |-> call.include, answer |-> a]
  BY AnswerStep
<1>2. /\ call'.pc = "done" /\ call'.tool = "section" /\ call'.answer = a
      /\ call'.number = number /\ call'.include = call.include
  BY <1>1
<1>3. /\ doc \in Docs /\ number \in Questions
      /\ Version(last) \in seen /\ Version(last).doc = doc
      /\ \A v \in seen : seen = {v} => v.doc = doc
  BY SeenNow DEF CallInv, Asking
<1>4. DOMAIN a.children = children /\ Range(a.children) = {doc[i] : i \in children}
  BY DEF Range
<1>5. Range(a.children) \subseteq Range(doc) /\ Range(a.children) # {}
  BY <1>4 DEF Range
<1>6. a.kind = "emptyParent" \/ a.include =>
        HasNumber(doc, number) /\ children \subseteq Under(doc, number)
  BY <1>3, ChildrenAreUnder
<1>7. AdviceCanBeFollowed'
  BY <1>1, <1>2, <1>3, <1>4, <1>5, <1>6 DEF AdviceCanBeFollowed, Says
<1>8. DraftsAgree'
  BY <1>1, <1>2, <1>3 DEF DraftsAgree, AsDraft, Done
<1>9. AnswersAreTrue' /\ ReferencesFollowText'
  BY <1>2 DEF AnswersAreTrue, TextIsOneVersion, NotFoundIsTrue, ReferencesFollowText, Says, Done
<1>10. QED
  BY <1>1, <1>7, <1>8, <1>9 DEF Right

LEMMA AskKidsStep ==
  ASSUME StoreInv, CallInv, AskKids, UNCHANGED <<store, seen>>
  PROVE  CallInv' /\ Right'
<1> PICK doc, number : doc = last.doc /\ number = call.number
  OBVIOUS
<1> DEFINE children == GetChildren(table, number)
<1>1. /\ call.pc = "kids" /\ Asking /\ call.tool = "section" /\ ~call.include
      /\ call.include \in BOOLEAN /\ number \in Questions
  BY DEF AskKids, CallInv, Asking
<1>2. PICK v \in seen : /\ call.text = [kind |-> "text", sections |-> Asked(v.doc)]
                        /\ HasNumber(v.doc, number)
                        /\ AllBlank(v.doc, SelectOne(v.doc, number))
  BY <1>1 DEF CallInv
<1>3. /\ doc \in Docs /\ Content(table) = doc /\ table \in Seq(Rows)
      /\ \A w \in seen : seen = {w} => w.doc = doc
  BY <1>1, SeenNow DEF StoreInv
<1>4. children = GetChildren(doc, number) /\ children \subseteq DOMAIN doc
  <2>1. children = GetChildren(doc, number)
    BY <1>3, SameAnswers
  <2>2. QED
    BY <2>1 DEF GetChildren
<1>5. /\ EmptyParent(table, children) = [kind |-> "emptyParent",
                                         children |-> [i \in children |-> doc[i]]]
      /\ EmptyParent(table, children) = EmptyParent(doc, children)
  BY <1>3, <1>4, SameAnswers DEF EmptyParent
<1>6. seen = {v} => /\ DraftSection(doc, number, call.include) = SelectOne(doc, number)
                    /\ SelectOne(doc, number) # {}
                    /\ AllBlank(doc, SelectOne(doc, number))
  BY <1>1, <1>2, <1>3, UnderHasNumber DEF DraftSection, Exists
<1>7. seen = {v} => Text(doc, SelectOne(doc, number)) = [kind |-> "text", sections |-> Asked(doc)]
  <2>1. Picked(doc, SelectOne(doc, number)) = [i \in SelectOne(doc, number) |-> doc[i]]
    BY <1>3, DocFacts DEF Picked, SelectOne
  <2>2. QED
    BY <1>1, <2>1 DEF Text, Asked, SelectOne
<1>8. CASE children # {}
  <2>1. Answer(EmptyParent(table, children))
    BY <1>8 DEF AskKids
  <2>2. seen = {v} => EmptyParent(table, children) = DraftAnswer(doc, number, call.include)
    <3>1. SUFFICES ASSUME seen = {v}
                   PROVE  EmptyParent(doc, children) = DraftAnswer(doc, number, call.include)
      BY <1>5
    <3> DEFINE found == SelectOne(doc, number)
    <3>2. /\ DraftSection(doc, number, call.include) = found /\ found # {}
          /\ AllBlank(doc, found) /\ ~call.include /\ call.include \in BOOLEAN
          /\ GetChildren(doc, number) = children /\ children # {}
      BY <1>1, <1>4, <1>6, <1>8, <3>1
    <3> HIDE DEF found, children
    <3>3. QED
      BY <3>2, DraftCases
  <2> DEFINE a == EmptyParent(table, children)
  <2>3. a.kind = "emptyParent" /\ a.children = [i \in children |-> doc[i]]
    BY <1>5
  <2>4. \A w \in seen : seen = {w} => a = DraftAnswer(doc, number, call.include)
    BY <2>2
  <2>7. \A w \in seen : seen = {w} => AsDraft(a, doc, number, call.include)
    BY <2>4 DEF AsDraft
  <2> HIDE DEF a, children
  <2>5. Answer(a)
    BY <2>1 DEF a
  <2>6. QED
    BY <1>1, <1>4, <1>8, <2>3, <2>5, <2>7, AdviceStep
<1>9. CASE children = {}
  <2>1. Answer([kind |-> "text", sections |-> Asked(v.doc)])
    BY <1>2, <1>9 DEF AskKids
  <2>2. ASSUME NEW w \in seen, seen = {w}
        PROVE  [kind |-> "text", sections |-> Asked(v.doc)]
                 = DraftAnswer(w.doc, call.number, call.include)
    <3>1. w = v /\ w.doc = doc /\ seen = {v}
      BY <1>3, <2>2
    <3> DEFINE found == SelectOne(doc, number)
    <3>2. /\ DraftSection(doc, number, call.include) = found /\ found # {}
          /\ call.include \in BOOLEAN /\ GetChildren(doc, number) = {}
      BY <1>1, <1>4, <1>6, <1>9, <3>1
    <3>3. DraftAnswer(doc, number, call.include) = Text(doc, found)
      <4> HIDE DEF found
      <4>1. QED
        BY <3>2, DraftCases
    <3>4. QED
      BY <1>7, <3>1, <3>3
  <2>3. \E w \in seen : Asked(v.doc) = Asked(w.doc)
    BY <1>2
  <2> HIDE DEF children
  <2>4. QED
    BY <1>1, <2>1, <2>2, <2>3, TextStep
<1>10. QED
  BY <1>8, <1>9

LEMMA AskChildrenStep ==
  ASSUME StoreInv, CallInv, AskChildren, UNCHANGED <<store, seen>>
  PROVE  CallInv' /\ Right'
<1> PICK doc, number : doc = last.doc /\ number = call.number
  OBVIOUS
<1> DEFINE children == GetChildren(table, number)
           a == MissingSection(table, children, TRUE)
<1>1. /\ call.pc = "children" /\ Asking /\ call.tool = "section" /\ call.pc # "kids"
      /\ call.include \in BOOLEAN /\ number \in Questions
      /\ \E v \in seen : ~HasNumber(v.doc, number)
  BY DEF AskChildren, CallInv, Asking
<1>2. /\ doc \in Docs /\ Content(table) = doc /\ table \in Seq(Rows)
      /\ \A w \in seen : seen = {w} => w.doc = doc
  BY <1>1, SeenNow DEF StoreInv
<1>3. children = GetChildren(doc, number) /\ children \subseteq DOMAIN doc
  <2>1. children = GetChildren(doc, number)
    BY <1>2, SameAnswers
  <2>2. QED
    BY <2>1 DEF GetChildren
<1>4. CASE children = {}
  <2>1. Goto("prefix")
    BY <1>4 DEF AskChildren
  <2>2. GetChildren(last.doc, call.number) = {}
    BY <1>3, <1>4
  <2> HIDE DEF children
  <2>3. QED
    BY <1>1, <2>1, <2>2, GotoStep
<1>5. CASE children # {}
  <2>1. Answer(a)
    BY <1>5 DEF AskChildren
  <2>2. a.kind = "missing" /\ a.include /\ a.children = [i \in children |-> doc[i]]
    BY <1>2, <1>3, SameAnswers DEF MissingSection
  <2>3. ASSUME NEW w \in seen, seen = {w} PROVE FALSE
    <3>1. ~HasNumber(doc, number)
      BY <1>1, <1>2, <2>3
    <3>2. PICK k \in GetChildren(doc, number) : TRUE
      BY <1>3, <1>5
    <3>3. QED
      BY <1>1, <1>2, <3>1, <3>2, ChildrenAreUnder
  <2> HIDE DEF a, children
  <2>4. QED
    BY <1>1, <1>3, <1>5, <2>1, <2>2, <2>3, AdviceStep
<1>6. QED
  BY <1>4, <1>5

LEMMA AskPrefixStep ==
  ASSUME StoreInv, CallInv, AskPrefix, UNCHANGED <<store, seen>>
  PROVE  CallInv' /\ Right'
<1> PICK doc, number : doc = last.doc /\ number = call.number
  OBVIOUS
<1> DEFINE children == GetDescendantsByPrefix(table, number)
           draft == DraftAnswer(doc, number, call.include)
           prefixed == DraftDescendantsByPrefix(doc, number)
<1>1. /\ call.pc = "prefix" /\ Asking /\ call.tool = "section"
      /\ call.include \in BOOLEAN /\ number \in Questions
      /\ \E v \in seen : ~HasNumber(v.doc, number)
      /\ \E v \in seen : GetChildren(v.doc, number) = {}
  BY DEF AskPrefix, CallInv, Asking
<1>2. /\ doc \in Docs /\ Content(table) = doc /\ table \in Seq(Rows)
      /\ \A w \in seen : seen = {w} => w.doc = doc
  BY <1>1, SeenNow DEF StoreInv
<1>3. /\ children = GetDescendantsByPrefix(doc, number) /\ children \subseteq DOMAIN doc
      /\ Picked(table, children) = [i \in children |-> doc[i]]
  <2>1. children = GetDescendantsByPrefix(doc, number)
    BY <1>2, SameAnswers
  <2>2. children \subseteq DOMAIN doc
    BY <2>1 DEF GetDescendantsByPrefix
  <2> HIDE DEF children
  <2>3. QED
    BY <1>2, <2>1, <2>2, SameAnswers
<1>4. prefixed = {i \in children : IsPrefix(number, doc[i].number)}
  BY <1>1, <1>2, <1>3, PrefixFacts
<1>5. ASSUME NEW w \in seen, seen = {w}
      PROVE  /\ prefixed # {} => draft = MissingSection(doc, prefixed, FALSE)
             /\ prefixed = {} => draft = SectionNotFound
  <2>1. w.doc = doc /\ ~HasNumber(doc, number) /\ GetChildren(doc, number) = {}
    BY <1>1, <1>2, <1>5
  <2>2. DraftSection(doc, number, call.include) = {}
    BY <1>2, <2>1, UnderHasNumber DEF DraftSection, Exists
  <2> HIDE DEF draft, prefixed
  <2>3. QED
    BY <1>1, <2>1, <2>2, DraftCases DEF draft, prefixed
<1>6. CASE children = {}
  <2> DEFINE a == SectionNotFound
  <2>1. Answer(a)
    BY <1>6 DEF AskPrefix
  <2>2. /\ CallInv' /\ seen' = seen
        /\ call' = [pc |-> "done", tool |-> call.tool, number |-> number,
                    include |-> call.include, answer |-> a]
    BY <1>1, <2>1, AnswerStep
  <2>3. /\ call'.pc = "done" /\ call'.tool = "section" /\ call'.answer = a
        /\ call'.number = number /\ call'.include = call.include
        /\ a.kind = "sectionNotFound"
    BY <1>1, <2>2 DEF SectionNotFound
  <2>4. \A w \in seen : seen = {w} => a = draft
    BY <1>4, <1>5, <1>6
  <2> HIDE DEF a, draft
  <2>5. DraftsAgree'
    BY <1>2, <2>2, <2>3, <2>4 DEF DraftsAgree, draft
  <2>6. AnswersAreTrue'
    BY <1>1, <2>2, <2>3 DEF AnswersAreTrue, TextIsOneVersion, NotFoundIsTrue, Says
  <2>7. AdviceCanBeFollowed' /\ ReferencesFollowText'
    BY <2>3 DEF AdviceCanBeFollowed, ReferencesFollowText, Says, Done
  <2>8. QED
    BY <2>2, <2>5, <2>6, <2>7 DEF Right
<1>7. CASE children # {}
  <2> DEFINE a == MissingSection(table, children, FALSE)
             OfOtherCase == {s \in Range(doc) : ~IsPrefix(number, s.number)}
  <2>1. Answer(a)
    BY <1>7 DEF AskPrefix
  <2>2. a.kind = "missing" /\ ~a.include /\ a.children = [i \in children |-> doc[i]]
    BY <1>3 DEF MissingSection
  <2>3. Range(a.children) = {doc[i] : i \in children}
    BY <2>2 DEF Range
  <2>4. \A i \in children : doc[i] \in Range(doc)
    BY <1>3 DEF Range
  <2>5. MissingSection(doc, prefixed, FALSE)
          = [kind |-> "missing", children |-> [i \in prefixed |-> doc[i]], include |-> FALSE]
    BY <1>2, <1>3, <1>4, SameAnswers DEF MissingSection
  <2>6. ASSUME NEW w \in seen, seen = {w}
        PROVE  \/ a = draft
               \/ /\ draft.kind \in {"missing", "sectionNotFound"}
                  /\ Range(a.children) \intersect OfOtherCase # {}
                  /\ Range(a.children) \ OfOtherCase =
                       IF draft.kind = "missing" THEN Range(draft.children) ELSE {}
    <3>1. CASE prefixed = children
      BY <1>3, <1>5, <1>7, <2>5, <2>6, <3>1 DEF MissingSection
    <3>2. CASE prefixed # children
      <4>1. Range(a.children) \intersect OfOtherCase # {}
        BY <1>4, <2>3, <2>4, <3>2
      <4>2. Range(a.children) \ OfOtherCase = {doc[i] : i \in prefixed}
        <5>1. \A i \in children : doc[i] \in OfOtherCase <=> ~IsPrefix(number, doc[i].number)
          BY <2>4
        <5>2. \A i \in children : i \in prefixed <=> doc[i] \notin OfOtherCase
          BY <1>4, <5>1
        <5>3. prefixed \subseteq children
          BY <1>4
        <5> HIDE DEF OfOtherCase, prefixed, children, a
        <5>4. QED
          BY <2>3, <5>2, <5>3
      <4>3. CASE prefixed = {}
        <5>1. draft.kind = "sectionNotFound"
          BY <1>5, <2>6, <4>3 DEF SectionNotFound
        <5>2. {doc[i] : i \in prefixed} = {}
          BY <4>3
        <5> HIDE DEF a, draft, OfOtherCase, prefixed
        <5>3. QED
          BY <4>1, <4>2, <5>1, <5>2
      <4>4. CASE prefixed # {}
        <5>1. /\ draft.kind = "missing" /\ draft.children = [i \in prefixed |-> doc[i]]
          <6> DEFINE m == [kind |-> "missing", children |-> [i \in prefixed |-> doc[i]],
                           include |-> FALSE]
          <6>1. draft = m
            <7> HIDE DEF draft, prefixed
            <7>1. QED
              BY <1>5, <2>5, <2>6, <4>4
          <6>2. m.kind = "missing" /\ m.children = [i \in prefixed |-> doc[i]]
            <7> HIDE DEF prefixed
            <7>1. QED
              OBVIOUS
          <6> HIDE DEF draft, prefixed, m
          <6>3. QED
            BY <6>1, <6>2
        <5>2. Range(draft.children) = {doc[i] : i \in prefixed}
          <6> HIDE DEF draft, prefixed
          <6>1. QED
            BY <5>1 DEF Range
        <5> HIDE DEF a, draft, OfOtherCase, prefixed
        <5>3. QED
          BY <4>1, <4>2, <5>1, <5>2
      <4>5. QED
        BY <4>3, <4>4
    <3>3. QED
      BY <3>1, <3>2
  <2>7. \A w \in seen : seen = {w} => AsDraft(a, doc, number, call.include)
    BY <2>2, <2>6 DEF AsDraft
  <2> HIDE DEF a, children, draft
  <2>8. QED
    BY <1>1, <1>3, <1>7, <2>1, <2>2, <2>7, AdviceStep
<1>8. QED
  BY <1>6, <1>7

LEMMA HandleStep ==
  ASSUME StoreInv, CallInv, Right, Handle
  PROVE  CallInv' /\ Right'
<1>1. ASSUME NEW tool \in {"section", "references"}, NEW number \in Questions,
             NEW include \in BOOLEAN, Ask(tool, number, include)
      PROVE  CallInv' /\ Right'
  BY <1>1, AskStep
<1>2. ASSUME NEW tool \in {"toc", "document"}, Ask(tool, <<>>, FALSE)
      PROVE  CallInv' /\ Right'
  BY <1>2, AskStep
<1>3. CASE /\ CheckExists \/ Select \/ AskKids \/ AskTOC \/ AskChildren \/ AskPrefix
              \/ AskRow \/ HandleGetTOC \/ HandleGetDocument \/ AskReferences
           /\ UNCHANGED <<store, seen>>
  BY <1>3, CheckExistsStep, SelectStep, AskKidsStep, AskTOCStep, AskChildrenStep,
     AskPrefixStep, AskRowStep, WholeStep, AskReferencesStep
<1>4. CASE Forget /\ seen' = {} /\ UNCHANGED store
  <2>1. call'.pc = "none"
    BY <1>4 DEF Forget, NoCall
  <2>2. QED
    BY <2>1 DEF CallInv, Asking, Right, AnswersAreTrue, TextIsOneVersion, NotFoundIsTrue,
         AdviceCanBeFollowed, DraftsAgree, ReferencesFollowText, Says, Done
<1>5. QED
  BY <1>1, <1>2, <1>3, <1>4 DEF Handle

(* An import during a call adds a version, and takes none away.            *)
LEMMA ImportDuringCall ==
  ASSUME FtsInv, StoreInv, TxInv, CallInv, Right, Import
  PROVE  CallInv' /\ Right'
<1>1. /\ StoreInv' /\ call' = call
      /\ (row' = "notIssued" <=> row = "notIssued")
      /\ \/ seen' = seen /\ Version(last') = Version(last)
         \/ /\ call.pc \in {"none", "done"} => seen' = seen
            /\ Asking => seen' = seen \union {Version(last')}
  BY StoreStep
<1>2. seen \subseteq seen' /\ Version(last').row = row'
      /\ \A v \in seen' : v \in seen \/ v = Version(last')
  BY <1>1 DEF StoreInv, Version, Asking
<1>3. \A d : Asked(d)' = Asked(d)
  BY <1>1 DEF Asked
<1>4. CallInv'
  BY <1>1, <1>2, <1>3 DEF CallInv, Asking
<1>5. CASE call.pc = "done"
  <2>1. seen' = seen
    BY <1>1, <1>5 DEF Asking
  <2>2. QED
    BY <1>1, <1>3, <1>4, <2>1 DEF Right, AnswersAreTrue, TextIsOneVersion, NotFoundIsTrue,
       AdviceCanBeFollowed, DraftsAgree, ReferencesFollowText, Says, Done
<1>6. CASE call.pc # "done"
  BY <1>1, <1>4, <1>6 DEF Right, AnswersAreTrue, TextIsOneVersion, NotFoundIsTrue,
       AdviceCanBeFollowed, DraftsAgree, ReferencesFollowText, Says, Done
<1>7. QED
  BY <1>5, <1>6

(* The inductive invariant.                                                *)
THEOREM Invariance == Spec => []IInv
<1>1. Init => IInv
  <2> SUFFICES ASSUME Init PROVE IInv
    OBVIOUS
  <2>1. FtsInv
    BY DEF Init, FtsInv, InTx, NoImport, Statements, FtsInStep, Range
  <2>2. StoreInv
    <3>1. Content(<<>>) = <<>> /\ Citing(<<>>) = {}
      BY DEF Content, Picked, Citing, Range
    <3>2. QED
      BY <3>1 DEF Init, StoreInv, Docs
  <2>3. TxInv /\ CallInv /\ call.pc # "done"
    BY DEF Init, TxInv, CallInv, NoImport, NoCall, Statements, Asking
  <2>4. QED
    BY <2>1, <2>2, <2>3, NotYet DEF IInv
<1>2. IInv /\ [Next]_vars => IInv'
  <2> SUFFICES ASSUME IInv, [Next]_vars PROVE IInv'
    OBVIOUS
  <2> USE DEF IInv
  <2>1. CASE Import
    BY <2>1, ImportInv, StoreStep, ImportDuringCall
  <2>2. CASE Handle
    <3>1. UNCHANGED store
      BY <2>2 DEF Handle, Ask
    <3>2. FtsInv' /\ StoreInv' /\ TxInv'
      BY <3>1 DEF store, FtsInv, InTx, FtsInStep, StoreInv, TxInv
    <3>3. QED
      BY <2>2, <3>2, HandleStep
  <2>3. CASE UNCHANGED vars
    <3>1. FtsInv' /\ StoreInv' /\ TxInv'
      BY <2>3 DEF vars, FtsInv, InTx, FtsInStep, StoreInv, TxInv
    <3>2. CallInv'
      BY <2>3 DEF vars, CallInv, Asking, Asked
    <3>3. call' = call /\ seen' = seen /\ \A d : Asked(d)' = Asked(d)
      BY <2>3 DEF vars, Asked
    <3>4. AnswersAreTrue' = AnswersAreTrue
      BY <3>3 DEF AnswersAreTrue, TextIsOneVersion, NotFoundIsTrue, Says
    <3>5. AdviceCanBeFollowed' = AdviceCanBeFollowed
      BY <3>3 DEF AdviceCanBeFollowed, Says
    <3>6. DraftsAgree' = DraftsAgree
      BY <3>3 DEF DraftsAgree, Done
    <3>7. ReferencesFollowText' = ReferencesFollowText
      BY <3>3 DEF ReferencesFollowText, Done
    <3>8. QED
      BY <3>1, <3>2, <3>4, <3>5, <3>6, <3>7 DEF Right
  <2>4. QED
    BY <2>1, <2>2, <2>3 DEF Next
<1>3. QED
  BY <1>1, <1>2, PTL DEF Spec

(* Whatever import fails or dies after whatever statement, the full-text   *)
(* index has the committed sections, and only those (db.go:171-192).       *)
THEOREM IndexInStep == Spec => []FtsInStep
<1>1. IInv => FtsInStep
  BY DEF IInv, FtsInv
<1>2. QED
  BY <1>1, Invariance, PTL

(* However the imports fall between a call's queries, the text it returns  *)
(* is that of one stored document, and its reason for finding nothing was  *)
(* true (get_section.go:42-117, rfc_lookup.go:62-82).                      *)
THEOREM AnswersStayTrue == Spec => []AnswersAreTrue
<1>1. IInv => AnswersAreTrue
  BY DEF IInv, Right
<1>2. QED
  BY <1>1, Invariance, PTL

(* Sections named as guidance are those of one stored document, and where  *)
(* include_subsections is offered the walk from the asked number reaches   *)
(* them (get_section.go:60-84, 98-106).                                    *)
THEOREM AdviceStaysGood == Spec => []AdviceCanBeFollowed
<1>1. IInv => AdviceCanBeFollowed
  BY DEF IInv, Right
<1>2. QED
  BY <1>1, Invariance, PTL

(* The two implementations of get_section's answer differ in what LIKE and *)
(* HasPrefix take for a prefix, and in nothing else (draft_helpers.go:     *)
(* 139-207, sections.go:149-319).                                          *)
THEOREM DraftsStayAlike == Spec => []DraftsAgree
<1>1. IInv => DraftsAgree
  BY DEF IInv, Right
<1>2. QED
  BY <1>1, Invariance, PTL

(* References reported for a part of the document are those found in the   *)
(* text of that part, once they are stored (references.go:165-214,         *)
(* pipeline.go:709-722).                                                   *)
THEOREM ReferencesAreOfTheText == Spec => []ReferencesFollowText
<1>1. IInv => ReferencesFollowText
  BY DEF IInv, Right
<1>2. QED
  BY <1>1, Invariance, PTL
=============================================================================
