------------------------- MODULE HeadingTreeProofs -------------------------
(***************************************************************************)
(* Proofs about module HeadingTree: for every document, the sections form  *)
(* a tree, no line of the text is lost, and without a table of contents    *)
(* the tree follows the numbers.                                           *)
(*                                                                         *)
(* Why the parents form no cycle: a heading ranks above its parent, where  *)
(* a number's rank is twice its length, a slug's twice its depth in the    *)
(* table of contents, and one less for an N.0 that took the place of N.    *)
(***************************************************************************)
EXTENDS HeadingTree, FiniteSetTheorems, SequenceTheorems, WellFoundedInduction, TLAPS

HeadNumbers == (Tokens \ {Root}) \union {Slug(t) : t \in Titles}
Headings == [line : Nat, num : HeadNumbers, parent : HeadNumbers \union {Root}, level : Nat]

DocInv ==
    /\ doc.lines \in Seq(TextLines)
    /\ doc.toc.at \in Nat /\ doc.toc.end \in Nat
    /\ Entries \in Seq(Listed) /\ (Entries # <<>> => doc.toc.end > 0)

HeadsInv ==
    /\ IsFiniteSet(heads) /\ heads \subseteq Headings
    /\ \A g, h \in heads : g.num = h.num => g = h
    /\ pc = "detect" => /\ heads = {} /\ sections = {} /\ visited = 0
                        /\ exclude = [start |-> 0, end |-> 0]
    /\ pc \in {"promote", "rescue", "reparent", "assemble"} => heads # {} /\ sections = {}
    /\ pc \in {"promote", "rescue", "reparent"} => \A h \in heads : h.level = 0
    /\ pc = "promote" => \A g, h \in heads : g.line = h.line => g = h

\* D ranks the slugs; Z has the numbers N.0 that took the place of their N.
Rank(D, Z, n) == IF IsSlug(n) THEN 2 * D[n[1]]
                 ELSE IF n \in Z THEN 2 * Len(n) - 1 ELSE 2 * Len(n)

\* An N.0 in the place of N is below a shorter number or an M.0 like it.
Ordered(H, D, Z) ==
    /\ \A n \in Z : n \in Tokens /\ Len(n) > 1
    /\ \A h \in H : h.parent # Root => Rank(D, Z, h.parent) < Rank(D, Z, h.num)
    /\ \A h \in H : h.num \in Z /\ h.parent # Root =>
          /\ h.parent \in Tokens
          /\ Len(h.parent) < Len(h.num)
          /\ Len(h.parent) = Len(h.num) - 1 => h.parent \in Z

Acyclic ==
    pc \in {"promote", "rescue", "reparent"} =>
        \E D \in [Titles -> Nat], Z \in SUBSET Numbers : Ordered(heads, D, Z)

\* What the repairs keep of the order the numbers have.
Nested ==
    pc \in {"promote", "rescue", "reparent", "assemble"} /\ Entries = <<>> =>
        /\ Nums(Tier1) \subseteq Numbers
        /\ pc = "promote" => Numbers = Nums(Tier1)
        /\ \A h \in heads :
            /\ \/ h.parent \in {Root} \union Prefixes(h.num)
               \/ h.parent \in {Zero(p) : p \in Prefixes(h.num)} /\ h.parent \in Numbers
            /\ Up(h.num) \in Nums(Tier1) => h.parent = Up(h.num)
            /\ LET zero == Zero(Up(h.num))
               IN  {zero, h.num} \subseteq Nums(Tier1) /\ zero # h.num
                     /\ Up(h.num) \notin Nums(Tier1) \union {Root} =>
                   h.parent = IF pc = "promote" /\ \E z \in heads : z.num = zero
                                                                /\ z.line > visited
                              THEN Up(h.num) ELSE zero

\* The headings are a tree before the text is cut.
Joined ==
    pc = "assemble" =>
        \A h \in heads :
            \/ h.parent = Root /\ h.level = 1
            \/ \E p \in heads : p.num = h.parent /\ h.level = p.level + 1

IInv == /\ TypeOK /\ DocInv /\ HeadsInv /\ Acyclic /\ Nested /\ Joined
        /\ SectionsAreATree /\ TextIsKept /\ NestedByNumber
-----------------------------------------------------------------------------
(***************************************************************************)
(* Numbers, finite sets, sequences.                                        *)
(***************************************************************************)

LEMMA Least ==
  ASSUME NEW S, S \subseteq Nat, S # {}
  PROVE  \E n \in S : \A m \in S : n <= m
<1>1. IsWellFoundedOn(OpToRel(<, Nat), Nat)
  BY NatLessThanWellFounded
<1>2. PICK n \in S : \A m \in S : <<m, n>> \notin OpToRel(<, Nat)
  BY <1>1, WFMin
<1>3. \A m \in S : ~(m < n)
  BY <1>2 DEF OpToRel
<1>4. QED
  BY <1>3

LEMMA FirstFacts ==
  ASSUME NEW S, S \subseteq Nat, S # {}
  PROVE  First(S) \in S /\ \A j \in S : First(S) <= j
BY Least DEF First

LEMMA LastFacts ==
  ASSUME NEW n \in Nat, NEW S, S \subseteq 0 .. n, S # {}
  PROVE  Last(S) \in S /\ \A j \in S : j <= Last(S)
<1>1. \E m \in {n - k : k \in S} : \A i \in {n - k : k \in S} : m <= i
  <2>1. \A k \in S : n - k \in Nat
    OBVIOUS
  <2>2. {n - k : k \in S} \subseteq Nat
    BY <2>1
  <2>3. QED
    BY <2>2, Least
<1>2. PICK k \in S : \A j \in S : n - k <= n - j
  BY <1>1
<1>3. \A j \in S : j <= k
  BY <1>2
<1>4. QED
  BY <1>3 DEF Last

(* What holds at 0, and after k when it holds at k, holds up to n.         *)
LEMMA UpToN ==
  ASSUME NEW n \in Nat, NEW S, 0 \in S, \A k \in 0 .. n - 1 : k \in S => k + 1 \in S
  PROVE  0 .. n \subseteq S
<1> DEFINE Bad == {k \in 0 .. n : k \notin S}
<1> SUFFICES ASSUME Bad # {} PROVE FALSE
  OBVIOUS
<1>1. PICK k \in Bad : \A j \in Bad : k <= j
  <2>1. Bad \subseteq Nat
    OBVIOUS
  <2> HIDE DEF Bad
  <2>2. QED
    BY <2>1, Least
<1>2. k \in 0 .. n /\ k # 0 /\ k \notin S
  OBVIOUS
<1>3. k - 1 \in 0 .. n - 1 /\ k - 1 \notin Bad
  BY <1>1, <1>2
<1>4. k - 1 \in S
  BY <1>3
<1>5. QED
  BY <1>2, <1>3, <1>4

(* A function given by its value at 0 and by steps.                        *)
Runs(f, n, S, x, step) ==
    f \in [0 .. n -> S] /\ f[0] = x /\ \A k \in 1 .. n : f[k] = step[k][f[k - 1]]

LEMMA Iterate ==
  ASSUME NEW n \in Nat, NEW S, NEW x \in S, NEW step \in [1 .. n -> [S -> S]]
  PROVE  \E f : Runs(f, n, S, x, step)
<1> DEFINE Part(k, f) == /\ f \in [0 .. k -> S] /\ f[0] = x
                         /\ \A j \in 1 .. k : f[j] = step[j][f[j - 1]]
           Good == {k \in 0 .. n : \E f : Part(k, f)}
<1>1. 0 \in Good
  <2>1. Part(0, [k \in 0 .. 0 |-> x])
    OBVIOUS
  <2>2. 0 \in 0 .. n
    OBVIOUS
  <2> HIDE DEF Part
  <2>3. QED
    BY <2>1, <2>2
<1>2. ASSUME NEW k \in 0 .. n - 1, k \in Good PROVE k + 1 \in Good
  <2>1. PICK f : Part(k, f)
    BY <1>2
  <2> DEFINE g == [j \in 0 .. k + 1 |-> IF j = k + 1 THEN step[k + 1][f[k]] ELSE f[j]]
  <2>2. g \in [0 .. k + 1 -> S] /\ g[0] = x
    BY <2>1
  <2>3. ASSUME NEW j \in 1 .. k + 1 PROVE g[j] = step[j][g[j - 1]]
    BY <2>1
  <2> HIDE DEF g
  <2>4. QED
    BY <2>2, <2>3
<1>3. n \in Good
  <2> HIDE DEF Good
  <2>1. 0 .. n \subseteq Good
    BY <1>1, <1>2, UpToN
  <2>2. QED
    BY <2>1
<1>4. PICK f : Part(n, f)
  BY <1>3
<1>5. QED
  BY <1>4 DEF Runs

LEMMA ImageFacts ==
  ASSUME NEW S, IsFiniteSet(S), NEW f, DOMAIN f = S, f = [x \in S |-> f[x]]
  PROVE  /\ IsFiniteSet({f[x] : x \in S})
         /\ Cardinality({f[x] : x \in S}) <= Cardinality(S)
         /\ (\A x, y \in S : f[x] = f[y] => x = y) =>
              Cardinality({f[x] : x \in S}) = Cardinality(S)
         /\ Cardinality({f[x] : x \in S}) = Cardinality(S) =>
              \A x, y \in S : f[x] = f[y] => x = y
<1> DEFINE T == {f[x] : x \in S}
<1>1. f \in Surjection(S, T)
  BY DEF Surjection
<1> HIDE DEF T
<1>2. /\ IsFiniteSet(T) /\ Cardinality(T) <= Cardinality(S)
      /\ Cardinality(T) = Cardinality(S) <=> f \in Injection(S, T)
  BY <1>1, FS_Surjection
<1>3. f \in Injection(S, T) <=> \A x, y \in S : f[x] = f[y] => x = y
  BY <1>1 DEF Surjection, Injection, IsInjective
<1>4. QED
  BY <1>2, <1>3 DEF T
-----------------------------------------------------------------------------
(***************************************************************************)
(* Section numbers.                                                        *)
(***************************************************************************)

LEMMA PrefixIsToken ==
  ASSUME NEW n \in Tokens, NEW k \in 0 .. Len(n)
  PROVE  SubSeq(n, 1, k) \in Tokens /\ Len(SubSeq(n, 1, k)) = k
<1>1. n \in Seq(Segments) /\ Len(n) \in Nat /\ k \in Nat /\ k <= Len(n)
  BY DEF Tokens
<1> DEFINE p == SubSeq(n, 1, k)
<1>2. p \in Seq(Segments) /\ Len(p) = k /\ \A i \in 1 .. k : p[i] = n[i]
  <2>1. \A i \in 1 .. k : n[i] \in Segments
    BY <1>1
  <2>2. QED
    BY <1>1, <2>1, SubSeqProperties
<1>3. p # Root => k > 0 /\ n # Root
  BY <1>1, <1>2 DEF Root
<1>4. p # Root => p[1] \notin Titles
  <2>1. p # Root => p[1] = n[1]
    BY <1>1, <1>2, <1>3
  <2>2. QED
    BY <1>3, <2>1 DEF Tokens
<1> HIDE DEF p
<1>5. p \in Tokens
  BY <1>2, <1>4 DEF Tokens
<1>6. QED
  BY <1>2, <1>5 DEF p

LEMMA NumberFacts ==
  ASSUME NEW n \in HeadNumbers
  PROVE  /\ n \in Seq(Segments) /\ n # Root
         /\ Len(n) \in Nat /\ Len(n) > 0 /\ (Len(n) = 1 \/ Len(n) > 1)
         /\ IsSlug(n) => Len(n) = 1 /\ n[1] \in Titles /\ Up(n) = Root /\ Prefixes(n) = {}
         /\ ~IsSlug(n) => n \in Tokens
         /\ Up(n) \in HeadNumbers \union {Root}
         /\ Len(n) > 1 => Up(n) \in HeadNumbers /\ Len(Up(n)) = Len(n) - 1
         /\ Len(n) = 1 => Up(n) = Root
<1>1. CASE IsSlug(n)
  <2>1. PICK t \in Titles : n = <<t>>
    BY <1>1 DEF IsSlug, Slug
  <2>2. n \in Seq(Segments) /\ Len(n) = 1 /\ n[1] = t /\ n # <<>>
    <3>1. t \in Segments
      BY TitlesAssumption
    <3>2. QED
      BY <2>1, <3>1
  <2>3. SubSeq(n, 1, Len(n) - 1) = <<>>
    BY <2>2, SubSeqEmpty
  <2>4. Prefixes(n) = {}
    BY <2>2 DEF Prefixes
  <2>5. QED
    BY <1>1, <2>2, <2>3, <2>4 DEF Up, Root
<1>2. CASE ~IsSlug(n)
  <2>1. n \in Tokens /\ n # Root /\ n \in Seq(Segments)
    BY <1>2 DEF HeadNumbers, IsSlug, Tokens
  <2>2. Len(n) \in Nat \ {0}
    BY <2>1 DEF Root
  <2>3. Up(n) \in Tokens /\ Len(Up(n)) = Len(n) - 1
    <3>1. Len(n) - 1 \in 0 .. Len(n)
      BY <2>2
    <3>2. QED
      BY <2>1, <3>1, PrefixIsToken DEF Up
  <2>4. Len(n) = 1 => Up(n) = Root
    BY SubSeqEmpty DEF Up, Root
  <2>5. Len(n) > 1 => Up(n) # Root
    BY <2>2, <2>3 DEF Root
  <2>6. QED
    BY <1>2, <2>1, <2>2, <2>3, <2>4, <2>5 DEF HeadNumbers
<1>3. QED
  BY <1>1, <1>2

LEMMA TokenFacts ==
  ASSUME NEW n \in Tokens
  PROVE  /\ n \in Seq(Segments) /\ ~IsSlug(n)
         /\ n # Root => n \in HeadNumbers /\ Len(n) > 0
<1>1. ~IsSlug(n)
  BY DEF Tokens, IsSlug, Slug, Root
<1>2. QED
  BY <1>1 DEF Tokens, HeadNumbers, Root

LEMMA SlugFacts ==
  ASSUME NEW t \in Titles
  PROVE  Slug(t) \in HeadNumbers /\ IsSlug(Slug(t)) /\ Slug(t)[1] = t /\ Slug(t) # Root
BY DEF HeadNumbers, IsSlug, Slug, Root

LEMMA PrefixFacts ==
  ASSUME NEW n \in HeadNumbers
  PROVE  /\ \A p \in Prefixes(n) : /\ p \in Tokens /\ p # Root /\ ~IsSlug(n)
                                   /\ Len(p) > 0 /\ Len(p) < Len(n)
                                   /\ Up(p) \in {Root} \union Prefixes(n)
                                   /\ \A k \in 1 .. Len(p) : SubSeq(p, 1, k) \in Prefixes(n)
         /\ Up(n) \in {Root} \union Prefixes(n)
<1>1. CASE IsSlug(n)
  BY <1>1, NumberFacts
<1>2. CASE ~IsSlug(n)
  <2>1. n \in Tokens /\ n \in Seq(Segments) /\ Len(n) \in Nat /\ Len(n) > 0
    BY <1>2, NumberFacts
  <2>2. ASSUME NEW k \in 1 .. Len(n) - 1
        PROVE  /\ SubSeq(n, 1, k) \in Tokens /\ Len(SubSeq(n, 1, k)) = k
               /\ \A j \in 0 .. k : SubSeq(SubSeq(n, 1, k), 1, j) = SubSeq(n, 1, j)
    <3>1. k \in 0 .. Len(n) /\ k \in 1 .. Len(n) /\ 1 \in 1 .. Len(n)
      BY <2>1
    <3>2. SubSeq(n, 1, k) \in Tokens /\ Len(SubSeq(n, 1, k)) = k
      BY <2>1, <3>1, PrefixIsToken
    <3>3. ASSUME NEW j \in 0 .. k
          PROVE  SubSeq(SubSeq(n, 1, k), 1, j) = SubSeq(n, 1, j)
      <4>1. CASE j = 0
        BY <4>1, SubSeqEmpty
      <4>2. CASE j # 0
        <5>1. 1 \in 1 .. k - 1 + 1 /\ j \in 1 .. k - 1 + 1 /\ 1 + 1 - 1 = 1 /\ 1 + j - 1 = j
          BY <4>2
        <5>2. QED
          BY <2>1, <3>1, <5>1, SubSeqOfSubSeq
      <4>3. QED
        BY <4>1, <4>2
    <3>4. QED
      BY <3>2, <3>3
  <2>3. SubSeq(n, 1, 0) = Root
    BY SubSeqEmpty DEF Root
  <2>4. ASSUME NEW p \in Prefixes(n)
        PROVE  /\ p \in Tokens /\ p # Root /\ Len(p) > 0 /\ Len(p) < Len(n)
               /\ \A k \in 0 .. Len(p) : k # 0 => SubSeq(p, 1, k) \in Prefixes(n)
               /\ SubSeq(p, 1, 0) = Root
               /\ Len(p) \in Nat
    <3>1. PICK k \in 1 .. Len(n) - 1 : p = SubSeq(n, 1, k)
      BY DEF Prefixes
    <3>2. p \in Tokens /\ Len(p) = k /\ \A j \in 0 .. k : SubSeq(p, 1, j) = SubSeq(n, 1, j)
      BY <2>2, <3>1
    <3>3. p # Root
      BY <3>2 DEF Root
    <3>4. \A j \in 1 .. k : SubSeq(n, 1, j) \in Prefixes(n)
      BY <2>1 DEF Prefixes
    <3>5. /\ k > 0 /\ k < Len(n) /\ k \in Nat /\ 0 \in 0 .. k
          /\ \A j \in 0 .. k : j # 0 => j \in 1 .. k
      BY <2>1
    <3>6. \A j \in 0 .. k : j # 0 => SubSeq(p, 1, j) \in Prefixes(n)
      BY <3>2, <3>4, <3>5
    <3>7. SubSeq(p, 1, 0) = Root
      BY <2>3, <3>2, <3>5
    <3>8. QED
      BY <3>2, <3>3, <3>5, <3>6, <3>7
  <2>5. \A p \in Prefixes(n) : Up(p) \in {Root} \union Prefixes(n)
    <3> TAKE p \in Prefixes(n)
    <3>1. Len(p) \in Nat \ {0}
      BY <2>4
    <3>2. CASE Len(p) = 1
      BY <2>4, <3>2 DEF Up
    <3>3. CASE Len(p) # 1
      <4>1. Len(p) - 1 \in 0 .. Len(p) /\ Len(p) - 1 # 0
        BY <3>1, <3>3
      <4>2. QED
        BY <2>4, <4>1 DEF Up
    <3>4. QED
      BY <3>2, <3>3
  <2>6. Up(n) \in {Root} \union Prefixes(n)
    <3>1. CASE Len(n) = 1
      BY <2>3, <3>1 DEF Up
    <3>2. CASE Len(n) # 1
      <4>1. PICK k \in Nat : k = Len(n) - 1 /\ k > 0
        <5>1. PICK l \in Nat : l = Len(n)
          BY <2>1
        <5>2. l > 0 /\ l # 1
          BY <2>1, <3>2, <5>1
        <5>3. l - 1 \in Nat /\ l - 1 > 0
          BY <5>2
        <5>4. QED
          BY <5>1, <5>3
      <4>2. k \in 1 .. Len(n) - 1
        BY <4>1
      <4>3. QED
        BY <4>1, <4>2 DEF Up, Prefixes
    <3>3. QED
      BY <3>1, <3>2
  <2>7. QED
    BY <1>2, <2>4, <2>5, <2>6
<1>3. QED
  BY <1>1, <1>2

LEMMA ZeroFacts ==
  /\ \A n \in HeadNumbers : Len(n) > 1 /\ n[Len(n)] = "0" => n = Zero(Up(n)) /\ n \in Tokens
  /\ \A n \in HeadNumbers : Len(n) > 1 => /\ Up(Zero(Up(n))) = Up(n)
                                          /\ Len(Zero(Up(n))) = Len(n)
                                          /\ Zero(Up(n))[Len(n)] = "0"
<1>1. ASSUME NEW n \in HeadNumbers, Len(n) > 1
      PROVE  /\ Up(Zero(Up(n))) = Up(n) /\ Len(Zero(Up(n))) = Len(n)
             /\ Zero(Up(n))[Len(n)] = "0" /\ n \in Tokens
             /\ n[Len(n)] = "0" => n = Zero(Up(n))
  <2>1. n \in Seq(Segments) /\ Len(n) \in Nat /\ n \in Tokens
    BY <1>1, NumberFacts
  <2> DEFINE u == Up(n)
  <2>2. u \in Seq(Segments) /\ Len(u) = Len(n) - 1 /\ \A i \in 1 .. Len(n) - 1 : u[i] = n[i]
    <3>1. \A i \in 1 .. Len(n) - 1 : n[i] \in Segments
      BY <2>1
    <3>2. Len(n) - 1 \in Int /\ 1 <= Len(n) - 1 /\ Len(n) - 1 - 1 + 1 = Len(n) - 1
          /\ \A i \in 1 .. Len(n) - 1 : 1 + i - 1 = i
      BY <1>1, <2>1
    <3>3. QED
      BY <3>1, <3>2, SubSeqProperties DEF Up
  <2> HIDE DEF u
  <2> DEFINE z == Append(u, "0")
             Texts == Segments \union {"0"}
  <2>3. /\ z \in Seq(Texts) /\ Len(z) = Len(n) /\ z[Len(n)] = "0"
        /\ \A i \in 1 .. Len(n) - 1 : z[i] = u[i]
    <3>1. "0" \in Texts /\ u \in Seq(Texts)
      BY <2>2
    <3>2. Len(u) + 1 = Len(n) /\ DOMAIN u = 1 .. Len(n) - 1
      BY <2>1, <2>2
    <3>3. QED
      BY <2>2, <3>1, <3>2, AppendProperties
  <2> HIDE DEF z
  <2>4. SubSeq(z, 1, Len(n) - 1) = u
    <3> DEFINE w == SubSeq(z, 1, Len(n) - 1)
    <3>1. \A i \in 1 .. Len(n) - 1 : z[i] \in Texts
      BY <2>1, <2>3
    <3>2. Len(n) - 1 \in Int /\ 1 <= Len(n) - 1 /\ Len(n) - 1 - 1 + 1 = Len(n) - 1
          /\ \A i \in 1 .. Len(n) - 1 : 1 + i - 1 = i
      BY <1>1, <2>1
    <3>3. /\ w \in Seq(Texts) /\ Len(w) = Len(n) - 1
          /\ \A i \in 1 .. Len(n) - 1 : w[i] = u[i]
      BY <2>3, <3>1, <3>2, SubSeqProperties
    <3> HIDE DEF w
    <3>4. w = u
      BY <2>2, <3>3
    <3>5. QED
      BY <3>4 DEF w
  <2>5. n[Len(n)] = "0" => n = z
    <3>1. ASSUME n[Len(n)] = "0", NEW i \in 1 .. Len(n) PROVE n[i] = z[i]
      <4>1. i \in 1 .. Len(n) - 1 \/ i = Len(n)
        BY <2>1
      <4>2. QED
        BY <2>2, <2>3, <3>1, <4>1
    <3>2. QED
      BY <2>1, <2>3, <3>1
  <2>6. QED
    BY <2>1, <2>3, <2>4, <2>5 DEF Zero, u, z, Up
<1>2. QED
  BY <1>1
-----------------------------------------------------------------------------
(***************************************************************************)
(* The two tiers.                                                          *)
(***************************************************************************)

\* What either tier finds: headings of different numbers on different lines.
Apart(H) ==
    /\ IsFiniteSet(H) /\ H \subseteq Headings
    /\ \A h \in H : h.line \in Lines /\ h.level = 0
    /\ \A g, h \in H : g.num = h.num \/ g.line = h.line => g = h

LEMMA LinesFacts ==
  ASSUME DocInv
  PROVE  /\ Len(doc.lines) \in Nat /\ Lines = 1 .. Len(doc.lines) /\ IsFiniteSet(Lines)
         /\ \A i \in Lines : i \in Nat \ {0} /\ Line(i).num \in Tokens
<1>1. /\ Len(doc.lines) \in Nat /\ Lines = 1 .. Len(doc.lines)
      /\ \A i \in Lines : i \in Nat \ {0} /\ Line(i) \in TextLines
  BY DEF DocInv, Lines, Line
<1>2. IsFiniteSet(1 .. Len(doc.lines))
  BY <1>1, FS_Interval
<1>3. QED
  BY <1>1, <1>2 DEF TextLines

LEMMA Tier1Facts ==
  ASSUME DocInv
  PROVE  Apart(Tier1) /\ \A h \in Tier1 : h.parent = Up(h.num)
<1> DEFINE I == {i \in Lines : /\ Candidate(i)
                               /\ \A j \in 1 .. (i - 1) :
                                    Candidate(j) => NumberOn(j) # NumberOn(i)}
           f == [i \in I |-> Heading(i, NumberOn(i), Up(NumberOn(i)))]
<1>1. ASSUME NEW i \in I
      PROVE  /\ i \in Lines /\ i \in Nat /\ i > 0 /\ f[i].line = i /\ f[i].level = 0
             /\ f[i].num = NumberOn(i) /\ f[i].parent = Up(NumberOn(i))
             /\ f[i] \in Headings
  <2>1. i \in Lines /\ i \in Nat /\ i > 0 /\ Candidate(i)
    BY LinesFacts
  <2>2. NumberOn(i) \in HeadNumbers
    BY <2>1, LinesFacts, SlugFacts, TokenFacts, TitlesAssumption
       DEF Candidate, NumberOn, Numbered
  <2>3. Up(NumberOn(i)) \in HeadNumbers \union {Root}
    BY <2>2, NumberFacts
  <2> HIDE DEF I
  <2>4. QED
    BY <2>1, <2>2, <2>3 DEF Heading, Headings
<1>2. ASSUME NEW i \in I, NEW j \in I, NumberOn(i) = NumberOn(j) PROVE i = j
  <2>1. /\ i \in Nat /\ j \in Nat /\ i > 0 /\ j > 0 /\ Candidate(i) /\ Candidate(j)
        /\ \A k \in 1 .. (i - 1) : Candidate(k) => NumberOn(k) # NumberOn(i)
        /\ \A k \in 1 .. (j - 1) : Candidate(k) => NumberOn(k) # NumberOn(j)
    BY <1>1
  <2>2. ~(i < j) /\ ~(j < i)
    BY <1>2, <2>1
  <2>3. QED
    BY <2>1, <2>2
<1>3. Tier1 = {f[i] : i \in I}
  BY DEF Tier1
<1>4. IsFiniteSet(I)
  BY LinesFacts, FS_Subset
<1> HIDE DEF I, f
<1>5. IsFiniteSet(Tier1)
  <2>1. DOMAIN f = I /\ f = [i \in I |-> f[i]]
    BY DEF f
  <2>2. QED
    BY <1>3, <1>4, <2>1, ImageFacts
<1>6. QED
  BY <1>1, <1>2, <1>3, <1>5 DEF Apart

LEMMA LocateFacts ==
  ASSUME DocInv, NEW from \in Nat, NEW t
  PROVE  LET l == Locate(from, t) IN l \in Nat /\ (l # 0 => from <= l /\ l <= Len(doc.lines))
<1> DEFINE same == {i \in from .. Len(doc.lines) : Line(i).title = t}
           good == {i \in same : Line(i).blank}
<1>1. same \subseteq Nat /\ good \subseteq same
      /\ \A i \in same : i \in Nat /\ from <= i /\ i <= Len(doc.lines)
  BY LinesFacts
<1>2. Locate(from, t) = IF good # {} THEN First(good) ELSE IF same # {} THEN First(same) ELSE 0
  BY DEF Locate
<1> DEFINE l == Locate(from, t)
<1> HIDE DEF same, good
<1>3. (good # {} => First(good) \in same) /\ (same # {} => First(same) \in same)
  BY <1>1, FirstFacts
<1> HIDE DEF l
<1>4. l = 0 \/ l \in same
  BY <1>2, <1>3 DEF l
<1>5. l \in Nat /\ (l # 0 => from <= l /\ l <= Len(doc.lines))
  <2>1. CASE l \in same
    BY <1>1, <2>1
  <2>2. CASE l = 0
    BY <2>2
  <2>3. QED
    BY <1>4, <2>1, <2>2
<1>6. QED
  BY <1>5 DEF l

LEMMA LocatedFacts ==
  ASSUME DocInv, Entries # <<>>
  PROVE  /\ DOMAIN Entries = 1 .. Len(Entries) /\ Len(Entries) \in Nat
         /\ \A k \in DOMAIN Entries : Located[k] # 0 => Located[k] \in Lines
         /\ \A j, k \in DOMAIN Entries :
              j < k /\ Located[j] # 0 /\ Located[k] # 0 => Located[j] < Located[k]
<1>1. DOMAIN Entries = 1 .. Len(Entries) /\ Len(Entries) \in Nat
      /\ doc.toc.end \in Nat /\ doc.toc.end > 0
  BY DEF DocInv
<1> DEFINE n == Len(Entries)
           at0 == [line |-> 0, pos |-> doc.toc.end]
           Then(s, t) == LET l == Locate(s.pos, t)
                         IN  [line |-> l, pos |-> IF l = 0 THEN s.pos ELSE l + 1]
           Spots == [line : Nat, pos : Nat]
           step == [k \in 1 .. n |-> [s \in Spots |-> Then(s, Entries[k].title)]]
           Is(at) == at = [k \in 0 .. n |->
                        IF k = 0 THEN [line |-> 0, pos |-> doc.toc.end]
                        ELSE LET pos == at[k - 1].pos
                                 l == Locate(pos, Entries[k].title)
                             IN  [line |-> l, pos |-> IF l = 0 THEN pos ELSE l + 1]]
           at == CHOOSE at : Is(at)
<1>2. \A s \in Spots : \A t : Then(s, t) \in Spots
  <2> TAKE s \in Spots
  <2> TAKE t
  <2>1. Locate(s.pos, t) \in Nat
    BY LocateFacts
  <2>2. QED
    BY <2>1
<1>3. step \in [1 .. n -> [Spots -> Spots]] /\ at0 \in Spots
  BY <1>1, <1>2
<1>4. PICK f : Runs(f, n, Spots, at0, step)
  <2> HIDE DEF step, at0, Spots, n
  <2>1. n \in Nat
    BY <1>1 DEF n
  <2>2. QED
    BY <1>3, <2>1, Iterate
<1>5. Is(f)
  <2> DEFINE g(k) == IF k = 0 THEN [line |-> 0, pos |-> doc.toc.end]
                     ELSE LET pos == f[k - 1].pos
                              l == Locate(pos, Entries[k].title)
                          IN  [line |-> l, pos |-> IF l = 0 THEN pos ELSE l + 1]
  <2>1. \A k \in 0 .. n : f[k] = g(k)
    <3> TAKE k \in 0 .. n
    <3>1. /\ f \in [0 .. n -> Spots] /\ f[0] = at0
          /\ \A j \in 1 .. n : f[j] = step[j][f[j - 1]]
      BY <1>4 DEF Runs
    <3>2. CASE k = 0
      BY <3>1, <3>2
    <3>3. CASE k # 0
      <4>1. k \in 1 .. n /\ k - 1 \in 0 .. n
        BY <1>1, <3>3
      <4>2. f[k - 1] \in Spots
        BY <3>1, <4>1
      <4>3. step[k][f[k - 1]] = Then(f[k - 1], Entries[k].title)
        BY <4>1, <4>2
      <4>4. QED
        BY <3>1, <3>3, <4>1, <4>3
    <3>4. QED
      BY <3>2, <3>3
  <2> HIDE DEF g
  <2>2. f = [k \in 0 .. n |-> g(k)]
    <3>1. f \in [0 .. n -> Spots]
      BY <1>4 DEF Runs
    <3>2. QED
      BY <2>1, <3>1
  <2>3. QED
    BY <2>2 DEF g
<1>6. Is(at)
  <2>1. \E x : Is(x)
    BY <1>5
  <2> HIDE DEF Is
  <2>2. QED
    BY <2>1
<1>7. Located = [k \in DOMAIN Entries |-> at[k].line]
  BY DEF Located
<1> HIDE DEF at
<1>8. /\ at[0] = [line |-> 0, pos |-> doc.toc.end]
      /\ \A k \in 1 .. n :
           LET pos == at[k - 1].pos
               l == Locate(pos, Entries[k].title)
           IN  at[k] = [line |-> l, pos |-> IF l = 0 THEN pos ELSE l + 1]
  <2>1. 0 \in 0 .. n /\ \A k \in 1 .. n : k \in 0 .. n /\ k # 0
    BY <1>1
  <2>2. QED
    BY <1>6, <2>1
<1> HIDE DEF Is
<1> DEFINE Fits(k) == /\ at[k].pos \in Nat /\ at[k].pos > 0
                      /\ at[k].line \in Nat /\ at[k].line <= Len(doc.lines)
                      /\ \A j \in 1 .. k : at[j].line \in Nat /\ at[j].line < at[k].pos
           S == {k \in 0 .. n : Fits(k)}
<1>9. ASSUME NEW k \in 0 .. n - 1, Fits(k)
      PROVE  Fits(k + 1) /\ \A j \in 1 .. k : at[k + 1].line # 0 => at[j].line < at[k + 1].line
  <2> DEFINE l == Locate(at[k].pos, Entries[k + 1].title)
  <2>1. k + 1 \in 1 .. n /\ k + 1 - 1 = k
    BY <1>1
  <2>2. at[k + 1] = [line |-> l, pos |-> IF l = 0 THEN at[k].pos ELSE l + 1]
    BY <1>8, <2>1
  <2>3. /\ l \in Nat /\ (l # 0 => at[k].pos <= l /\ l <= Len(doc.lines))
        /\ Len(doc.lines) \in Nat
    BY <1>9, LocateFacts, LinesFacts
  <2> HIDE DEF l
  <2>4. at[k + 1].line = l /\ at[k + 1].pos = IF l = 0 THEN at[k].pos ELSE l + 1
    BY <2>2
  <2>5. ASSUME NEW j \in 1 .. k + 1
        PROVE  at[j].line \in Nat /\ at[j].line < at[k + 1].pos
    <3>1. CASE j = k + 1
      BY <1>9, <2>3, <2>4, <3>1
    <3>2. CASE j # k + 1
      <4>1. j \in 1 .. k
        BY <3>2
      <4>2. QED
        BY <1>9, <2>3, <2>4, <4>1
    <3>3. QED
      BY <3>1, <3>2
  <2>6. ASSUME NEW j \in 1 .. k, at[k + 1].line # 0 PROVE at[j].line < at[k + 1].line
    BY <1>9, <2>3, <2>4, <2>6
  <2>7. QED
    BY <1>9, <2>3, <2>4, <2>5, <2>6
<1>10. \A k \in 0 .. n : Fits(k)
  <2>1. 0 \in 0 .. n /\ Fits(0)
    BY <1>1, <1>8, LinesFacts
  <2>2. \A k \in 0 .. n - 1 : k + 1 \in 0 .. n
    BY <1>1
  <2>3. 0 \in S /\ \A k \in 0 .. n - 1 : k \in S => k + 1 \in S
    <3> HIDE DEF Fits
    <3>1. QED
      BY <1>9, <2>1, <2>2
  <2> HIDE DEF S
  <2>4. 0 .. n \subseteq S
    BY <1>1, <2>3, UpToN
  <2>5. QED
    BY <2>4 DEF S
<1>11. ASSUME NEW k \in 1 .. n, at[k].line # 0
       PROVE  /\ at[k].line \in Lines
              /\ \A j \in 1 .. n : j < k => at[j].line < at[k].line
  <2>1. k \in 0 .. n /\ k - 1 \in 0 .. n - 1 /\ k - 1 + 1 = k
        /\ \A j \in 1 .. n : j < k => j \in 1 .. k - 1
    BY <1>1
  <2>2. Fits(k) /\ Fits(k - 1)
    <3>1. k - 1 \in 0 .. n
      BY <1>1
    <3> HIDE DEF Fits
    <3>2. QED
      BY <1>10, <2>1, <3>1
  <2>3. \A j \in 1 .. k - 1 : at[j].line < at[k].line
    <3>1. \A i \in 0 .. n - 1 :
            Fits(i) => \A j \in 1 .. i : at[i + 1].line # 0 => at[j].line < at[i + 1].line
      <4> HIDE DEF Fits
      <4>1. QED
        BY <1>9
    <3> HIDE DEF Fits
    <3>2. \A j \in 1 .. k - 1 : at[k - 1 + 1].line # 0 => at[j].line < at[k - 1 + 1].line
      BY <2>1, <2>2, <3>1
    <3>3. QED
      BY <1>11, <2>1, <3>2
  <2>4. at[k].line \in Lines
    BY <1>11, <2>2, LinesFacts
  <2>5. QED
    BY <2>1, <2>3, <2>4
<1>12. QED
  <2>1. \A k \in DOMAIN Entries : k \in 1 .. n /\ Located[k] = at[k].line
    BY <1>1, <1>7
  <2>2. QED
    BY <1>1, <1>11, <2>1

\* The depth of an entry decides between numbers; a slug has that of the
\* entry that is kept for it.
LEMMA Tier2Facts ==
  ASSUME DocInv, Entries # <<>>
  PROVE  /\ Apart(Tier2)
         /\ \E D \in [Titles -> Nat] : \A h \in Tier2 :
              h.parent # Root => Rank(D, {}, h.parent) < Rank(D, {}, h.num)
<1> DEFINE at == Located
           found == {k \in DOMAIN Entries : at[k] # 0}
           kept == {k \in found : \A j \in found : j < k =>
                       EntryNumber(Entries[j]) # EntryNumber(Entries[k])}
           above(k) == {j \in kept : j < k /\ Depth(Entries[j]) < Depth(Entries[k])}
           parent(k) == IF above(k) = {} THEN Root
                        ELSE EntryNumber(Entries[Last(above(k))])
           f == [k \in kept |-> Heading(at[k], EntryNumber(Entries[k]), parent(k))]
           num(k) == EntryNumber(Entries[k])
           Listing == {Entries[k].indent : k \in DOMAIN Entries}
<1>1. DOMAIN Entries = 1 .. Len(Entries) /\ Len(Entries) \in Nat /\ IsFiniteSet(DOMAIN Entries)
  <2>1. DOMAIN Entries = 1 .. Len(Entries) /\ Len(Entries) \in Nat
    BY LocatedFacts
  <2>2. QED
    BY <2>1, FS_Interval
<1>2. ASSUME NEW k \in DOMAIN Entries
      PROVE  num(k) \in HeadNumbers /\ (~IsSlug(num(k)) => Depth(Entries[k]) = Len(num(k)))
             /\ Depth(Entries[k]) \in Nat
  <2>1. Entries[k] \in Listed
    BY DEF DocInv
  <2>2. Entries[k].num \in Tokens /\ (Entries[k].num = Root => Entries[k].title \in Titles)
    BY <2>1, EntriesAssumption
  <2>3. CASE Entries[k].num # Root
    BY <2>2, <2>3, TokenFacts DEF EntryNumber, Depth
  <2>4. CASE Entries[k].num = Root
    <3>1. num(k) \in HeadNumbers /\ IsSlug(num(k))
      BY <2>2, <2>4, SlugFacts DEF EntryNumber
    <3>2. Depth(Entries[k]) = Cardinality({w \in Listing : w <= Entries[k].indent})
      BY <2>4 DEF Depth
    <3>3. IsFiniteSet(Listing)
      <4> DEFINE g == [i \in DOMAIN Entries |-> Entries[i].indent]
      <4>1. Listing = {g[i] : i \in DOMAIN Entries}
        OBVIOUS
      <4>2. DOMAIN g = DOMAIN Entries /\ g = [i \in DOMAIN Entries |-> g[i]]
        OBVIOUS
      <4> HIDE DEF g, Listing
      <4>3. QED
        BY <1>1, <4>1, <4>2, ImageFacts
    <3>4. Cardinality({w \in Listing : w <= Entries[k].indent}) \in Nat
      <4> HIDE DEF Listing
      <4>1. {w \in Listing : w <= Entries[k].indent} \in SUBSET Listing
        OBVIOUS
      <4>2. QED
        BY <3>3, <4>1, FS_Subset, FS_CardinalityType
    <3>5. QED
      BY <3>1, <3>2, <3>4
  <2>5. QED
    BY <2>3, <2>4
<1>3. /\ kept \subseteq DOMAIN Entries /\ kept \subseteq 1 .. Len(Entries)
      /\ \A k \in kept : at[k] \in Lines
      /\ \A j, k \in kept : j < k => num(j) # num(k) /\ at[j] < at[k]
  BY <1>1, LocatedFacts
<1>4. ASSUME NEW j \in kept, NEW k \in kept, num(j) = num(k) \/ at[j] = at[k] PROVE j = k
  <2>1. j \in Nat /\ k \in Nat /\ at[j] \in Nat /\ at[k] \in Nat
    BY <1>1, <1>3, LinesFacts
  <2>2. ~(j < k) /\ ~(k < j)
    <3> HIDE DEF kept, at, num
    <3>1. QED
      BY <1>3, <1>4, <2>1
  <2>3. QED
    BY <2>1, <2>2
<1>5. ASSUME NEW k \in kept
      PROVE  \/ parent(k) = Root
             \/ \E j \in kept : parent(k) = num(j) /\ Depth(Entries[j]) < Depth(Entries[k])
  <2>1. CASE above(k) = {}
    BY <2>1
  <2>2. CASE above(k) # {}
    <3>1. above(k) \subseteq 0 .. Len(Entries)
      BY <1>1, <1>3
    <3>2. Last(above(k)) \in above(k)
      <4> HIDE DEF above
      <4>1. QED
        BY <1>1, <2>2, <3>1, LastFacts
    <3>3. QED
      BY <2>2, <3>2
  <2>3. QED
    BY <2>1, <2>2
<1>6. Tier2 \subseteq {f[k] : k \in kept}
  BY DEF Tier2
<1>7. ASSUME NEW k \in kept
      PROVE  /\ f[k].line = at[k] /\ f[k].num = num(k) /\ f[k].parent = parent(k)
             /\ f[k].level = 0 /\ f[k] \in Headings /\ f[k].line \in Lines
  <2>1. parent(k) \in HeadNumbers \union {Root} /\ num(k) \in HeadNumbers
    <3> HIDE DEF parent, num, kept
    <3>1. QED
      BY <1>2, <1>3, <1>5
  <2>2. at[k] \in Lines /\ at[k] \in Nat
    BY <1>3, LinesFacts
  <2>3. f[k] = [line |-> at[k], num |-> num(k), parent |-> parent(k), level |-> 0]
    BY DEF Heading
  <2> HIDE DEF at, num, parent, f
  <2>4. QED
    BY <2>1, <2>2, <2>3 DEF Headings
<1>8. IsFiniteSet({f[k] : k \in kept})
  <2>1. IsFiniteSet(kept)
    BY <1>1, <1>3, FS_Subset
  <2>2. DOMAIN f = kept /\ f = [k \in kept |-> f[k]]
    OBVIOUS
  <2> HIDE DEF f, kept
  <2>3. QED
    BY <2>1, <2>2, ImageFacts
<1>9. Apart(Tier2)
  <2>1. IsFiniteSet(Tier2)
    BY <1>6, <1>8, FS_Subset
  <2> HIDE DEF f, kept, at, num, parent
  <2>2. QED
    BY <1>4, <1>6, <1>7, <2>1 DEF Apart
<1> DEFINE D == [t \in Titles |-> IF \E k \in kept : num(k) = Slug(t)
                                  THEN Depth(Entries[CHOOSE k \in kept : num(k) = Slug(t)])
                                  ELSE 0]
<1>10. D \in [Titles -> Nat]
  <2>1. ASSUME NEW t \in Titles, \E k \in kept : num(k) = Slug(t)
        PROVE  Depth(Entries[CHOOSE k \in kept : num(k) = Slug(t)]) \in Nat
    <3> HIDE DEF kept, num
    <3>1. QED
      BY <1>2, <1>3, <2>1
  <2> HIDE DEF kept, num
  <2>2. QED
    BY <2>1
<1>11. ASSUME NEW k \in kept PROVE Rank(D, {}, num(k)) = 2 * Depth(Entries[k])
  <2>1. num(k) \in HeadNumbers
    BY <1>2, <1>3
  <2>2. CASE IsSlug(num(k))
    <3>1. PICK t \in Titles : num(k) = Slug(t)
      BY <2>2 DEF IsSlug
    <3>2. (CHOOSE i \in kept : num(i) = Slug(t)) = k
      <4> HIDE DEF kept, num
      <4>1. QED
        BY <1>4, <3>1
    <3>3. D[t] = Depth(Entries[k]) /\ num(k)[1] = t
      <4> HIDE DEF kept, num
      <4>1. QED
        BY <3>1, <3>2, SlugFacts
    <3> HIDE DEF D, num
    <3>4. QED
      BY <2>2, <3>3 DEF Rank
  <2>3. CASE ~IsSlug(num(k))
    <3> HIDE DEF D
    <3>1. QED
      BY <1>2, <1>3, <2>3 DEF Rank
  <2>4. QED
    BY <2>2, <2>3
<1>12. ASSUME NEW h \in Tier2, h.parent # Root
       PROVE  Rank(D, {}, h.parent) < Rank(D, {}, h.num)
  <2>1. PICK k \in kept : h.num = num(k) /\ h.parent = parent(k)
    <3> HIDE DEF f, kept, num, parent
    <3>1. QED
      BY <1>6, <1>7, <1>12
  <2>2. PICK j \in kept : h.parent = num(j) /\ Depth(Entries[j]) < Depth(Entries[k])
    BY <1>5, <1>12, <2>1
  <2>3. Depth(Entries[j]) \in Nat /\ Depth(Entries[k]) \in Nat
    BY <1>2, <1>3
  <2> HIDE DEF D, kept, num, parent
  <2>4. QED
    BY <1>11, <2>1, <2>2, <2>3
<1>13. QED
  <2> HIDE DEF D
  <2>1. QED
    BY <1>9, <1>10, <1>12
-----------------------------------------------------------------------------
(***************************************************************************)
(* Detect: the invariant holds of what the tiers give the repairs.         *)
(***************************************************************************)

LEMMA RankFacts ==
  ASSUME NEW D \in [Titles -> Nat], NEW Z
  PROVE  /\ \A n \in HeadNumbers : Rank(D, Z, n) \in Nat
         /\ \A n \in HeadNumbers : ~IsSlug(n) =>
              /\ Rank(D, Z, n) = IF n \in Z THEN 2 * Len(n) - 1 ELSE 2 * Len(n)
              /\ Len(n) \in Nat /\ Len(n) > 0
         /\ \A n \in HeadNumbers : IsSlug(n) => Rank(D, Z, n) = Rank(D, {}, n)
<1>1. ASSUME NEW n \in HeadNumbers, IsSlug(n) PROVE Rank(D, Z, n) = 2 * D[n[1]] /\ D[n[1]] \in Nat
  BY <1>1, NumberFacts DEF Rank
<1>2. ASSUME NEW n \in HeadNumbers, ~IsSlug(n)
      PROVE  /\ Rank(D, Z, n) = IF n \in Z THEN 2 * Len(n) - 1 ELSE 2 * Len(n)
             /\ Len(n) \in Nat /\ Len(n) > 0
  BY <1>2, NumberFacts DEF Rank
<1>3. QED
  BY <1>1, <1>2 DEF Rank

\* A number is below its prefixes, unless it has taken the place of one.
LEMMA PrefixIsHigher ==
  ASSUME NEW D \in [Titles -> Nat], NEW Z, NEW n \in HeadNumbers, n \notin Z,
         NEW p \in Prefixes(n)
  PROVE  Rank(D, Z, p) < Rank(D, Z, n)
<1>1. /\ ~IsSlug(n) /\ p \in Tokens /\ p \in HeadNumbers /\ ~IsSlug(p)
      /\ Len(p) > 0 /\ Len(p) < Len(n)
  BY PrefixFacts, TokenFacts
<1>2. PICK l \in Nat, k \in Nat : l = Len(n) /\ k = Len(p)
  BY <1>1, NumberFacts
<1>3. Rank(D, Z, n) = 2 * l /\ Rank(D, Z, p) = IF p \in Z THEN 2 * k - 1 ELSE 2 * k
  BY <1>1, <1>2 DEF Rank
<1>4. k < l
  BY <1>1, <1>2
<1>5. QED
  BY <1>3, <1>4

LEMMA DetectStep ==
  ASSUME IInv, Detect
  PROVE  IInv'
<1> USE DEF IInv
<1>1. /\ pc = "detect" /\ UNCHANGED <<doc, visited>> /\ DocInv /\ Lines' = Lines
      /\ heads = {} /\ exclude = [start |-> 0, end |-> 0] /\ sections = {} /\ visited = 0
  BY DEF Detect, HeadsInv, Lines
<1>2. DocInv'
  BY <1>1 DEF DocInv, Entries
<1>3. Apart(Tier1) /\ \A h \in Tier1 : h.parent = Up(h.num)
  BY <1>1, Tier1Facts
<1> DEFINE Sorted(D) == \A h \in heads' :
             h.parent # Root => Rank(D, {}, h.parent) < Rank(D, {}, h.num)
<1>4. ASSUME NEW D \in [Titles -> Nat], NEW h \in Tier1, h.parent # Root
      PROVE  Rank(D, {}, h.parent) < Rank(D, {}, h.num)
  <2>1. h.num \in HeadNumbers /\ h.parent \in Prefixes(h.num)
    BY <1>3, <1>4, PrefixFacts DEF Apart, Headings
  <2>2. QED
    BY <2>1, PrefixIsHigher
<1>5. Apart(heads') /\ exclude' \in [start : Nat, end : Nat] /\ \E D \in [Titles -> Nat] : Sorted(D)
  <2>1. CASE Wholesale
    <3> DEFINE New ==
                 {h \in Tier1 : /\ IsSlug(h.num) /\ Adds(h, Tier2)
                            /\ h.line \notin {i \in Lines : doc.toc.at <= i /\ i < doc.toc.end}}
    <3>1. heads' = Tier2 \union New /\ exclude' \in [start : Nat, end : Nat] /\ Entries # <<>>
      BY <1>1, <2>1 DEF Wholesale, DocInv
    <3>2. /\ New \subseteq Tier1
          /\ \A h \in New : h.num \notin Nums(Tier2) /\ h.line \notin LinesOf(Tier2)
      BY DEF Adds
    <3> HIDE DEF New
    <3>3. PICK D \in [Titles -> Nat] : Apart(Tier2) /\ \A h \in Tier2 :
            h.parent # Root => Rank(D, {}, h.parent) < Rank(D, {}, h.num)
      BY <1>1, <3>1, Tier2Facts
    <3>4. Apart(heads')
      <4>1. IsFiniteSet(heads')
        BY <1>3, <3>1, <3>2, <3>3, FS_Union, FS_Subset DEF Apart
      <4>2. QED
        BY <1>3, <3>1, <3>2, <3>3, <4>1 DEF Apart, Nums, LinesOf
    <3>5. Sorted(D)
      BY <1>4, <3>1, <3>2, <3>3
    <3>6. QED
      BY <3>1, <3>4, <3>5
  <2>2. CASE Supplement
    <3> DEFINE New == {h \in Tier2 : Adds(h, Tier1) /\ Plausible(h.num)}
    <3>1. heads' = Tier1 \union New /\ exclude' = exclude /\ Entries # <<>>
      BY <2>2 DEF Supplement
    <3>2. /\ New \subseteq Tier2
          /\ \A h \in New : h.num \notin Nums(Tier1) /\ h.line \notin LinesOf(Tier1)
      BY DEF Adds
    <3> HIDE DEF New
    <3>3. PICK D \in [Titles -> Nat] : Apart(Tier2) /\ \A h \in Tier2 :
            h.parent # Root => Rank(D, {}, h.parent) < Rank(D, {}, h.num)
      BY <1>1, <3>1, Tier2Facts
    <3>4. Apart(heads')
      <4>1. IsFiniteSet(heads')
        BY <1>3, <3>1, <3>2, <3>3, FS_Union, FS_Subset DEF Apart
      <4>2. QED
        BY <1>3, <3>1, <3>2, <3>3, <4>1 DEF Apart, Nums, LinesOf
    <3>5. Sorted(D)
      BY <1>4, <3>1, <3>2, <3>3
    <3>6. QED
      BY <1>1, <3>1, <3>4, <3>5
  <2>3. CASE TierOneOnly
    <3>1. heads' = Tier1 /\ exclude' = exclude
      BY <2>3 DEF TierOneOnly
    <3>2. [t \in Titles |-> 0] \in [Titles -> Nat]
      OBVIOUS
    <3>3. QED
      BY <1>1, <1>3, <1>4, <3>1, <3>2
  <2>4. QED
    BY <2>1, <2>2, <2>3 DEF Detect
<1>6. Entries = <<>> => heads' = Tier1
  BY DEF Detect, Wholesale, Supplement, TierOneOnly
<1>7. /\ exclude' \in [start : Nat, end : Nat] /\ visited' \in 0 .. Len(doc'.lines)
      /\ \A h \in heads' : h.line \in Lines' /\ h.level \in 0 .. (Cardinality(heads') + 1)
  <2>1. Cardinality(heads') \in Nat
    BY <1>5, FS_CardinalityType DEF Apart
  <2>2. QED
    BY <1>1, <1>5, <2>1, LinesFacts DEF Apart
<1>8. CASE Cardinality(heads') > 1
  <2>1. pc' = "promote" /\ sections' = {}
    BY <1>1, <1>8 DEF Detect
  <2>2. heads' # {}
    BY <1>8, FS_EmptySet
  <2>3. TypeOK' /\ HeadsInv'
    BY <1>1, <1>5, <1>7, <2>1, <2>2 DEF TypeOK, HeadsInv, Apart
  <2>4. Acyclic'
    <3>1. PICK D \in [Titles -> Nat] : Sorted(D)
      BY <1>5
    <3>2. {} \in SUBSET (Numbers') /\ Ordered(heads', D, {})
      BY <3>1 DEF Ordered
    <3>3. QED
      BY <3>2 DEF Acyclic
  <2>5. Nested'
    <3>1. Tier1' = Tier1
      BY <1>1 DEF Tier1, Candidate, NumberOn, Numbered, Line, InToc, Lines
    <3>2. SUFFICES ASSUME Entries = <<>> PROVE Nested'
      BY <1>1 DEF Nested, Entries
    <3>3. heads' = Tier1 /\ Nums(Tier1') = Nums(Tier1) /\ Numbers' = Nums(Tier1)
      BY <1>6, <3>1, <3>2 DEF Nums, Numbers
    <3>4. ASSUME NEW h \in Tier1
          PROVE  /\ h.parent = Up(h.num) /\ h.num \in HeadNumbers
                 /\ Up(h.num) \in {Root} \union Prefixes(h.num)
                 /\ h.line \in Nat /\ h.line > 0
      BY <1>3, LinesFacts, PrefixFacts DEF Apart, Headings
    <3>5. ASSUME NEW h \in Tier1, Zero(Up(h.num)) \in Nums(Tier1)
          PROVE  \E z \in Tier1 : z.num = Zero(Up(h.num)) /\ z.line > 0
      BY <3>4, <3>5 DEF Nums
    <3>6. QED
      BY <1>1, <2>1, <3>3, <3>4, <3>5 DEF Nested
  <2>6. QED
    BY <1>2, <2>1, <2>3, <2>4, <2>5 DEF Joined, SectionsAreATree, TreeIsClosed,
       LevelsAreDepths, NumbersAreUnique, TextIsKept, NestedByNumber
<1>9. CASE ~(Cardinality(heads') > 1)
  <2> DEFINE s == [num |-> <<"body">>, parent |-> Root, level |-> 1, text |-> Lines]
  <2>1. pc' = "done" /\ sections' = {s}
    BY <1>9 DEF Detect
  <2>2. TypeOK' /\ HeadsInv'
    BY <1>1, <1>5, <1>7, <2>1 DEF TypeOK, HeadsInv, Apart
  <2>3. SectionsAreATree'
    BY <2>1, <2>2 DEF SectionsAreATree, TreeIsClosed, LevelsAreDepths, NumbersAreUnique
  <2>4. TextIsKept'
    <3>1. /\ Lines' = Lines /\ LinesOf(heads)' \subseteq Lines
          /\ UNION {t.text : t \in sections'} = Lines /\ \A t, u \in sections' : t = u
      <4>1. s.text = Lines
        OBVIOUS
      <4> HIDE DEF s
      <4>2. QED
        BY <1>1, <1>7, <2>1, <4>1 DEF LinesOf
    <3>2. Excised' = {}
      <4>1. ~Wholesale
        <5>1. SUFFICES ASSUME Wholesale PROVE FALSE
          OBVIOUS
        <5>2. Tier2 \subseteq heads' /\ Cardinality(Tier2) >= 2 /\ IsFiniteSet(heads')
          BY <1>5, <5>1 DEF Wholesale, Apart
        <5>3. /\ Cardinality(Tier2) <= Cardinality(heads')
              /\ Cardinality(Tier2) \in Nat /\ Cardinality(heads') \in Nat
          BY <5>2, FS_Subset, FS_CardinalityType
        <5>4. QED
          BY <1>9, <5>2, <5>3
      <4>2. exclude' = exclude
        BY <4>1 DEF Detect, Supplement, TierOneOnly
      <4>3. \A i \in Lines : ~(0 <= i /\ i < 0)
        BY <1>1, LinesFacts
      <4>4. QED
        BY <1>1, <4>2, <4>3 DEF Excised
    <3>3. (UNION {t.text : t \in sections'}) \union LinesOf(heads)' \union Excised' = Lines
      BY <3>1, <3>2
    <3>4. QED
      BY <3>1, <3>2, <3>3 DEF TextIsKept
  <2>5. NestedByNumber'
    <3>1. Up(<<"body">>) = Root
      BY SubSeqEmpty DEF Up, Root
    <3>2. Tier1' = Tier1
      BY <1>1 DEF Tier1, Candidate, NumberOn, Numbered, Line, InToc, Lines
    <3>3. Root \notin Nums(Tier1)'
      BY <1>3, <3>2, NumberFacts DEF Nums, Apart, Headings
    <3>4. QED
      BY <2>1, <3>1, <3>3 DEF NestedByNumber
  <2>6. QED
    BY <1>2, <2>1, <2>2, <2>3, <2>4, <2>5 DEF Acyclic, Nested, Joined
<1>10. QED
  BY <1>8, <1>9
-----------------------------------------------------------------------------
(***************************************************************************)
(* The repairs of the parents.                                             *)
(***************************************************************************)

\* The headings after N.0, which is h, took the place of N.
LEMMA PromotedFacts ==
  ASSUME DocInv, HeadsInv, pc = "promote", NEW h \in heads, IsDotZero(h.num)
  PROVE  /\ IsFiniteSet(Promoted(h)) /\ Promoted(h) \subseteq Headings
         /\ \A g \in heads : \E k \in Promoted(h) : k.num = g.num /\ k.line = g.line
         /\ \A k \in Promoted(h) : \E g \in heads :
              /\ k.num = g.num /\ k.line = g.line /\ k.level = g.level
              /\ k.parent = IF g = h THEN Up(Up(h.num))
                            ELSE IF g.parent = Up(h.num) THEN h.num ELSE g.parent
         /\ \A k, l \in Promoted(h) : k.num = l.num \/ k.line = l.line => k = l
<1> DEFINE new(g) == IF g = h THEN [g EXCEPT !.parent = Up(Up(h.num))]
                     ELSE IF g.parent = Up(h.num) THEN [g EXCEPT !.parent = h.num]
                     ELSE g
           f == [g \in heads |-> new(g)]
<1>1. Promoted(h) = {f[g] : g \in heads} /\ DOMAIN f = heads /\ f = [g \in heads |-> f[g]]
  BY DEF Promoted
<1>2. h.num \in HeadNumbers /\ Up(Up(h.num)) \in HeadNumbers \union {Root}
  <2>1. h.num \in HeadNumbers /\ Len(h.num) > 1
    BY DEF HeadsInv, Headings, IsDotZero
  <2>2. Up(h.num) \in HeadNumbers
    BY <2>1, NumberFacts
  <2>3. QED
    BY <2>1, <2>2, NumberFacts
<1>3. ASSUME NEW g \in heads
      PROVE  /\ f[g].num = g.num /\ f[g].line = g.line /\ f[g].level = g.level
             /\ f[g] \in Headings
             /\ f[g].parent = IF g = h THEN Up(Up(h.num))
                              ELSE IF g.parent = Up(h.num) THEN h.num ELSE g.parent
  <2>1. g \in Headings
    BY DEF HeadsInv
  <2>2. f[g] = new(g)
    OBVIOUS
  <2> HIDE DEF f
  <2>3. CASE g = h
    BY <1>2, <2>1, <2>2, <2>3 DEF Headings
  <2>4. CASE g # h
    BY <1>2, <2>1, <2>2, <2>4 DEF Headings
  <2>5. QED
    BY <2>3, <2>4
<1> HIDE DEF f
<1>4. IsFiniteSet(Promoted(h))
  BY <1>1, ImageFacts DEF HeadsInv
<1>5. QED
  BY <1>1, <1>3, <1>4 DEF HeadsInv

LEMMA PromotedOrder ==
  ASSUME DocInv, HeadsInv, pc = "promote", NEW h \in heads, IsDotZero(h.num),
         NEW D \in [Titles -> Nat], NEW Z \in SUBSET Numbers, Ordered(heads, D, Z)
  PROVE  Ordered(Promoted(h), D, Z \union {h.num})
<1> PICK Y : Y = Z \union {h.num}
  OBVIOUS
<1> PICK N : N = Up(h.num)
  OBVIOUS
<1>1. /\ h.num \in HeadNumbers /\ h.num \in Tokens /\ ~IsSlug(h.num) /\ Len(h.num) \in Nat
      /\ Len(h.num) > 1 /\ N \notin Numbers
      /\ N \in HeadNumbers /\ N \in Tokens /\ ~IsSlug(N) /\ Len(N) = Len(h.num) - 1
  <2>1. h.num \in HeadNumbers /\ Len(h.num) > 1 /\ N \notin Numbers
    BY DEF HeadsInv, Headings, IsDotZero
  <2>2. h.num \in Tokens /\ ~IsSlug(h.num) /\ Len(h.num) \in Nat
    BY <2>1, NumberFacts
  <2>3. N \in HeadNumbers /\ Len(N) = Len(h.num) - 1 /\ N # Root
    BY <2>1, NumberFacts
  <2>4. N \in Tokens /\ ~IsSlug(N)
    BY <2>1, <2>3, PrefixFacts, TokenFacts
  <2>5. QED
    BY <2>1, <2>2, <2>3, <2>4
<1>2. PICK l \in Nat : l = Len(N) /\ l > 0 /\ Len(h.num) = l + 1
  BY <1>1, NumberFacts
<1>3. /\ Up(N) \in HeadNumbers \union {Root}
      /\ Up(N) # Root => Up(N) \in Tokens /\ Len(Up(N)) = l - 1 /\ ~IsSlug(Up(N))
  BY <1>1, <1>2, NumberFacts, PrefixFacts, TokenFacts
<1>4. ASSUME NEW n \in HeadNumbers, n # h.num PROVE Rank(D, Y, n) = Rank(D, Z, n)
  BY <1>4 DEF Rank
<1>5. ASSUME NEW n \in HeadNumbers
      PROVE  Rank(D, Y, n) <= Rank(D, Z, n) /\ Rank(D, Y, n) \in Nat /\ Rank(D, Z, n) \in Nat
  <2>1. CASE IsSlug(n)
    <3>1. Rank(D, Y, n) = Rank(D, Z, n) /\ Rank(D, Z, n) \in Nat
      BY <2>1, RankFacts
    <3>2. QED
      BY <3>1
  <2>2. CASE ~IsSlug(n)
    <3>1. PICK m \in Nat : m = Len(n) /\ m > 0
      BY NumberFacts
    <3>2. /\ Rank(D, Y, n) = IF n \in Y THEN 2 * m - 1 ELSE 2 * m
          /\ Rank(D, Z, n) = IF n \in Z THEN 2 * m - 1 ELSE 2 * m
      BY <2>2, <3>1 DEF Rank
    <3>3. n \in Z => n \in Y
      OBVIOUS
    <3>4. QED
      BY <3>1, <3>2, <3>3
  <2>3. QED
    BY <2>1, <2>2
<1>6. Rank(D, Y, h.num) = 2 * l + 1 /\ Rank(D, Z, N) = 2 * l
  <2>1. N \notin Z /\ h.num \in Y
    BY <1>1
  <2>2. Rank(D, Y, h.num) = 2 * Len(h.num) - 1 /\ Rank(D, Z, N) = 2 * Len(N)
    BY <1>1, <2>1 DEF Rank
  <2>3. QED
    BY <1>2, <2>2
<1>7. ASSUME NEW g \in heads, g # h
      PROVE  g \in Headings /\ g.num \in HeadNumbers /\ g.num # h.num
             /\ g.parent \in HeadNumbers \union {Root}
  BY <1>7 DEF HeadsInv, Headings
<1>8. ASSUME NEW n \in Y PROVE n \in Tokens /\ Len(n) > 1
  BY <1>1 DEF Ordered
<1>9. ASSUME NEW k \in Promoted(h), k.parent # Root
      PROVE  /\ Rank(D, Y, k.parent) < Rank(D, Y, k.num)
             /\ k.num \in Y => /\ k.parent \in Tokens /\ Len(k.parent) < Len(k.num)
                               /\ Len(k.parent) = Len(k.num) - 1 => k.parent \in Y
  <2>1. PICK g \in heads :
          /\ k.num = g.num
          /\ k.parent = IF g = h THEN Up(N)
                        ELSE IF g.parent = N THEN h.num ELSE g.parent
    BY PromotedFacts
  <2>2. CASE g = h
    <3>1. k.parent = Up(N) /\ k.num = h.num
      BY <2>1, <2>2
    <3>2. Up(N) \in Tokens /\ Len(Up(N)) = l - 1 /\ ~IsSlug(Up(N)) /\ Up(N) \in HeadNumbers
      BY <1>3, <1>9, <3>1
    <3>3. Rank(D, Y, Up(N)) = IF Up(N) \in Y THEN 2 * (l - 1) - 1 ELSE 2 * (l - 1)
      BY <3>2 DEF Rank
    <3>4. Rank(D, Y, Up(N)) < 2 * l + 1
      BY <1>2, <3>3
    <3>5. l - 1 < l + 1 /\ l - 1 # l + 1 - 1
      BY <1>2
    <3>6. QED
      BY <1>2, <1>6, <3>1, <3>2, <3>4, <3>5
  <2>3. CASE g # h /\ g.parent = N
    <3>1. k.parent = h.num /\ k.num = g.num /\ g.num \in HeadNumbers /\ g.num # h.num
      BY <1>7, <2>1, <2>3
    <3>2. Rank(D, Z, N) < Rank(D, Z, g.num) /\ N # Root
      <4>1. N # Root
        BY <1>1, NumberFacts
      <4>2. QED
        BY <2>3, <4>1 DEF Ordered
    <3>3. g.num \in Z => Len(N) < Len(g.num) /\ Len(N) # Len(g.num) - 1
      BY <1>1, <2>3, <3>2 DEF Ordered
    <3>4. g.num \in Z => ~IsSlug(g.num)
      BY TokenFacts DEF Ordered
    <3>5. PICK m \in Nat : m = Len(g.num) /\ m > 0
      BY <3>1, NumberFacts
    <3>6. Rank(D, Z, g.num) # 2 * l + 1
      <4>1. CASE IsSlug(g.num)
        <5>1. Rank(D, Z, g.num) = 2 * D[g.num[1]] /\ D[g.num[1]] \in Nat
          BY <3>1, <4>1, NumberFacts DEF Rank
        <5>2. QED
          BY <1>2, <5>1
      <4>2. CASE ~IsSlug(g.num) /\ g.num \notin Z
        <5>1. Rank(D, Z, g.num) = 2 * m
          BY <3>1, <3>5, <4>2, RankFacts
        <5>2. QED
          BY <1>2, <5>1
      <4>3. CASE g.num \in Z
        <5>1. Rank(D, Z, g.num) = 2 * m - 1 /\ l < m /\ l # m - 1
          BY <1>2, <3>1, <3>3, <3>4, <3>5, <4>3, RankFacts
        <5>2. QED
          BY <1>2, <5>1
      <4>4. QED
        BY <4>1, <4>2, <4>3
    <3>7. Rank(D, Y, k.parent) < Rank(D, Y, k.num)
      <4>1. PICK r \in Nat : r = Rank(D, Z, g.num) /\ r = Rank(D, Y, g.num)
        BY <1>4, <1>5, <3>1
      <4>2. 2 * l < r /\ r # 2 * l + 1
        BY <1>6, <3>2, <3>6, <4>1
      <4>3. 2 * l + 1 < r
        BY <1>2, <4>1, <4>2
      <4>4. QED
        BY <1>6, <3>1, <4>1, <4>3
    <3>8. k.num \in Y => Len(h.num) < Len(k.num)
      <4>1. k.num \in Y => l < m /\ l # m - 1
        BY <1>2, <3>1, <3>3, <3>5
      <4>2. QED
        BY <1>2, <3>1, <3>5, <4>1
    <3>9. QED
      BY <1>1, <3>1, <3>7, <3>8
  <2>4. CASE g # h /\ g.parent # N
    <3>1. k.parent = g.parent /\ k.num = g.num /\ g.num # h.num
      BY <1>7, <2>1, <2>4
    <3>2. Rank(D, Z, g.parent) < Rank(D, Z, g.num)
      BY <1>9, <3>1 DEF Ordered
    <3>3. g.parent \in HeadNumbers /\ g.num \in HeadNumbers
      BY <1>7, <1>9, <2>4, <3>1
    <3>4. Rank(D, Y, g.parent) < Rank(D, Y, g.num)
      BY <1>4, <1>5, <3>1, <3>2, <3>3
    <3>5. QED
      BY <1>9, <3>1, <3>4 DEF Ordered
  <2>5. QED
    BY <2>2, <2>3, <2>4
<1>10. QED
  BY <1>8, <1>9 DEF Ordered

\* Of a document without a table: zero is N.0 where N is missing.
LEMMA PromotedNest ==
  ASSUME DocInv, HeadsInv, Nested, pc = "promote", Entries = <<>>,
         NEW h \in heads, IsDotZero(h.num), NEW k \in Promoted(h)
  PROVE  /\ \/ k.parent \in {Root} \union Prefixes(k.num)
            \/ k.parent \in {Zero(p) : p \in Prefixes(k.num)} /\ k.parent \in Numbers
         /\ Up(k.num) \in Nums(Tier1) => k.parent = Up(k.num)
         /\ LET zero == Zero(Up(k.num))
            IN  {zero, k.num} \subseteq Nums(Tier1) /\ zero # k.num
                  /\ Up(k.num) \notin Nums(Tier1) \union {Root} =>
                k.parent = IF \E z \in heads : z.num = zero /\ z.line > visited /\ z # h
                           THEN Up(k.num) ELSE zero
<1> PICK N : N = Up(h.num)
  OBVIOUS
<1> PICK T : T = Nums(Tier1)
  OBVIOUS
<1> USE DEF Nested
<1>1. /\ h.num \in HeadNumbers /\ Len(h.num) > 1 /\ h.num[Len(h.num)] = "0"
      /\ N \notin Numbers /\ h.num \in Numbers /\ Numbers = T /\ N # Root
      /\ h.num = Zero(N) /\ ~IsSlug(h.num)
  <2>1. /\ h.num \in HeadNumbers /\ Len(h.num) > 1 /\ h.num[Len(h.num)] = "0"
        /\ N \notin Numbers /\ h.num \in Numbers /\ Numbers = T
    BY DEF HeadsInv, Headings, IsDotZero, Numbers
  <2>2. QED
    BY <2>1, ZeroFacts, NumberFacts, TokenFacts
<1>2. PICK g \in heads :
        /\ k.num = g.num
        /\ k.parent = IF g = h THEN Up(N) ELSE IF g.parent = N THEN h.num ELSE g.parent
  BY PromotedFacts
<1>3. /\ g.num \in HeadNumbers
      /\ \/ g.parent \in {Root} \union Prefixes(g.num)
         \/ g.parent \in {Zero(p) : p \in Prefixes(g.num)} /\ g.parent \in Numbers
      /\ Up(g.num) \in T => g.parent = Up(g.num)
      /\ LET zero == Zero(Up(g.num))
         IN  {zero, g.num} \subseteq T /\ zero # g.num /\ Up(g.num) \notin T \union {Root} =>
             g.parent = IF \E z \in heads : z.num = zero /\ z.line > visited
                        THEN Up(g.num) ELSE zero
  BY DEF HeadsInv, Headings
<1>4. CASE g = h
  <2>1. Up(N) \in {Root} \union Prefixes(h.num)
    BY <1>1, PrefixFacts
  <2>2. QED
    BY <1>1, <1>2, <1>4, <2>1
<1>5. CASE g # h
  <2>1. g.num # h.num
    BY <1>5 DEF HeadsInv
  <2>2. /\ \/ k.parent \in {Root} \union Prefixes(k.num)
           \/ k.parent \in {Zero(p) : p \in Prefixes(k.num)} /\ k.parent \in Numbers
    <3>1. CASE g.parent = N
      <4>1. N \in Prefixes(g.num)
        BY <1>1, <1>3, <3>1
      <4>2. QED
        BY <1>1, <1>2, <1>5, <3>1, <4>1
    <3>2. CASE g.parent # N
      BY <1>2, <1>3, <1>5, <3>2
    <3>3. QED
      BY <3>1, <3>2
  <2>3. Up(k.num) \in T => k.parent = Up(k.num)
    BY <1>1, <1>2, <1>3, <1>5
  <2> DEFINE zero == Zero(Up(g.num))
  <2>4. ASSUME {zero, g.num} \subseteq T, zero # g.num, Up(g.num) \notin T \union {Root}
        PROVE  k.parent = IF \E z \in heads : z.num = zero /\ z.line > visited /\ z # h
                          THEN Up(g.num) ELSE zero
    <3>1. g.parent = IF \E z \in heads : z.num = zero /\ z.line > visited
                     THEN Up(g.num) ELSE zero
      BY <1>3, <2>4
    <3>2. Up(g.num) = N <=> zero = h.num
      <4>1. Up(g.num) = N => zero = h.num
        BY <1>1
      <4>2. zero = h.num => Up(g.num) = N
        <5>1. Len(g.num) > 1
          BY <1>3, <2>4, NumberFacts
        <5>2. Up(zero) = Up(g.num)
          BY <1>3, <5>1, ZeroFacts
        <5> HIDE DEF zero
        <5>3. QED
          BY <5>2
      <4>3. QED
        BY <4>1, <4>2
    <3> HIDE DEF zero
    <3>3. CASE zero = h.num
      <4>1. \A z \in heads : z.num = zero => z = h
        BY <3>3 DEF HeadsInv
      <4>2. g.parent \in {N, zero}
        BY <3>1, <3>2, <3>3
      <4>3. k.parent = zero
        BY <1>2, <1>5, <3>3, <4>2
      <4>4. QED
        BY <4>1, <4>3
    <3>4. CASE zero # h.num
      <4>1. \A z \in heads : z.num = zero => z # h
        BY <3>4
      <4>2. zero # N /\ Up(g.num) # N
        BY <1>1, <2>4, <3>2, <3>4
      <4>3. k.parent = g.parent
        BY <1>2, <1>5, <3>1, <4>2
      <4>4. QED
        BY <3>1, <4>1, <4>3
    <3>5. QED
      BY <3>3, <3>4
  <2>5. QED
    BY <1>2, <2>2, <2>3, <2>4
<1>6. QED
  BY <1>4, <1>5

LEMMA PromoteStep ==
  ASSUME IInv, Promote
  PROVE  IInv'
<1> USE DEF IInv
<1> DEFINE rest == {i \in LinesOf(heads) : i > visited}
<1>1. /\ pc = "promote" /\ UNCHANGED <<doc, exclude, sections>> /\ Lines' = Lines
      /\ DocInv /\ Entries' = Entries /\ Tier1' = Tier1
  BY DEF Promote, Lines, Entries, Tier1, Candidate, NumberOn, Numbered, Line, InToc
<1>2. DocInv'
  BY <1>1 DEF DocInv
<1>3. IsFiniteSet(heads) /\ Cardinality(heads) \in Nat /\ Len(doc.lines) \in Nat
      /\ \A h \in heads : h \in Headings /\ h.line \in Lines /\ h.line \in Nat /\ h.level = 0
  BY <1>1, LinesFacts, FS_CardinalityType DEF HeadsInv, TypeOK
<1>4. CASE rest = {} /\ pc' = "rescue" /\ UNCHANGED <<heads, visited>>
  <2>1. TypeOK' /\ HeadsInv'
    BY <1>1, <1>3, <1>4 DEF TypeOK, HeadsInv
  <2>2. Acyclic'
    BY <1>1, <1>4 DEF Acyclic, Ordered, Numbers
  <2>3. Nested'
    <3>1. \A z \in heads : ~(z.line > visited)
      BY <1>4 DEF LinesOf
    <3>2. QED
      BY <1>1, <1>4, <3>1 DEF Nested, Numbers
  <2>4. QED
    BY <1>1, <1>2, <1>4, <2>1, <2>2, <2>3 DEF Joined, SectionsAreATree, TreeIsClosed,
       LevelsAreDepths, NumbersAreUnique, TextIsKept, NestedByNumber
<1>5. ASSUME NEW h \in heads, rest # {}, h.line = First(rest), visited' = h.line, pc' = pc,
             heads' = IF IsDotZero(h.num) THEN Promoted(h) ELSE heads
      PROVE  IInv'
  <2>1. rest \subseteq Nat
    BY <1>3 DEF LinesOf
  <2>2. h.line \in rest /\ \A i \in rest : h.line <= i
    <3> HIDE DEF rest
    <3>1. QED
      BY <1>5, <2>1, FirstFacts
  <2>3. h.line > visited /\ h.line \in 0 .. Len(doc.lines) /\ visited \in Nat
        /\ \A z \in heads : z.line > h.line <=> z.line > visited /\ z # h
    <3>1. h.line > visited /\ h.line \in 0 .. Len(doc.lines) /\ visited \in Nat
      BY <1>1, <1>3, <2>2, LinesFacts DEF TypeOK
    <3>2. \A z \in heads : z.line > visited => h.line <= z.line
      BY <2>2 DEF LinesOf
    <3>3. \A z \in heads : z.line = h.line => z = h
      BY <1>1 DEF HeadsInv
    <3> HIDE DEF rest
    <3>4. QED
      BY <1>3, <3>1, <3>2, <3>3
  <2>4. /\ IsFiniteSet(heads') /\ heads' \subseteq Headings /\ heads' # {}
        /\ \A k \in heads' : \E g \in heads : k.num = g.num /\ k.line = g.line /\ k.level = g.level
        /\ \A g \in heads : \E k \in heads' : k.num = g.num /\ k.line = g.line
        /\ \A k, l \in heads' : k.num = l.num \/ k.line = l.line => k = l
    <3>1. CASE IsDotZero(h.num)
      BY <1>1, <1>5, <3>1, PromotedFacts
    <3>2. CASE ~IsDotZero(h.num)
      BY <1>1, <1>5, <3>2 DEF HeadsInv
    <3>3. QED
      BY <3>1, <3>2
  <2>5. Numbers' = Numbers
    BY <2>4 DEF Numbers
  <2>6. Cardinality(heads') \in Nat
    BY <2>4, FS_CardinalityType
  <2>7. TypeOK'
    BY <1>1, <1>3, <1>5, <2>3, <2>4, <2>6 DEF TypeOK
  <2>8. HeadsInv'
    BY <1>1, <1>3, <1>5, <2>4 DEF HeadsInv
  <2>9. Acyclic'
    <3>1. PICK D \in [Titles -> Nat], Z \in SUBSET Numbers : Ordered(heads, D, Z)
      BY <1>1 DEF Acyclic
    <3>2. CASE IsDotZero(h.num)
      <4>1. Ordered(heads', D, Z \union {h.num})
        BY <1>1, <1>5, <3>1, <3>2, PromotedOrder
      <4>2. Z \union {h.num} \in SUBSET Numbers
        BY DEF Numbers
      <4>3. QED
        BY <2>5, <4>1, <4>2 DEF Acyclic
    <3>3. CASE ~IsDotZero(h.num)
      BY <1>5, <2>5, <3>1, <3>3 DEF Acyclic
    <3>4. QED
      BY <3>2, <3>3
  <2>10. Nested'
    <3>1. SUFFICES ASSUME Entries = <<>> PROVE Nested'
      BY <1>1 DEF Nested
    <3> DEFINE later(zero) == \E z \in heads : z.num = zero /\ z.line > visited /\ z # h
    <3>2. \A zero : later(zero) <=> \E z \in heads' : z.num = zero /\ z.line > visited'
      <4>1. \A zero : later(zero) <=> \E z \in heads : z.num = zero /\ z.line > h.line
        BY <2>3
      <4> HIDE DEF later
      <4>2. QED
        BY <1>5, <2>4, <4>1
    <3>3. Nums(Tier1) \subseteq Numbers' /\ Numbers' = Nums(Tier1)
      BY <1>1, <2>5, <3>1 DEF Nested
    <3>4. ASSUME NEW k \in heads'
          PROVE  /\ \/ k.parent \in {Root} \union Prefixes(k.num)
                    \/ k.parent \in {Zero(p) : p \in Prefixes(k.num)} /\ k.parent \in Numbers
                 /\ Up(k.num) \in Nums(Tier1) => k.parent = Up(k.num)
                 /\ LET zero == Zero(Up(k.num))
                    IN  {zero, k.num} \subseteq Nums(Tier1) /\ zero # k.num
                          /\ Up(k.num) \notin Nums(Tier1) \union {Root} =>
                        k.parent = IF later(zero) THEN Up(k.num) ELSE zero
      <4>1. CASE IsDotZero(h.num)
        BY <1>1, <1>5, <3>1, <4>1, PromotedNest
      <4>2. CASE ~IsDotZero(h.num)
        <5>1. k \in heads /\ k.num \in HeadNumbers
          BY <1>3, <1>5, <4>2 DEF Headings
        <5> DEFINE zero == Zero(Up(k.num))
        <5>2. ASSUME Up(k.num) \notin Nums(Tier1) \union {Root}, zero = h.num PROVE FALSE
          <6>1. Len(k.num) > 1
            BY <5>1, <5>2, NumberFacts
          <6>2. Up(zero) = Up(k.num) /\ Len(zero) = Len(k.num) /\ zero[Len(k.num)] = "0"
            BY <5>1, <6>1, ZeroFacts
          <6>3. Numbers = Nums(Tier1)
            BY <1>1, <3>1 DEF Nested
          <6> HIDE DEF zero
          <6>4. QED
            BY <4>2, <5>2, <6>1, <6>2, <6>3 DEF IsDotZero
        <5>3. ASSUME zero # h.num 
              PROVE  later(zero) <=> \E z \in heads : z.num = zero /\ z.line > visited
          BY <5>3
        <5>4. QED
          <6> HIDE DEF later
          <6>1. QED
            BY <1>1, <3>1, <5>1, <5>2, <5>3 DEF Nested
      <4>3. QED
        BY <4>1, <4>2
    <3> HIDE DEF later
    <3>5. QED
      BY <1>1, <1>5, <2>5, <3>1, <3>2, <3>3, <3>4 DEF Nested
  <2>11. QED
    BY <1>1, <1>2, <1>5, <2>7, <2>8, <2>9, <2>10 DEF Joined, SectionsAreATree, TreeIsClosed,
       LevelsAreDepths, NumbersAreUnique, TextIsKept, NestedByNumber
<1>6. QED
  BY <1>4, <1>5 DEF Promote

LEMMA RescueStep ==
  ASSUME IInv, Rescue
  PROVE  IInv'
<1> USE DEF IInv
<1> DEFINE on(n) == First({i \in Lines : Carries(i, n)})
           f == [n \in Rescuable |-> Heading(on(n), n, Up(n))]
           New == {f[n] : n \in Rescuable}
<1>1. /\ pc = "rescue" /\ UNCHANGED <<doc, exclude, visited, sections>> /\ Lines' = Lines
      /\ DocInv /\ Entries' = Entries /\ Tier1' = Tier1
      /\ pc' \in {"rescue", "reparent"} /\ heads' = heads \union New
  BY DEF Rescue, Lines, Entries, Tier1, Candidate, NumberOn, Numbered, Line, InToc
<1>2. DocInv'
  BY <1>1 DEF DocInv
<1>3. ASSUME NEW n \in Rescuable
      PROVE  /\ n \in HeadNumbers /\ ~IsSlug(n) /\ n \notin Numbers /\ n # Root
             /\ f[n].num = n /\ f[n].parent = Up(n) /\ f[n].level = 0
             /\ f[n].line \in Lines /\ f[n] \in Headings
             /\ Up(n) \in {Root} \union Prefixes(n)
  <2>1. n \notin Numbers /\ n # Root /\ \E i \in Lines : Carries(i, n)
    BY DEF Rescuable, Needed
  <2>2. n \in Tokens /\ {i \in Lines : Carries(i, n)} \subseteq Nat
    BY <2>1, LinesFacts DEF Carries
  <2>3. on(n) \in {i \in Lines : Carries(i, n)}
    BY <2>1, <2>2, FirstFacts
  <2>4. n \in HeadNumbers /\ ~IsSlug(n)
    BY <2>1, <2>2, TokenFacts
  <2>5. Up(n) \in HeadNumbers \union {Root} /\ Up(n) \in {Root} \union Prefixes(n)
    BY <2>4, NumberFacts, PrefixFacts
  <2>6. on(n) \in Lines /\ on(n) \in Nat
    BY <2>3, LinesFacts
  <2> HIDE DEF on
  <2>7. QED
    BY <2>1, <2>4, <2>5, <2>6 DEF Heading, Headings
<1>4. IsFiniteSet(New)
  <2> DEFINE p == [h \in heads |-> h.parent]
  <2>1. Parents = {p[h] : h \in heads} /\ DOMAIN p = heads /\ p = [h \in heads |-> p[h]]
    BY DEF Parents
  <2>2. IsFiniteSet(heads)
    BY <1>1 DEF HeadsInv
  <2> HIDE DEF p
  <2>3. IsFiniteSet(Parents)
    BY <2>1, <2>2, ImageFacts
  <2>4. Rescuable \subseteq Parents
    BY DEF Rescuable, Needed
  <2>5. IsFiniteSet(Rescuable)
    BY <2>3, <2>4, FS_Subset
  <2>6. DOMAIN f = Rescuable /\ f = [n \in Rescuable |-> f[n]]
    OBVIOUS
  <2> HIDE DEF f
  <2>7. QED
    BY <2>5, <2>6, ImageFacts
<1> HIDE DEF f
<1>5. IsFiniteSet(heads') /\ Cardinality(heads') \in Nat
  BY <1>1, <1>4, FS_Union, FS_CardinalityType DEF HeadsInv
<1>6. Numbers' = Numbers \union Rescuable
  BY <1>1, <1>3 DEF Numbers
<1>7. TypeOK'
  <2>1. ASSUME NEW h \in heads' PROVE h.line \in Lines /\ h.level = 0
    <3>1. \A n \in New : n.line \in Lines /\ n.level = 0
      BY <1>3
    <3> HIDE DEF New
    <3>2. QED
      BY <1>1, <2>1, <3>1 DEF TypeOK, HeadsInv
  <2>2. 0 \in 0 .. (Cardinality(heads') + 1)
    BY <1>5
  <2> HIDE DEF New
  <2>3. QED
    BY <1>1, <2>1, <2>2 DEF TypeOK
<1>8. HeadsInv'
  <2>1. \A g, h \in heads' : g.num = h.num => g = h
    BY <1>1, <1>3 DEF HeadsInv, Numbers
  <2>2. QED
    BY <1>1, <1>3, <1>5, <2>1 DEF HeadsInv
<1>9. Acyclic'
  <2>1. PICK D \in [Titles -> Nat], Z \in SUBSET Numbers : Ordered(heads, D, Z)
    BY <1>1 DEF Acyclic
  <2>2. ASSUME NEW n \in Rescuable
        PROVE  n \notin Z /\ (Up(n) # Root => Rank(D, Z, Up(n)) < Rank(D, Z, n))
    BY <1>3, <2>1, PrefixIsHigher
  <2>3. Ordered(heads', D, Z)
    BY <1>1, <1>3, <2>1, <2>2 DEF Ordered
  <2>4. Z \in SUBSET Numbers'
    BY <1>6
  <2>5. QED
    BY <2>3, <2>4 DEF Acyclic
<1>10. Nested'
  <2> SUFFICES ASSUME Entries = <<>> PROVE Nested'
    BY <1>1 DEF Nested
  <2>1. Nums(Tier1) \subseteq Numbers
    BY <1>1 DEF Nested
  <2>2. ASSUME NEW h \in New
        PROVE  /\ h.parent \in {Root} \union Prefixes(h.num) /\ h.parent = Up(h.num)
               /\ h.num \notin Nums(Tier1)
    BY <1>3, <2>1
  <2> HIDE DEF New
  <2>3. QED
    BY <1>1, <1>6, <2>1, <2>2 DEF Nested
<1>11. QED
  BY <1>1, <1>2, <1>7, <1>8, <1>9, <1>10 DEF Joined, SectionsAreATree, TreeIsClosed,
     LevelsAreDepths, NumbersAreUnique, TextIsKept, NestedByNumber

\* Where headings rank above their parents, the level counts the way up.
LEMMA DepthFacts ==
  ASSUME NEW H, IsFiniteSet(H), NEW r \in [H -> Nat],
         \A g, h \in H : g.num = h.num => g = h,
         \A g, h \in H : g.num = h.parent => r[g] < r[h],
         NEW h \in H
  PROVE  /\ DepthIn(H, h) \in 0 .. Cardinality(H) + 1
         /\ (\A g \in H : g.num # h.parent) => DepthIn(H, h) = 1
         /\ \A p \in H : p.num = h.parent => DepthIn(H, h) = DepthIn(H, p) + 1
<1> DEFINE C == Cardinality(H)
           Parent(X) == {g \in H : \E c \in X : c.parent = g.num}
           Is(x, up) == up = [k \in 0 .. C |->
                          IF k = 0 THEN {x} ELSE {g \in H : \E c \in up[k - 1] : c.parent = g.num}]
           Up0(x) == CHOOSE up : Is(x, up)
           Reached(x) == {k \in 0 .. C : Up0(x)[k] # {}}
           below(x) == {g \in H : r[g] < r[x]}
<1>1. C \in Nat
  BY FS_CardinalityType
<1>2. ASSUME NEW x \in H
      PROVE  /\ Up0(x)[0] = {x}
             /\ \A k \in 1 .. C : Up0(x)[k] = Parent(Up0(x)[k - 1])
  <2> DEFINE step == [k \in 1 .. C |-> [X \in SUBSET H |-> Parent(X)]]
  <2>1. step \in [1 .. C -> [SUBSET H -> SUBSET H]] /\ {x} \in SUBSET H
    OBVIOUS
  <2>2. PICK f : Runs(f, C, SUBSET H, {x}, step)
    <3> HIDE DEF step, C
    <3>1. C \in Nat
      BY <1>1
    <3>2. QED
      BY <2>1, <3>1, Iterate
  <2>3. /\ f \in [0 .. C -> SUBSET H] /\ f[0] = {x}
        /\ \A k \in 1 .. C : f[k] = step[k][f[k - 1]]
    BY <2>2 DEF Runs
  <2>4. ASSUME NEW k \in 1 .. C PROVE f[k] = Parent(f[k - 1])
    <3>1. k - 1 \in 0 .. C
      BY <1>1
    <3>2. f[k - 1] \in SUBSET H
      BY <2>3, <3>1
    <3>3. step[k][f[k - 1]] = Parent(f[k - 1])
      BY <3>2
    <3>4. QED
      BY <2>3, <3>3
  <2>5. Is(x, f)
    <3> DEFINE g(k) == IF k = 0 THEN {x} ELSE Parent(f[k - 1])
    <3>1. ASSUME NEW k \in 0 .. C PROVE f[k] = g(k)
      <4>1. k = 0 \/ k \in 1 .. C
        BY <1>1
      <4>2. QED
        BY <2>3, <2>4, <4>1
    <3> HIDE DEF g
    <3>2. f = [k \in 0 .. C |-> g(k)]
      BY <2>3, <3>1
    <3>3. QED
      BY <3>2 DEF g
  <2>6. Is(x, Up0(x))
    <3> HIDE DEF Is
    <3>1. QED
      BY <2>5
  <2> HIDE DEF Up0
  <2>7. 0 \in 0 .. C /\ \A k \in 1 .. C : k \in 0 .. C /\ k # 0
    BY <1>1
  <2>8. QED
    BY <2>6, <2>7
<1>3. ASSUME NEW x \in H PROVE DepthIn(H, x) = Cardinality(Reached(x))
  BY DEF DepthIn
<1> HIDE DEF Up0
\* Ranks below the number of headings.
<1>4. ASSUME NEW x \in H
      PROVE  /\ IsFiniteSet(below(x)) /\ Cardinality(below(x)) \in Nat
             /\ Cardinality(below(x)) < C
             /\ \A g \in H : g.num = x.parent => Cardinality(below(g)) < Cardinality(below(x))
  <2>1. \A y \in H : below(y) \in SUBSET H /\ y \notin below(y) /\ r[y] \in Nat
    OBVIOUS
  <2>2. \A y \in H : IsFiniteSet(below(y)) /\ Cardinality(below(y)) \in Nat
    <3> HIDE DEF below
    <3>1. QED
      BY <2>1, FS_Subset, FS_CardinalityType
  <2>3. Cardinality(below(x)) < C
    <3>1. below(x) # H /\ below(x) \in SUBSET H
      BY <2>1
    <3> HIDE DEF below, C
    <3>2. Cardinality(below(x)) <= C /\ Cardinality(below(x)) # C
      BY <3>1, FS_Subset DEF C
    <3>3. QED
      BY <1>1, <2>2, <3>2
  <2>4. ASSUME NEW g \in H, g.num = x.parent PROVE Cardinality(below(g)) < Cardinality(below(x))
    <3>1. r[g] < r[x]
      BY <2>4
    <3>2. below(g) \in SUBSET below(x) /\ g \in below(x) /\ g \notin below(g)
      BY <2>1, <3>1
    <3> HIDE DEF below
    <3>3. /\ Cardinality(below(g)) <= Cardinality(below(x))
          /\ Cardinality(below(x)) # Cardinality(below(g))
      BY <2>2, <3>2, FS_Subset
    <3>4. QED
      BY <2>2, <3>3
  <2>5. QED
    BY <2>2, <2>3, <2>4
<1>5. ASSUME NEW x \in H
      PROVE  \A k \in 0 .. C :
               /\ Up0(x)[k] \subseteq H
               /\ \A g \in Up0(x)[k] : Cardinality(below(g)) + k <= Cardinality(below(x))
  <2> DEFINE Fits(k) == /\ Up0(x)[k] \subseteq H
                        /\ \A g \in Up0(x)[k] : Cardinality(below(g)) + k <= Cardinality(below(x))
             S == {k \in 0 .. C : Fits(k)}
  <2>1. 0 \in 0 .. C /\ Fits(0)
    <3> HIDE DEF below
    <3>1. Cardinality(below(x)) + 0 <= Cardinality(below(x))
      BY <1>4
    <3>2. QED
      BY <1>1, <1>2, <3>1
  <2>2. ASSUME NEW k \in 0 .. C - 1, Fits(k) PROVE k + 1 \in 0 .. C /\ Fits(k + 1)
    <3>1. k + 1 \in 1 .. C /\ k + 1 - 1 = k /\ k + 1 \in 0 .. C
      BY <1>1
    <3>2. Up0(x)[k + 1] = Parent(Up0(x)[k])
      BY <1>2, <3>1
    <3>3. ASSUME NEW g \in Up0(x)[k + 1]
          PROVE  Cardinality(below(g)) + (k + 1) <= Cardinality(below(x))
      <4>1. PICK c \in Up0(x)[k] : c.parent = g.num /\ g \in H
        BY <3>2
      <4>2. c \in H /\ Cardinality(below(c)) + k <= Cardinality(below(x))
        BY <2>2
      <4>3. Cardinality(below(g)) < Cardinality(below(c))
        BY <1>4, <4>1, <4>2
      <4> HIDE DEF below
      <4>4. QED
        BY <1>4, <4>1, <4>2, <4>3
    <3>4. Up0(x)[k + 1] \subseteq H
      BY <3>2
    <3> HIDE DEF below, Parent
    <3>5. QED
      BY <3>1, <3>3, <3>4
  <2>3. 0 \in S /\ \A k \in 0 .. C - 1 : k \in S => k + 1 \in S
    <3> HIDE DEF Fits
    <3>1. QED
      BY <2>1, <2>2
  <2> HIDE DEF S, C
  <2>4. 0 .. C \subseteq S
    BY <1>1, <2>3, UpToN
  <2>5. QED
    BY <2>4 DEF S
<1>6. ASSUME NEW x \in H PROVE Up0(x)[C] = {}
  <2>1. C \in 0 .. C
    BY <1>1
  <2>2. \A g \in Up0(x)[C] : /\ g \in H /\ Cardinality(below(g)) + C <= Cardinality(below(x))
                             /\ Cardinality(below(g)) \in Nat
    <3> HIDE DEF C, below
    <3>1. QED
      BY <1>4, <1>5, <2>1
  <2>3. Cardinality(below(x)) < C /\ Cardinality(below(x)) \in Nat
    BY <1>4
  <2> HIDE DEF C, below
  <2>4. QED
    BY <1>1, <2>2, <2>3
<1>7. ASSUME NEW x \in H
      PROVE  IsFiniteSet(Reached(x)) /\ Cardinality(Reached(x)) \in 0 .. C + 1
  <2>1. IsFiniteSet(0 .. C) /\ Cardinality(0 .. C) = C + 1
    BY <1>1, FS_Interval
  <2>2. Reached(x) \in SUBSET (0 .. C)
    OBVIOUS
  <2> HIDE DEF Reached
  <2>3. QED
    BY <1>1, <2>1, <2>2, FS_Subset, FS_CardinalityType
<1>8. ASSUME \A g \in H : g.num # h.parent PROVE DepthIn(H, h) = 1
  <2> DEFINE S == {k \in 0 .. C : k = 0 \/ Up0(h)[k] = {}}
  <2>1. 0 \in S
    BY <1>1
  <2>2. ASSUME NEW k \in 0 .. C - 1, k \in S PROVE k + 1 \in S
    <3>1. k + 1 \in 1 .. C /\ k + 1 - 1 = k
      BY <1>1
    <3>2. Up0(h)[k + 1] = Parent(Up0(h)[k]) /\ Up0(h)[0] = {h}
      BY <1>2, <3>1
    <3>3. QED
      BY <1>8, <2>2, <3>1, <3>2
  <2>3. 0 .. C \subseteq S
    <3> HIDE DEF S
    <3>1. QED
      BY <1>1, <2>1, <2>2, UpToN
  <2>4. Reached(h) = {0}
    BY <1>1, <1>2, <2>3
  <2>5. Cardinality({0}) = 1
    BY FS_Singleton
  <2> HIDE DEF Reached
  <2>6. QED
    BY <1>3, <2>4, <2>5
<1>9. ASSUME NEW p \in H, p.num = h.parent PROVE DepthIn(H, h) = DepthIn(H, p) + 1
  <2> DEFINE S == {k \in 0 .. C : k = C \/ Up0(h)[k + 1] = Up0(p)[k]}
  <2>1. C > 0
    BY <1>1, FS_EmptySet
  <2>2. Parent({h}) = {p}
    BY <1>9
  <2>3. 0 \in S
    <3>1. 1 \in 1 .. C /\ 1 - 1 = 0 /\ 0 + 1 = 1
      BY <1>1, <2>1
    <3> HIDE DEF Parent
    <3>2. Up0(h)[0] = {h} /\ Up0(p)[0] = {p} /\ Up0(h)[1] = Parent(Up0(h)[1 - 1])
      BY <1>2, <3>1
    <3>3. Up0(h)[0 + 1] = Up0(p)[0]
      BY <2>2, <3>1, <3>2
    <3>4. 0 \in 0 .. C
      BY <1>1
    <3> HIDE DEF C
    <3>5. QED
      BY <3>3, <3>4
  <2>4. ASSUME NEW k \in 0 .. C - 1, k \in S PROVE k + 1 \in S
    <3>1. k + 1 \in 1 .. C /\ k + 1 - 1 = k /\ k # C /\ k + 1 \in 0 .. C
      BY <1>1
    <3>2. Up0(h)[k + 1] = Up0(p)[k] /\ Up0(p)[k + 1] = Parent(Up0(p)[k])
      BY <1>2, <2>4, <3>1
    <3>3. CASE k + 1 = C
      BY <3>1, <3>3
    <3>4. CASE k + 1 # C
      <4>1. PICK l \in 1 .. C, n \in 0 .. C : l = k + 1 + 1 /\ n = k + 1 /\ l - 1 = n /\ n + 1 = l
        BY <1>1, <3>1, <3>4
      <4>2. Up0(h)[l] = Parent(Up0(h)[n])
        BY <1>2, <4>1
      <4>3. Up0(h)[n + 1] = Up0(p)[n]
        BY <3>2, <4>1, <4>2
      <4>4. n \in S
        BY <4>3
      <4>5. QED
        BY <4>1, <4>4
    <3>5. QED
      BY <3>3, <3>4
  <2>5. 0 .. C \subseteq S
    <3> HIDE DEF S
    <3>1. QED
      BY <1>1, <2>3, <2>4, UpToN
  <2> DEFINE next == [k \in Reached(p) |-> k + 1]
             Later == {next[k] : k \in Reached(p)}
  <2>6. \A k \in Reached(p) : k \in Nat /\ k \in 0 .. C - 1 /\ next[k] = k + 1
    <3>1. Up0(p)[C] = {}
      BY <1>6
    <3>2. QED
      BY <1>1, <3>1
  <2>7. Reached(h) = {0} \union Later
    <3>1. ASSUME NEW k \in Reached(p) PROVE k + 1 \in Reached(h)
      <4>1. k \in 0 .. C - 1 /\ k \in 0 .. C /\ k # C /\ k + 1 \in 0 .. C
        <5> HIDE DEF Reached, C, next
        <5>1. k \in 0 .. C - 1
          BY <2>6
        <5>2. QED
          BY <1>1, <5>1
      <4>2. QED
        BY <2>5, <4>1
    <3>2. ASSUME NEW k \in Reached(h), k # 0 PROVE k - 1 \in Reached(p) /\ k - 1 + 1 = k
      <4>1. k - 1 \in 0 .. C /\ k - 1 # C /\ k - 1 + 1 = k
        BY <1>1, <3>2
      <4>2. QED
        BY <2>5, <4>1
    <3>3. 0 \in Reached(h)
      BY <1>1, <1>2
    <3> HIDE DEF Reached
    <3>4. \A k \in Reached(h) : k # 0 => k \in Later
      BY <2>6, <3>2
    <3>5. QED
      BY <2>6, <3>1, <3>3, <3>4
  <2>8. /\ IsFiniteSet(Later) /\ 0 \notin Later /\ Cardinality(Later) = Cardinality(Reached(p))
    <3>1. IsFiniteSet(Reached(p)) /\ DOMAIN next = Reached(p)
          /\ next = [k \in Reached(p) |-> next[k]]
      BY <1>7
    <3>2. \A j, k \in Reached(p) : next[j] = next[k] => j = k
      <4> HIDE DEF Reached
      <4>1. QED
        BY <2>6
    <3>3. 0 \notin Later
      <4> HIDE DEF Reached
      <4>1. QED
        BY <2>6
    <3> HIDE DEF Reached, next
    <3>4. QED
      BY <3>1, <3>2, <3>3, ImageFacts
  <2>9. Cardinality({0} \union Later) = Cardinality(Later) + 1
    <3> HIDE DEF Later
    <3>1. {0} \union Later = Later \union {0}
      OBVIOUS
    <3>2. QED
      BY <2>8, <3>1, FS_AddElement
  <2>10. DepthIn(H, h) = Cardinality(Reached(h)) /\ DepthIn(H, p) = Cardinality(Reached(p))
    BY <1>3
  <2> HIDE DEF Reached, Later
  <2>11. QED
    BY <2>7, <2>8, <2>9, <2>10
<1>10. QED
  BY <1>3, <1>7, <1>8, <1>9

LEMMA NearestFacts ==
  ASSUME NEW n \in HeadNumbers \union {Root}
  PROVE  /\ Nearest(n) \in {Root} \union (Numbers \intersect ({n} \union Prefixes(n)))
         /\ n \in Numbers /\ n # Root => Nearest(n) = n
         /\ n = Root => Nearest(n) = Root
<1> DEFINE K == {k \in 1 .. Len(n) : SubSeq(n, 1, k) \in Numbers}
<1>1. n \in Seq(Segments) /\ SubSeq(n, 1, Len(n)) = n
  <2>1. n \in Seq(Segments)
    <3>1. Root \in Seq(Segments)
      BY DEF Root
    <3>2. n # Root => n \in Seq(Segments)
      BY NumberFacts
    <3>3. QED
      BY <3>1, <3>2
  <2>2. QED
    BY <2>1, SubSeqFull
<1>2. PICK l \in Nat : l = Len(n)
  BY <1>1, LenProperties
<1>3. Nearest(n) = IF K = {} THEN Root ELSE SubSeq(n, 1, Last(K))
  BY DEF Nearest
<1>4. K # {} => Last(K) \in K /\ \A j \in K : j <= Last(K)
  <2>1. K \subseteq 0 .. l
    BY <1>2
  <2> HIDE DEF K
  <2>2. QED
    BY <2>1, LastFacts
<1>5. \A k \in K : /\ k \in 1 .. l /\ SubSeq(n, 1, k) \in Numbers
                   /\ k # l => SubSeq(n, 1, k) \in Prefixes(n)
  <2> TAKE k \in K
  <2>1. k \in 1 .. l /\ SubSeq(n, 1, k) \in Numbers
    BY <1>2
  <2>2. k # l => k \in 1 .. l - 1
    BY <2>1
  <2>3. QED
    BY <1>2, <2>1, <2>2 DEF Prefixes
<1>6. n \in Numbers /\ n # Root => l \in K
  <2>1. n # Root => l > 0
    BY <1>1, <1>2 DEF Root
  <2>2. l > 0 => l \in 1 .. Len(n)
    BY <1>2
  <2>3. SubSeq(n, 1, l) = n
    BY <1>1, <1>2
  <2>4. QED
    BY <2>1, <2>2, <2>3
<1>7. n = Root => K = {}
  BY DEF Root
<1> HIDE DEF K
<1>8. K # {} => Nearest(n) \in Numbers \intersect ({n} \union Prefixes(n))
  BY <1>1, <1>2, <1>3, <1>4, <1>5
<1>9. n \in Numbers /\ n # Root => Nearest(n) = n
  <2>1. SUFFICES ASSUME n \in Numbers, n # Root PROVE Last(K) = l
    BY <1>1, <1>2, <1>3, <1>6
  <2>2. Last(K) \in 1 .. l /\ l <= Last(K)
    BY <1>4, <1>5, <1>6, <2>1
  <2>3. QED
    BY <2>2
<1>10. QED
  BY <1>3, <1>7, <1>8, <1>9

\* The parents are numbers of headings now, and the levels count the way up.
LEMMA ReparentStep ==
  ASSUME IInv, ReparentDangling
  PROVE  IInv'
<1> USE DEF IInv
<1> DEFINE parent == [n \in Parents |-> Nearest(n)]
           f == [h \in heads |-> [h EXCEPT !.parent = parent[h.parent]]]
           moved == {f[h] : h \in heads}
           e == [m \in moved |-> [m EXCEPT !.level = DepthIn(moved, m)]]
<1>1. /\ pc = "reparent" /\ pc' = "assemble" /\ UNCHANGED <<doc, exclude, visited, sections>>
      /\ DocInv /\ Lines' = Lines /\ Entries' = Entries /\ Tier1' = Tier1
      /\ heads' = {e[m] : m \in moved}
  <2>1. /\ pc = "reparent" /\ pc' = "assemble" /\ UNCHANGED <<doc, exclude, visited, sections>>
    BY DEF ReparentDangling, ReparentTo
  <2>2. Lines' = Lines /\ Entries' = Entries /\ Tier1' = Tier1
    BY <2>1 DEF Lines, Entries, Tier1, Candidate, NumberOn, Numbered, Line, InToc
  <2>3. moved = {[h EXCEPT !.parent = parent[h.parent]] : h \in heads}
    OBVIOUS
  <2>4. heads' = {[h EXCEPT !.level = DepthIn(moved, h)] : h \in moved}
    BY <2>3 DEF ReparentDangling, ReparentTo
  <2> HIDE DEF moved
  <2>5. QED
    BY <2>1, <2>2, <2>4
<1>2. DocInv'
  BY <1>1 DEF DocInv
<1>3. ASSUME NEW h \in heads
      PROVE  /\ h \in Headings /\ h.num \in HeadNumbers /\ h.num \in Numbers
             /\ h.parent \in HeadNumbers \union {Root} /\ h.line \in Lines
             /\ f[h] \in Headings /\ f[h].line = h.line /\ f[h].num = h.num
             /\ f[h].parent = Nearest(h.parent)
             /\ Nearest(h.parent) \in {Root} \union Numbers
  <2>1. h \in Headings /\ h.num \in HeadNumbers /\ h.parent \in HeadNumbers \union {Root}
        /\ h.line \in Lines /\ h.num \in Numbers
    BY <1>1 DEF HeadsInv, Headings, TypeOK, Numbers
  <2>2. Nearest(h.parent) \in {Root} \union Numbers
    BY <2>1, NearestFacts
  <2>3. Numbers \subseteq HeadNumbers
    BY <1>1 DEF HeadsInv, Headings, Numbers
  <2>4. parent[h.parent] = Nearest(h.parent)
    BY DEF Parents
  <2>5. f[h] = [h EXCEPT !.parent = Nearest(h.parent)]
    BY <2>4
  <2> HIDE DEF f
  <2>6. QED
    BY <2>1, <2>2, <2>3, <2>5 DEF Headings
<1>4. IsFiniteSet(moved) /\ Cardinality(moved) \in Nat
  <2>1. DOMAIN f = heads /\ f = [h \in heads |-> f[h]] /\ IsFiniteSet(heads)
    BY <1>1 DEF HeadsInv
  <2> HIDE DEF f
  <2>2. QED
    BY <2>1, ImageFacts, FS_CardinalityType
<1> HIDE DEF f
<1>5. /\ \A m \in moved : \E h \in heads : m = f[h]
      /\ \A h \in heads : \E m \in moved : m.num = h.num
      /\ \A g, m \in moved : g.num = m.num => g = m
  BY <1>1, <1>3 DEF HeadsInv
<1> PICK all : all = moved /\ all # {}
  <2>1. PICK h \in heads : TRUE
    BY <1>1 DEF HeadsInv
  <2>2. f[h] \in moved
    BY <2>1
  <2>3. QED
    BY <2>2
<1>6. \A n \in Numbers : \E m \in moved : m.num = n
  BY <1>5 DEF Numbers
<1>7. ASSUME NEW m \in moved
      PROVE  /\ DepthIn(moved, m) \in 0 .. Cardinality(moved) + 1
             /\ (\A g \in moved : g.num # m.parent) => DepthIn(moved, m) = 1
             /\ \A p \in moved : p.num = m.parent => DepthIn(moved, m) = DepthIn(moved, p) + 1
  <2>1. PICK D \in [Titles -> Nat], Z \in SUBSET Numbers : Ordered(heads, D, Z)
    BY <1>1 DEF Acyclic
  <2> DEFINE r == [g \in moved |-> Rank(D, Z, g.num)]
  <2>2. \A g \in moved : g.num \in HeadNumbers /\ Rank(D, Z, g.num) \in Nat
    <3> HIDE DEF moved
    <3> TAKE g \in moved
    <3>1. PICK h \in heads : g = f[h]
      BY <1>5
    <3>2. g.num \in HeadNumbers
      BY <1>3, <3>1
    <3>3. QED
      BY <3>2, RankFacts
  <2>3. r \in [moved -> Nat]
    BY <2>2
  <2>4. ASSUME NEW g \in moved, NEW k \in moved, g.num = k.parent
        PROVE  Rank(D, Z, g.num) < Rank(D, Z, k.num)
    <3>1. PICK h \in heads : k = f[h]
      BY <1>5
    <3>2. k.num = h.num /\ g.num = Nearest(h.parent) /\ g.num # Root /\ g.num \in HeadNumbers
      BY <1>3, <2>2, <2>4, <3>1, NumberFacts
    <3>3. h.parent # Root /\ h.parent \in HeadNumbers
      BY <1>3, <3>2, NearestFacts
    <3>4. Rank(D, Z, h.parent) < Rank(D, Z, h.num)
      BY <2>1, <3>3 DEF Ordered
    <3>5. CASE h.parent \in Numbers
      BY <3>2, <3>3, <3>4, <3>5, NearestFacts
    <3>6. CASE h.parent \notin Numbers
      <4>1. g.num \in Prefixes(h.parent) /\ h.parent \notin Z
        BY <3>2, <3>3, <3>6, NearestFacts
      <4>2. Rank(D, Z, g.num) < Rank(D, Z, h.parent)
        BY <3>3, <4>1, PrefixIsHigher
      <4>3. /\ Rank(D, Z, g.num) \in Nat /\ Rank(D, Z, h.parent) \in Nat
            /\ Rank(D, Z, h.num) \in Nat
        <5>1. \A n \in HeadNumbers : Rank(D, Z, n) \in Nat
          BY RankFacts
        <5>2. QED
          BY <1>3, <3>2, <3>3, <5>1
      <4>4. QED
        BY <3>2, <3>4, <4>2, <4>3
    <3>7. QED
      BY <3>5, <3>6
  <2>5. \A g, k \in moved : g.num = k.parent => r[g] < r[k]
    BY <2>4
  <2> HIDE DEF moved, r
  <2>6. QED
    BY <1>4, <1>5, <2>3, <2>5, DepthFacts
<1>8. ASSUME NEW m \in moved
      PROVE  /\ m \in Headings /\ m.num \in Numbers /\ m.line \in Lines
             /\ m.parent \in {Root} \union Numbers
             /\ e[m] \in Headings /\ e[m].line = m.line /\ e[m].num = m.num
             /\ e[m].parent = m.parent /\ e[m].level = DepthIn(moved, m)
  <2>1. /\ m \in Headings /\ m.num \in Numbers /\ m.line \in Lines
        /\ m.parent \in {Root} \union Numbers
    BY <1>3, <1>5
  <2>2. DepthIn(moved, m) \in Nat
    BY <1>4, <1>7
  <2>3. e[m] = [m EXCEPT !.level = DepthIn(moved, m)]
    OBVIOUS
  <2> HIDE DEF e, moved
  <2>4. QED
    BY <2>1, <2>2, <2>3 DEF Headings
<1>9. IsFiniteSet(heads') /\ Cardinality(heads') = Cardinality(moved) /\ heads' # {}
  <2>1. DOMAIN e = moved /\ e = [m \in moved |-> e[m]]
    OBVIOUS
  <2>2. \A g, m \in moved : e[g] = e[m] => g = m
    <3> HIDE DEF e, moved
    <3>1. QED
      BY <1>5, <1>8
  <2>3. moved # {}
    OBVIOUS
  <2> HIDE DEF e, moved
  <2>4. QED
    BY <1>1, <1>4, <2>1, <2>2, <2>3, ImageFacts
<1> HIDE DEF moved, e
<1>10. TypeOK'
  <2>1. \A h \in heads' : h.line \in Lines /\ h.level \in 0 .. Cardinality(heads') + 1
    BY <1>1, <1>7, <1>8, <1>9
  <2>2. QED
    BY <1>1, <2>1 DEF TypeOK
<1>11. HeadsInv'
  BY <1>1, <1>5, <1>8, <1>9 DEF HeadsInv
<1>12. Joined'
  <2>1. ASSUME NEW m \in moved
        PROVE  \/ e[m].parent = Root /\ e[m].level = 1
               \/ \E p \in heads' : p.num = e[m].parent /\ e[m].level = p.level + 1
    <3>1. CASE m.parent = Root
      <4>1. \A g \in moved : g.num # m.parent
        BY <1>8, <3>1, NumberFacts DEF Headings
      <4>2. QED
        BY <1>7, <1>8, <3>1, <4>1
    <3>2. CASE m.parent # Root
      <4>1. PICK p \in moved : p.num = m.parent
        BY <1>6, <1>8, <3>2
      <4>2. e[p] \in heads'
        BY <1>1
      <4>3. QED
        BY <1>7, <1>8, <4>1, <4>2
    <3>3. QED
      BY <3>1, <3>2
  <2>2. QED
    BY <1>1, <2>1 DEF Joined
<1>13. Nested'
  <2> SUFFICES ASSUME Entries = <<>> PROVE Nested'
    BY <1>1 DEF Nested
  <2>1. Nums(Tier1) \subseteq Numbers
    BY <1>1 DEF Nested
  <2>2. Numbers' = Numbers
    <3>1. \A h \in heads' : h.num \in Numbers
      BY <1>1, <1>8
    <3>2. \A n \in Numbers : \E h \in heads' : h.num = n
      BY <1>1, <1>6, <1>8
    <3>3. QED
      BY <3>1, <3>2 DEF Numbers
  <2>3. ASSUME NEW h \in heads
        PROVE  /\ \/ Nearest(h.parent) \in {Root} \union Prefixes(h.num)
                  \/ /\ Nearest(h.parent) \in {Zero(p) : p \in Prefixes(h.num)}
                     /\ Nearest(h.parent) \in Numbers
               /\ Up(h.num) \in Nums(Tier1) => Nearest(h.parent) = Up(h.num)
               /\ LET zero == Zero(Up(h.num))
                  IN  {zero, h.num} \subseteq Nums(Tier1) /\ zero # h.num
                        /\ Up(h.num) \notin Nums(Tier1) \union {Root} =>
                      Nearest(h.parent) = zero
    <3> DEFINE zero == Zero(Up(h.num))
    <3>1. /\ \/ h.parent \in {Root} \union Prefixes(h.num)
             \/ h.parent \in {Zero(p) : p \in Prefixes(h.num)} /\ h.parent \in Numbers
          /\ Up(h.num) \in Nums(Tier1) => h.parent = Up(h.num)
          /\ {zero, h.num} \subseteq Nums(Tier1) /\ zero # h.num
                        /\ Up(h.num) \notin Nums(Tier1) \union {Root} => h.parent = zero
      BY <1>1 DEF Nested
    <3> HIDE DEF zero
    <3>2. \A n \in Numbers : n # Root
      BY <1>3, NumberFacts DEF Numbers
    <3>3. h.parent \in Numbers => Nearest(h.parent) = h.parent
      BY <1>3, <3>2, NearestFacts
    <3>4. h.parent \in {Root} \union Prefixes(h.num) =>
            Nearest(h.parent) \in {Root} \union Prefixes(h.num)
      <4>1. \A p \in Prefixes(h.num) : Prefixes(p) \subseteq Prefixes(h.num)
        <5> TAKE p \in Prefixes(h.num)
        <5>1. \A k \in 1 .. Len(p) : SubSeq(p, 1, k) \in Prefixes(h.num)
          BY <1>3, PrefixFacts
        <5>2. PICK l \in Nat : l = Len(p)
          BY <1>3, PrefixFacts, TokenFacts, NumberFacts
        <5>3. \A k \in 1 .. l - 1 : k \in 1 .. l
          BY <5>2
        <5>4. QED
          BY <5>1, <5>2, <5>3 DEF Prefixes
      <4>2. QED
        BY <1>3, <4>1, NearestFacts
    <3>5. QED
      BY <2>1, <3>1, <3>3, <3>4 DEF zero
  <2>4. ASSUME NEW m \in moved
        PROVE  \E h \in heads : e[m].num = h.num /\ e[m].parent = Nearest(h.parent)
    BY <1>3, <1>5, <1>8
  <2>5. ASSUME NEW k \in heads'
        PROVE  \E h \in heads : k.num = h.num /\ k.parent = Nearest(h.parent)
    BY <1>1, <2>4
  <2>6. QED
    BY <1>1, <2>1, <2>2, <2>3, <2>5 DEF Nested
<1>14. QED
  BY <1>1, <1>2, <1>10, <1>11, <1>12, <1>13 DEF Acyclic, SectionsAreATree, TreeIsClosed,
     LevelsAreDepths, NumbersAreUnique, TextIsKept, NestedByNumber
-----------------------------------------------------------------------------
(***************************************************************************)
(* Assemble: the text between the lines of the headings.                   *)
(***************************************************************************)

\* clipExcluded's slices are what its range leaves of lines[start:end].
LEMMA ClipFacts ==
  ASSUME exclude \in [start : Nat, end : Nat], NEW start \in Nat, NEW end \in Nat,
         start..(end - 1) \subseteq Lines
  PROVE  ClipExcluded(start, end) = (start..(end - 1)) \ Excised
<1>1. exclude.start \in Nat /\ exclude.end \in Nat
  OBVIOUS
<1>2. ASSUME NEW i \in start..(end - 1)
      PROVE  i \in ClipExcluded(start, end) <=> ~(exclude.start <= i /\ i < exclude.end)
  BY <1>1 DEF ClipExcluded
<1>3. ClipExcluded(start, end) \subseteq start..(end - 1)
  BY <1>1 DEF ClipExcluded
<1>4. QED
  BY <1>2, <1>3 DEF Excised

LEMMA TextFacts ==
  ASSUME DocInv, exclude \in [start : Nat, end : Nat], heads # {}, \A h \in heads : h.line \in Lines,
         \A g, h \in heads : g.line = h.line => g = h
  PROVE  /\ First(LinesOf(heads)) \in Lines
         /\ \A h \in heads : /\ First(LinesOf(heads)) <= h.line
                             /\ h.line \in Nat /\ EndOf(h) \in Nat
                             /\ \A g \in heads : h.line < g.line => EndOf(h) <= g.line
                             /\ Between(h.line, EndOf(h)) \subseteq
                                  ((h.line + 1)..(EndOf(h) - 1)) \ Excised
                             /\ Between(h.line, EndOf(h)) \subseteq Lines
         /\ Between(0, First(LinesOf(heads))) \subseteq
              (1..(First(LinesOf(heads)) - 1)) \ Excised
         /\ Between(0, First(LinesOf(heads))) \subseteq Lines
         /\ \A i \in Lines \ (LinesOf(heads) \union Excised) :
              \/ i \in Between(0, First(LinesOf(heads)))
              \/ \E h \in heads : i \in Between(h.line, EndOf(h))
<1> PICK n \in Nat : n = Len(doc.lines) /\ Lines = 1 .. n
  BY LinesFacts
<1> DEFINE L == LinesOf(heads)
<1>1. L # {} /\ L \subseteq Nat /\ L \subseteq 1 .. n /\ \A h \in heads : h.line \in L
  BY DEF LinesOf
<1>2. First(L) \in 1 .. n /\ First(L) \in L /\ \A l \in L : First(L) <= l
  <2> HIDE DEF L
  <2>1. QED
    BY <1>1, FirstFacts
<1>3. ASSUME NEW h \in heads
      PROVE  /\ h.line \in L /\ h.line < EndOf(h) /\ EndOf(h) \in L \union {n + 1}
             /\ \A l \in L : h.line < l => EndOf(h) <= l
  <2> PICK below : below = {i \in L : i > h.line}
    OBVIOUS
  <2>1. EndOf(h) = IF below = {} THEN n + 1 ELSE First(below)
    BY DEF EndOf
  <2>2. /\ below \subseteq Nat /\ h.line \in L /\ h.line \in 1 .. n
        /\ \A i \in below : i \in L /\ h.line < i
        /\ \A i \in L : h.line < i => i \in below
    BY <1>1
  <2> HIDE DEF L
  <2>3. CASE below = {}
    <3>1. PICK k \in 1 .. n : k = h.line
      BY <2>2
    <3>2. EndOf(h) = n + 1 /\ h.line < n + 1
      BY <2>1, <2>3, <3>1
    <3>3. EndOf(h) \in L \union {n + 1} /\ h.line < EndOf(h)
      BY <3>2
    <3>4. \A l \in L : ~(h.line < l)
      BY <2>2, <2>3
    <3>5. QED
      BY <2>2, <3>3, <3>4
  <2>4. CASE below # {}
    <3>1. EndOf(h) \in below /\ \A i \in below : EndOf(h) <= i
      <4>1. First(below) \in below /\ \A i \in below : First(below) <= i
        BY <2>2, <2>4, FirstFacts
      <4>2. EndOf(h) = First(below)
        BY <2>1, <2>4
      <4>3. QED
        BY <4>1, <4>2
    <3>2. QED
      BY <2>2, <3>1
  <2>5. QED
    BY <2>3, <2>4
<1> HIDE DEF L
<1>4. ASSUME NEW a \in Nat, NEW b \in 1 .. n + 1
      PROVE  Between(a, b) \subseteq Lines
             /\ Between(a, b) \subseteq ((a + 1)..(b - 1)) \ Excised
             /\ \A i \in Lines \ Excised : a < i /\ i < b => i \in Between(a, b)
  <2>1. a + 1 \in Nat /\ b \in Nat /\ (a + 1)..(b - 1) \subseteq Lines
    OBVIOUS
  <2>2. Between(a, b) = ((a + 1)..(b - 1)) \ Excised
    BY <2>1, ClipFacts DEF Between
  <2>3. QED
    BY <2>1, <2>2
<1>5. \A l \in L \union {n + 1} : l \in 1 .. n + 1 /\ l \in Nat
  BY <1>1
<1>6. ASSUME NEW i \in Lines \ (L \union Excised)
      PROVE  \/ i \in Between(0, First(L))
             \/ \E h \in heads : i \in Between(h.line, EndOf(h))
  <2>1. CASE i < First(L)
    <3>1. i \in Lines \ Excised /\ 0 < i /\ First(L) \in 1 .. n + 1
      BY <1>2, <1>5
    <3>2. QED
      BY <1>4, <2>1, <3>1
  <2>2. CASE ~(i < First(L))
    <3> DEFINE above == {l \in L : l <= i}
    <3>1. above # {} /\ above \subseteq 0 .. n
          /\ \A l \in L : l \in above <=> l <= i
      <4>1. i \in 1 .. n /\ First(L) <= i
        BY <1>2, <2>2
      <4>2. First(L) \in above
        BY <1>2, <4>1
      <4>3. \A l \in L : l \in 1 .. n /\ l \in 0 .. n
        BY <1>1
      <4>4. QED
        BY <4>2, <4>3
    <3> HIDE DEF above
    <3>2. Last(above) \in above /\ \A l \in above : l <= Last(above)
      BY <3>1, LastFacts
    <3>3. PICK h \in heads : h.line = Last(above)
      BY <3>1, <3>2 DEF L, LinesOf, above
    <3>4. h.line \in L /\ h.line \in 1 .. n /\ h.line <= i /\ h.line # i
      BY <1>1, <3>1, <3>2, <3>3
    <3>5. EndOf(h) \in L \union {n + 1} /\ h.line < EndOf(h)
      BY <1>3
    <3>6. i < EndOf(h)
      <4>1. CASE EndOf(h) = n + 1
        BY <4>1
      <4>2. CASE EndOf(h) \in L
        <5>1. EndOf(h) <= i => EndOf(h) <= h.line
          BY <3>1, <3>2, <3>3, <4>2
        <5>2. PICK b \in 1 .. n : b = EndOf(h)
          BY <1>1, <4>2
        <5>3. PICK a \in 1 .. n : a = h.line
          BY <3>4
        <5>4. QED
          BY <3>5, <5>1, <5>2, <5>3
      <4>3. QED
        BY <3>5, <4>1, <4>2
    <3>7. i \in Lines \ Excised /\ h.line < i /\ h.line \in Nat /\ EndOf(h) \in 1 .. n + 1
      BY <1>5, <3>4, <3>5
    <3>8. QED
      BY <1>4, <3>6, <3>7
  <2>3. QED
    BY <2>1, <2>2
<1>7. ASSUME NEW h \in heads
      PROVE  /\ First(L) <= h.line /\ h.line \in Nat /\ EndOf(h) \in Nat
             /\ \A g \in heads : h.line < g.line => EndOf(h) <= g.line
             /\ Between(h.line, EndOf(h)) \subseteq
                  ((h.line + 1)..(EndOf(h) - 1)) \ Excised
             /\ Between(h.line, EndOf(h)) \subseteq Lines
  BY <1>1, <1>2, <1>3, <1>4, <1>5
<1>8. /\ First(L) \in Lines /\ Between(0, First(L)) \subseteq Lines
      /\ Between(0, First(L)) \subseteq (1..(First(L) - 1)) \ Excised
  BY <1>2, <1>4, <1>5
<1>9. QED
  BY <1>6, <1>7, <1>8 DEF L

LEMMA AssembleStep ==
  ASSUME IInv, Assemble
  PROVE  IInv'
<1> USE DEF IInv
<1>1. /\ pc = "assemble" /\ UNCHANGED <<doc, heads, exclude, visited>>
      /\ DocInv /\ Lines' = Lines /\ Entries' = Entries /\ Tier1' = Tier1
  BY DEF Assemble, Lines, Entries, Tier1, Candidate, NumberOn, Numbered, Line, InToc
<1>2. DocInv' /\ heads # {} /\ sections = {}
  BY <1>1 DEF DocInv, HeadsInv
<1>3. CASE pc' = "panic" /\ UNCHANGED sections
  <2>1. TypeOK' /\ HeadsInv'
    BY <1>1, <1>2, <1>3 DEF TypeOK, HeadsInv
  <2>2. QED
    BY <1>2, <1>3, <2>1 DEF Acyclic, Nested, Joined, SectionsAreATree, TreeIsClosed,
       LevelsAreDepths, NumbersAreUnique, TextIsKept, NestedByNumber
<1>4. CASE /\ Cardinality(LinesOf(heads)) = Cardinality(heads)
           /\ pc' = "done" /\ sections' = Header \union Titled
  <2> DEFINE T(h) == Between(h.line, EndOf(h))
             Section(h) == [num |-> h.num, parent |-> h.parent, level |-> h.level,
                            text |-> T(h)]
             Top == Between(0, First(LinesOf(heads)))
             header == [num |-> <<"header">>, parent |-> Root, level |-> 1, text |-> Top]
  <2>1. \A g, h \in heads : g.line = h.line => g = h
    <3> DEFINE f == [h \in heads |-> h.line]
    <3>1. LinesOf(heads) = {f[h] : h \in heads} /\ IsFiniteSet(heads)
      BY <1>1 DEF LinesOf, HeadsInv
    <3>2. \A h \in heads : f[h] = h.line
      OBVIOUS
    <3>3. DOMAIN f = heads /\ f = [h \in heads |-> f[h]]
      OBVIOUS
    <3> HIDE DEF f
    <3>4. QED
      BY <1>4, <3>1, <3>2, <3>3, ImageFacts
  <2>2. /\ First(LinesOf(heads)) \in Lines /\ Top \subseteq Lines
        /\ Top \subseteq (1..(First(LinesOf(heads)) - 1)) \ Excised
        /\ \A h \in heads : /\ First(LinesOf(heads)) <= h.line
                            /\ h.line \in Nat /\ EndOf(h) \in Nat
                            /\ \A g \in heads : h.line < g.line => EndOf(h) <= g.line
                            /\ T(h) \subseteq Lines
                            /\ T(h) \subseteq ((h.line + 1)..(EndOf(h) - 1)) \ Excised
        /\ \A i \in Lines \ (LinesOf(heads) \union Excised) :
             i \in Top \/ \E h \in heads : i \in T(h)
    BY <1>1, <1>2, <2>1, TextFacts DEF TypeOK
  <2>3. \A s \in sections' : \/ s = header /\ Top # {}
                             \/ \E h \in heads : s = Section(h)
    BY <1>4 DEF Header, Titled
  <2>4. /\ \A h \in heads : Section(h) \in sections'
        /\ Top # {} => header \in sections'
    BY <1>4 DEF Header, Titled
  <2>5. /\ \A h \in heads : /\ Section(h).num = h.num /\ Section(h).parent = h.parent
                            /\ Section(h).level = h.level /\ Section(h).text = T(h)
        /\ header.num = <<"header">> /\ header.parent = Root /\ header.level = 1
        /\ header.text = Top
    OBVIOUS
  <2>6. \A s \in sections' :
          \/ s.num = <<"header">> /\ s.parent = Root /\ s.level = 1 /\ s.text = Top /\ s = header
          \/ \E h \in heads : /\ s.num = h.num /\ s.parent = h.parent
                              /\ s.level = h.level /\ s.text = T(h) /\ s = Section(h)
    <3> HIDE DEF header, Section, T, Top
    <3>1. QED
      BY <2>3, <2>5
  <2>7. TypeOK' /\ HeadsInv'
    <3>1. \A s \in sections' : s.text \subseteq Lines
      <4> HIDE DEF header, Section, T, Top
      <4>1. QED
        BY <2>2, <2>6
    <3>2. QED
      BY <1>1, <1>2, <1>4, <3>1 DEF TypeOK, HeadsInv
  <2>8. ASSUME NEW h \in heads
        PROVE  \E s \in sections' : /\ s.num = h.num /\ s.parent = h.parent
                                    /\ s.level = h.level /\ s.text = T(h)
    <3> HIDE DEF header, Section, T, Top
    <3>1. QED
      BY <2>4, <2>5
  <2>9. SectionsAreATree'
    <3>1. LevelsAreDepths'
      <4> SUFFICES ASSUME NEW s \in sections'
                   PROVE  \/ s.parent = Root /\ s.level = 1
                          \/ \E p \in sections' : p.num = s.parent /\ s.level = p.level + 1
        BY DEF LevelsAreDepths
      <4> HIDE DEF header, Section, T, Top
      <4>1. SUFFICES ASSUME NEW h \in heads, s.parent = h.parent, s.level = h.level
                     PROVE  \/ s.parent = Root /\ s.level = 1
                            \/ \E p \in sections' : p.num = s.parent /\ s.level = p.level + 1
        BY <2>6
      <4>2. \/ h.parent = Root /\ h.level = 1
            \/ \E p \in heads : p.num = h.parent /\ h.level = p.level + 1
        BY <1>1 DEF Joined
      <4>3. QED
        BY <2>8, <4>1, <4>2
    <3>2. TreeIsClosed'
      BY <3>1, <1>4 DEF LevelsAreDepths, TreeIsClosed, SectionNumbers
    <3>3. NumbersAreUnique'
      <4>1. \A g, h \in heads : g.num = h.num => g = h
        BY <1>1 DEF HeadsInv
      <4> HIDE DEF header, Section, T, Top
      <4>2. \A s, t \in sections' : s # t /\ s.num = t.num => s.num = <<"header">>
        BY <2>6, <4>1
      <4>3. QED
        BY <4>2 DEF NumbersAreUnique
    <3>4. QED
      BY <2>7, <3>1, <3>2, <3>3 DEF SectionsAreATree
  <2>10. TextIsKept'
    <3> DEFINE All == UNION {s.text : s \in sections'}
    <3>1. All \subseteq Lines
      BY <2>7, <1>1 DEF TypeOK
    <3>2. /\ LinesOf(heads)' = LinesOf(heads) /\ LinesOf(heads) \subseteq Lines
          /\ Excised \subseteq Lines /\ Excised' = Excised
      BY <1>1 DEF LinesOf, TypeOK, Excised
    <3>3. ASSUME NEW i \in Lines \ (LinesOf(heads) \union Excised) PROVE i \in All
      <4>1. CASE i \in Top
        <5>1. header \in sections' /\ header.text = Top
          BY <2>4, <2>5, <4>1
        <5> HIDE DEF header, Top
        <5>2. QED
          BY <4>1, <5>1
      <4>2. CASE \E h \in heads : i \in T(h)
        <5> HIDE DEF T
        <5>1. PICK h \in heads : i \in T(h)
          BY <4>2
        <5>2. PICK s \in sections' : s.text = T(h)
          BY <2>8
        <5>3. QED
          BY <5>1, <5>2
      <4> HIDE DEF T, Top
      <4>3. QED
        BY <2>2, <4>1, <4>2
    <3>4. All \union LinesOf(heads) \union Excised = Lines
      <4> HIDE DEF All
      <4>1. QED
        BY <3>1, <3>2, <3>3
    <3>5. ASSUME NEW h \in heads PROVE T(h) \intersect Top = {}
      <4>1. \A i \in Top : i < First(LinesOf(heads)) /\ i \in Nat
        BY <2>2, LinesFacts, <1>1
      <4>2. \A i \in T(h) : h.line < i /\ i \in Nat
        BY <2>2, LinesFacts
      <4>3. First(LinesOf(heads)) <= h.line /\ First(LinesOf(heads)) \in Nat /\ h.line \in Nat
        BY <1>1, <2>2, LinesFacts
      <4> HIDE DEF T, Top
      <4>4. QED
        BY <4>1, <4>2, <4>3
    <3>6. ASSUME NEW g \in heads, NEW h \in heads, g # h PROVE T(g) \intersect T(h) = {}
      <4>1. ASSUME NEW j \in heads, NEW k \in heads, j.line < k.line
            PROVE  T(j) \intersect T(k) = {}
        <5>1. ASSUME NEW m \in heads, NEW i \in T(m)
              PROVE  m.line < i /\ i < EndOf(m) /\ i \in Nat
          <6>1. /\ T(m) \subseteq ((m.line + 1)..(EndOf(m) - 1)) \ Excised
                /\ m.line \in Nat /\ EndOf(m) \in Nat
            BY <2>2
          <6> HIDE DEF T
          <6>2. i \in (m.line + 1)..(EndOf(m) - 1)
            BY <6>1
          <6>3. QED
            BY <6>1, <6>2
        <5>2. (\A i \in T(j) : i < EndOf(j) /\ i \in Nat) /\ \A i \in T(k) : k.line < i
          BY <5>1
        <5>3. EndOf(j) <= k.line /\ EndOf(j) \in Nat /\ k.line \in Nat
          BY <2>2, <4>1
        <5> HIDE DEF T
        <5>4. QED
          BY <5>1, <5>2, <5>3
      <4>2. g.line # h.line /\ g.line \in Nat /\ h.line \in Nat
        BY <2>1, <2>2, <3>6
      <4>3. g.line < h.line \/ h.line < g.line
        BY <4>2
      <4> HIDE DEF T
      <4>4. QED
        BY <4>1, <4>3
    <3>7. \A s, t \in sections' : s # t => s.text \intersect t.text = {}
      <4> HIDE DEF T, Top, header, Section
      <4>1. QED
        BY <2>6, <3>5, <3>6
    <3>8. \A s \in sections' : s.text \intersect Excised = {}
      <4>1. Top \intersect Excised = {} /\ \A h \in heads : T(h) \intersect Excised = {}
        BY <2>2
      <4> HIDE DEF T, Top, header, Section
      <4>2. QED
        BY <2>6, <4>1
    <3>9. QED
      BY <1>1, <3>2, <3>4, <3>7, <3>8 DEF TextIsKept
  <2>11. NestedByNumber'
    <3> SUFFICES ASSUME Entries = <<>> PROVE NestedByNumber'
      BY <1>1 DEF NestedByNumber
    <3>1. /\ Nums(Tier1) \subseteq Numbers
          /\ \A h \in heads :
               /\ \/ h.parent \in {Root} \union Prefixes(h.num)
                  \/ h.parent \in {Zero(p) : p \in Prefixes(h.num)}
               /\ Up(h.num) \in Nums(Tier1) => h.parent = Up(h.num)
               /\ LET zero == Zero(Up(h.num))
                  IN  {zero, h.num} \subseteq Nums(Tier1) /\ zero # h.num
                        /\ Up(h.num) \notin Nums(Tier1) \union {Root} => h.parent = zero
      BY <1>1 DEF Nested
    <3>2. Numbers \subseteq SectionNumbers'
      <4> HIDE DEF T
      <4>1. QED
        BY <2>8 DEF Numbers, SectionNumbers
    <3>3. Up(<<"header">>) = Root /\ Nums(Tier1)' = Nums(Tier1)
      BY <1>1, SubSeqEmpty DEF Up, Root, Nums
    <3>4. Root \notin Nums(Tier1)
      BY <1>1, Tier1Facts, NumberFacts DEF Apart, Nums, Headings
    <3>5. SUFFICES ASSUME NEW s \in sections'
                   PROVE  /\ s.parent \in {Root} \union Prefixes(s.num)
                                            \union {Zero(p) : p \in Prefixes(s.num)}
                          /\ Up(s.num) \in Nums(Tier1) => s.parent = Up(s.num)
                          /\ LET zero == Zero(Up(s.num))
                             IN  {zero, s.num} \subseteq Nums(Tier1) /\ zero # s.num
                                   /\ Up(s.num) \notin SectionNumbers' \union {Root} =>
                                 s.parent = zero
      BY <3>3 DEF NestedByNumber
    <3>6. CASE s.num = <<"header">> /\ s.parent = Root
      BY <3>3, <3>4, <3>6
    <3>7. CASE \E h \in heads : s.num = h.num /\ s.parent = h.parent
      BY <3>1, <3>2, <3>7
    <3> HIDE DEF T, Top, header, Section
    <3>8. QED
      BY <2>6, <3>6, <3>7
  <2>12. QED
    BY <1>2, <1>4, <2>7, <2>9, <2>10, <2>11 DEF Acyclic, Nested, Joined
<1>5. QED
  BY <1>3, <1>4 DEF Assemble
-----------------------------------------------------------------------------
(***************************************************************************)
(* The theorems.                                                           *)
(***************************************************************************)

LEMMA InitFacts == Init => IInv
<1> SUFFICES ASSUME Init PROVE IInv
  OBVIOUS
<1>1. /\ pc = "detect" /\ heads = {} /\ visited = 0 /\ sections = {}
      /\ exclude = [start |-> 0, end |-> 0]
  BY DEF Init
<1>2. ASSUME NEW S, NEW n \in Nat, NEW ls \in UpTo(S, n) PROVE ls \in Seq(S)
  <2>1. PICK k \in 1 .. n : ls \in [1 .. k -> S]
    BY DEF UpTo
  <2>2. k \in Nat
    BY <2>1
  <2>3. QED
    BY <2>1, <2>2
<1>3. DocInv
  <2>1. CASE \E ls \in UpTo(Plain, MaxPlain) :
               doc = [lines |-> ls, toc |-> [at |-> 0, end |-> 0, entries |-> <<>>]]
    <3>1. PICK ls \in UpTo(Plain, MaxPlain) :
            doc = [lines |-> ls, toc |-> [at |-> 0, end |-> 0, entries |-> <<>>]]
      BY <2>1
    <3>2. ls \in Seq(Plain)
      BY <1>2, LinesAssumption
    <3>3. ls \in Seq(TextLines)
      BY <3>2, LinesAssumption
    <3>4. doc.lines = ls /\ doc.toc.at = 0 /\ doc.toc.end = 0 /\ doc.toc.entries = <<>>
      BY <3>1
    <3>5. <<>> \in Seq(Listed)
      OBVIOUS
    <3>6. QED
      BY <3>3, <3>4, <3>5 DEF DocInv, Entries
  <2>2. CASE \E f \in Fronts, ls \in [1 .. MaxBody -> Body], over \in 0 .. 1,
                es \in UpTo(Listed, MaxListed) :
               doc = [lines |-> f \o ls,
                      toc |-> [at |-> Len(f), end |-> Len(f) + 1 + over, entries |-> es]]
    <3>1. PICK f \in Fronts, ls \in [1 .. MaxBody -> Body], over \in 0 .. 1,
               es \in UpTo(Listed, MaxListed) :
            doc = [lines |-> f \o ls,
                   toc |-> [at |-> Len(f), end |-> Len(f) + 1 + over, entries |-> es]]
      BY <2>2
    <3>2. f \in Seq(TextLines) /\ ls \in Seq(TextLines)
      <4>1. ls \in Seq(Body)
        BY LinesAssumption
      <4>2. QED
        BY <4>1, LinesAssumption
    <3>3. f \o ls \in Seq(TextLines)
      BY <3>2, ConcatProperties
    <3>4. es \in Seq(Listed)
      BY <1>2, LinesAssumption
    <3>5. /\ doc.lines = f \o ls /\ doc.toc.at = Len(f)
          /\ doc.toc.end = Len(f) + 1 + over /\ doc.toc.entries = es
      BY <3>1
    <3>6. PICK l \in Nat : l = Len(f)
      BY <3>2, LenProperties
    <3>7. l + 1 + over \in Nat /\ l + 1 + over > 0
      OBVIOUS
    <3>8. QED
      BY <3>3, <3>4, <3>5, <3>6, <3>7 DEF DocInv, Entries
  <2>3. QED
    BY <2>1, <2>2 DEF Init
<1>4. TypeOK
  BY <1>1, <1>3, LinesFacts DEF TypeOK
<1>5. HeadsInv
  BY <1>1, FS_EmptySet DEF HeadsInv
<1>6. QED
  BY <1>1, <1>3, <1>4, <1>5 DEF IInv, Acyclic, Nested, Joined, SectionsAreATree,
     TreeIsClosed, LevelsAreDepths, NumbersAreUnique, TextIsKept, NestedByNumber

LEMMA NextStep ==
  ASSUME IInv, [Next]_vars
  PROVE  IInv'
<1>1. CASE Next
  BY <1>1, DetectStep, PromoteStep, RescueStep, ReparentStep, AssembleStep DEF Next
<1>2. CASE UNCHANGED vars
  <2>1. UNCHANGED <<doc, pc, heads, exclude, visited, sections>>
    BY <1>2 DEF vars
  <2>2. /\ Lines' = Lines /\ Entries' = Entries /\ Tier1' = Tier1 /\ Numbers' = Numbers
        /\ SectionNumbers' = SectionNumbers /\ Excised' = Excised
    BY <2>1 DEF Lines, Entries, Tier1, Candidate, NumberOn, Numbered, Line, InToc, Numbers,
       SectionNumbers, Excised
  <2>3. TypeOK' /\ DocInv' /\ HeadsInv' /\ Acyclic' /\ Nested' /\ Joined'
    BY <2>1, <2>2 DEF IInv, TypeOK, DocInv, HeadsInv, Acyclic, Nested, Joined
  <2>4. SectionsAreATree' /\ TextIsKept' /\ NestedByNumber'
    BY <2>1, <2>2, <2>3 DEF IInv, SectionsAreATree, TreeIsClosed, LevelsAreDepths,
       NumbersAreUnique, TextIsKept, NestedByNumber
  <2>5. QED
    BY <2>3, <2>4 DEF IInv
<1>3. QED
  BY <1>1, <1>2

(* Whatever the lines and the table's entries are, the headings are unique  *)
(* in their numbers at every pass, and no chain of parents is a cycle.      *)
THEOREM Invariance == Spec => []IInv
<1>1. IInv /\ [Next]_vars => IInv'
  BY NextStep
<1>2. QED
  BY <1>1, InitFacts, PTL DEF Spec

(* The sections of every document form a tree: no parent is missing, each  *)
(* section is one level below its parent, and numbers differ, but for the  *)
(* synthetic header's (parser.go:313-332, 376-398).                        *)
THEOREM TreeInvariance == Spec => []SectionsAreATree
<1>1. IInv => SectionsAreATree
  BY DEF IInv
<1>2. QED
  BY <1>1, Invariance, PTL

(* When the parser is done, every line is a heading's, cut out, or text of *)
(* one section alone, and no line that is cut out is text                  *)
(* (parser.go:400-430, 442-454).                                           *)
THEOREM TextInvariance == Spec => []TextIsKept
<1>1. IInv => TextIsKept
  BY DEF IInv
<1>2. QED
  BY <1>1, Invariance, PTL

(* Without a table, the repairs move no section below a stranger and none  *)
(* away from a parent that Tier 1 found (parser.go:190-200, 313-332).      *)
THEOREM NestingInvariance == Spec => []NestedByNumber
<1>1. IInv => NestedByNumber
  BY DEF IInv
<1>2. QED
  BY <1>1, Invariance, PTL
=============================================================================
