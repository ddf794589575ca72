--------------------------- MODULE TaggingProofs ---------------------------
(* Proofs about tags: that a tag is found by the name under which it is       *)
(* shown, that Enter applies what the typed text then finds, and that the     *)
(* dialogue of the filter opens as it was left.  In the lemmas about the tree *)
(* d and e are tables of tags; in those about the tables they are desks.      *)
EXTENDS Tagging, FiniteSetTheorems, WellFoundedInduction, TLAPS

-----------------------------------------------------------------------------
(* Induction, and the recursive functions that need it to be defined.         *)

\* A set of natural numbers that holds 0 and is closed under successor is Nat.
LEMMA SetInduction ==
  ASSUME NEW S \in SUBSET Nat, 0 \in S, \A n \in S : n + 1 \in S
  PROVE  S = Nat
<1> DEFINE T == Nat \ S
           R == {ss \in Nat \X Nat : ss[1] < ss[2]}
<1>1. IsWellFoundedOn(R, Nat)
  BY NatLessThanWellFounded, Zenon DEF OpToRel
<1>2. ASSUME T # {}
      PROVE  FALSE
  <2>1. PICK x \in T : \A y \in T : ~ (<<y, x>> \in R)
    <3>1. T \subseteq Nat
      OBVIOUS
    <3> HIDE DEF T, R
    <3>2. QED  BY <3>1, <1>1, <1>2, WFMin
  <2>2. x \in Nat /\ x # 0 /\ x - 1 \in Nat
    OBVIOUS
  <2>3. x - 1 \in S
    <3>1. <<x - 1, x>> \in R
      BY <2>2
    <3>2. QED  BY <2>1, <2>2, <3>1
  <2>4. x - 1 + 1 \in S
    BY <2>3
  <2>5. QED  BY <2>2, <2>4
<1>3. QED  BY <1>2

\* A word finds only tags that are there.
LEMMA FindsTags ==
  ASSUME NEW d, NEW word
  PROVE  FindAllOrAbbreviated(d, word) \subseteq Ids(d)
BY DEF FindAllOrAbbreviated, FindAll, FindAbbreviated

\* What the words of a text find is well defined, word by word.
LEMMA ChainFoundDef ==
  ASSUME NEW d, NEW words, NEW L \in Nat, DOMAIN words = 1 .. L
  PROVE  ChainFound(d, words) =
           [n \in 1 .. L |-> {t \in FindAllOrAbbreviated(d, words[n]) :
                                n = 1 \/ Parent(d, t) \in ChainFound(d, words)[n - 1]}]
<1> DEFINE Step(f, n) == {t \in FindAllOrAbbreviated(d, words[n]) :
                            n = 1 \/ Parent(d, t) \in f[n - 1]}
           P(n) == \E f \in [1 .. n -> SUBSET Ids(d)] : \A i \in 1 .. n : f[i] = Step(f, i)
           Works == {n \in Nat : n <= L => P(n)}
           F == CHOOSE f : f = [n \in 1 .. L |-> Step(f, n)]
<1>1. \A n : FindAllOrAbbreviated(d, words[n]) \subseteq Ids(d)
  BY FindsTags
<1>2. 0 \in Works
  <2>1. [i \in 1 .. 0 |-> {}] \in [1 .. 0 -> SUBSET Ids(d)]
    OBVIOUS
  <2>2. \A f : \A i \in 1 .. 0 : f[i] = Step(f, i)
    OBVIOUS
  <2> HIDE DEF Step
  <2>3. QED  BY <2>1, <2>2
<1>3. ASSUME NEW n \in Works
      PROVE  n + 1 \in Works
  <2>1. SUFFICES ASSUME n + 1 <= L
                 PROVE  P(n + 1)
    <3> HIDE DEF P
    <3>1. QED  OBVIOUS
  <2>2. PICK f \in [1 .. n -> SUBSET Ids(d)] : \A i \in 1 .. n : f[i] = Step(f, i)
    BY <2>1
  <2> DEFINE g == [i \in 1 .. (n + 1) |-> IF i = n + 1 THEN Step(f, n + 1) ELSE f[i]]
  <2>3. n \in Nat
    OBVIOUS
  <2>4. Step(f, n + 1) \in SUBSET Ids(d)
    BY <1>1
  <2>5. g \in [1 .. (n + 1) -> SUBSET Ids(d)]
    <3> HIDE DEF Step
    <3>1. QED  BY <2>3, <2>4
  <2>6. ASSUME NEW i \in 1 .. (n + 1)
        PROVE  g[i] = Step(g, i)
    <3>1. i = 1 \/ g[i - 1] = f[i - 1]
      BY <2>3
    <3>2. Step(g, i) = Step(f, i)
      <4> HIDE DEF g
      <4>1. QED  BY <3>1
    <3>3. g[i] = Step(f, i)
      <4> HIDE DEF Step
      <4>1. QED  BY <2>2, <2>3
    <3>4. QED  BY <3>2, <3>3
  <2> HIDE DEF Step, g
  <2>7. QED  BY <2>5, <2>6
<1>4. L \in Works
  <2> HIDE DEF Works
  <2>1. Works \in SUBSET Nat
    BY DEF Works
  <2>2. QED  BY <1>2, <1>3, <2>1, SetInduction
<1>5. PICK f \in [1 .. L -> SUBSET Ids(d)] : \A i \in 1 .. L : f[i] = Step(f, i)
  BY <1>4
<1> HIDE DEF Step
<1>6. f = [n \in 1 .. L |-> Step(f, n)]
  BY <1>5
<1>7. F = [n \in 1 .. L |-> Step(F, n)]
  <2>1. \E h : h = [n \in 1 .. L |-> Step(h, n)]
    BY <1>6
  <2>2. QED  BY <2>1, Zenon DEF F
<1>8. F = ChainFound(d, words)
  BY Zenon DEF Step, ChainFound
<1>9. QED  BY <1>7, <1>8 DEF Step

\* What the first n words find, from what those before the last find.
LEMMA ChainFoundAt ==
  ASSUME NEW d, NEW words, NEW L \in Nat, DOMAIN words = 1 .. L, NEW n \in 1 .. L
  PROVE  ChainFound(d, words)[n] =
           {t \in FindAllOrAbbreviated(d, words[n]) :
              n = 1 \/ Parent(d, t) \in ChainFound(d, words)[n - 1]}
<1>1. ChainFound(d, words) =
        [m \in 1 .. L |-> {t \in FindAllOrAbbreviated(d, words[m]) :
                             m = 1 \/ Parent(d, t) \in ChainFound(d, words)[m - 1]}]
  BY ChainFoundDef
<1>2. QED  BY <1>1, Zenon

\* The same, tag by tag.
LEMMA FoundByWords ==
  ASSUME NEW d, NEW words, NEW L \in Nat, DOMAIN words = 1 .. L, NEW n \in 1 .. L
  PROVE  \A t : t \in ChainFound(d, words)[n] <=>
                 /\ t \in FindAllOrAbbreviated(d, words[n])
                 /\ n = 1 \/ Parent(d, t) \in ChainFound(d, words)[n - 1]
BY ChainFoundAt

\* A finite set of natural numbers has a greatest element, unless it is empty.
LEMMA MaxIsGreatest ==
  ASSUME NEW S \in SUBSET Nat, IsFiniteSet(S), S # {}
  PROVE  Max(S) \in S /\ \A s \in S : s <= Max(S)
<1> DEFINE Greatest(T) == \E m \in T : \A s \in T : s <= m
           Works == {n \in Nat : \A T \in SUBSET Nat :
                       IsFiniteSet(T) /\ T # {} /\ Cardinality(T) = n => Greatest(T)}
<1>1. 0 \in Works
  <2>1. \A T : IsFiniteSet(T) /\ Cardinality(T) = 0 => T = {}
    BY FS_EmptySet
  <2> HIDE DEF Greatest
  <2>2. QED  BY <2>1
<1>2. ASSUME NEW n \in Works
      PROVE  n + 1 \in Works
  <2>1. SUFFICES ASSUME NEW T \in SUBSET Nat, IsFiniteSet(T), T # {}, Cardinality(T) = n + 1
                 PROVE  Greatest(T)
    <3> HIDE DEF Greatest
    <3>1. n \in Nat
      OBVIOUS
    <3>2. QED  BY <2>1, <3>1
  <2>2. PICK x \in T : TRUE
    BY <2>1
  <2>3. n \in Nat
    OBVIOUS
  <2> DEFINE U == T \ {x}
  <2>4. IsFiniteSet(U) /\ Cardinality(U) = n
    <3>1. IsFiniteSet(T \ {x}) /\ Cardinality(T \ {x}) = IF x \in T THEN Cardinality(T) - 1 ELSE Cardinality(T)
      BY <2>1, FS_RemoveElement
    <3>2. QED  BY <3>1, <2>1, <2>2, <2>3
  <2>5. CASE U = {}
    BY <2>1, <2>2, <2>5
  <2>6. CASE U # {}
    <3>1. U \in SUBSET Nat
      OBVIOUS
    <3>2. Greatest(U)
      <4> HIDE DEF Greatest, U
      <4>1. QED  BY <2>4, <2>6, <3>1
    <3>3. PICK m \in U : \A s \in U : s <= m
      BY <3>2
    <3>4. CASE x <= m
      BY <3>3, <3>4
    <3>5. CASE ~(x <= m)
      BY <2>2, <3>3, <3>5
    <3>6. QED  BY <3>4, <3>5
  <2>7. QED  BY <2>5, <2>6
<1>3. Works = Nat
  <2>1. Works \in SUBSET Nat
    OBVIOUS
  <2> HIDE DEF Works
  <2>2. QED  BY <1>1, <1>2, <2>1, SetInduction
<1>4. Cardinality(S) \in Works
  BY FS_CardinalityType, <1>3
<1>5. \E m \in S : \A s \in S : m >= s
  BY <1>4
<1>6. Max(S) \in S /\ \A s \in S : Max(S) >= s
  BY <1>5 DEF Max
<1>7. QED  BY <1>6

\* What the tree says of a tag and what lies above it.
LEMMA TreeFacts ==
  ASSUME NEW d, IsTree(d), NEW t \in Ids(d)
  PROVE  /\ t \in Nat /\ t # 0
         /\ Parent(d, t) \in Nat /\ Parent(d, t) < t
         /\ Parent(d, t) # 0 => Parent(d, t) \in Ids(d)
BY DEF IsTree

\* The next tag is none of those there are.
LEMMA NextTagIsNew ==
  ASSUME NEW d, IsTree(d)
  PROVE  NextTag(d) \in Nat \ {0} /\ NextTag(d) \notin Ids(d) /\ \A t \in Ids(d) : t < NextTag(d)
<1> DEFINE S == {0} \cup Ids(d)
<1>1. S \in SUBSET Nat /\ S # {}
  BY DEF IsTree
<1>2. IsFiniteSet(S)
  <2>1. IsFiniteSet(Ids(d) \cup {0})
    BY FS_AddElement DEF IsTree
  <2>2. Ids(d) \cup {0} = {0} \cup Ids(d)
    OBVIOUS
  <2>3. QED  BY <2>1, <2>2
<1> HIDE DEF S
<1>3. Max(S) \in S /\ \A s \in S : s <= Max(S)
  BY <1>1, <1>2, MaxIsGreatest
<1>4. NextTag(d) = Max(S) + 1
  BY DEF NextTag, S
<1>5. \A t \in Ids(d) : t \in S
  BY DEF S
<1>6. Max(S) \in Nat /\ \A t \in Ids(d) : t \in Nat /\ t <= Max(S)
  BY <1>1, <1>3, <1>5
<1>7. QED  BY <1>4, <1>6

\* The name that is shown is well defined, from the root down.
QualifiedBy(d, words, t) ==
  CASE Parent(d, t) = 0 -> <<EmptyWord, Word(Name(d, t))>>
    [] Parent(d, t) # 0 /\ IsAlone(d, Parent(d, t)) ->
          <<Word(Name(d, Parent(d, t))), Word(Name(d, t))>>
    [] OTHER -> Append(words[Parent(d, t)], Word(Name(d, t)))

\* The words of a name are well defined, along the parents.
LEMMA QualifiedDef ==
  ASSUME NEW d, IsTree(d)
  PROVE  Qualified(d) = [t \in Ids(d) |-> QualifiedBy(d, Qualified(d), t)]
<1> DEFINE Upto(n) == {t \in Ids(d) : t <= n}
           P(n) == \E f : f = [t \in Upto(n) |-> QualifiedBy(d, f, t)]
           Works == {n \in Nat : P(n)}
           F == CHOOSE f : f = [t \in Ids(d) |-> QualifiedBy(d, f, t)]
<1>1. ASSUME NEW f, NEW g, NEW t \in Ids(d),
             Parent(d, t) # 0 => f[Parent(d, t)] = g[Parent(d, t)]
      PROVE  QualifiedBy(d, f, t) = QualifiedBy(d, g, t)
  BY <1>1 DEF QualifiedBy
<1>2. 0 \in Works
  <2>1. Upto(0) = {}
    BY TreeFacts
  <2>2. [t \in {} |-> 0] = [t \in Upto(0) |-> QualifiedBy(d, [u \in {} |-> 0], t)]
    BY <2>1
  <2>3. QED  BY <2>2
<1>3. ASSUME NEW n \in Works
      PROVE  n + 1 \in Works
  <2>1. PICK f : f = [t \in Upto(n) |-> QualifiedBy(d, f, t)]
    OBVIOUS
  <2>2. n \in Nat
    OBVIOUS
  <2> DEFINE g == [t \in Upto(n + 1) |-> IF t <= n THEN f[t] ELSE QualifiedBy(d, f, t)]
  <2>3. ASSUME NEW t \in Upto(n + 1)
        PROVE  g[t] = QualifiedBy(d, g, t)
    <3>1. t \in Ids(d) /\ t <= n + 1
      OBVIOUS
    <3>2. Parent(d, t) # 0 => Parent(d, t) \in Ids(d) /\ Parent(d, t) <= n
      BY <3>1, <2>2, TreeFacts
    <3>3. Parent(d, t) # 0 => g[Parent(d, t)] = f[Parent(d, t)]
      BY <3>2, <2>2, TreeFacts
    <3>4. QualifiedBy(d, f, t) = QualifiedBy(d, g, t)
      <4> HIDE DEF g
      <4>1. QED  BY <1>1, <3>1, <3>3
    <3>5. g[t] = QualifiedBy(d, f, t)
      <4>1. CASE t <= n
        <5>1. f[t] = QualifiedBy(d, f, t)
          BY <2>1, <3>1, <4>1
        <5>2. QED  BY <4>1, <5>1
      <4>2. CASE ~(t <= n)
        BY <4>2
      <4>3. QED  BY <4>1, <4>2
    <3>6. QED  BY <3>4, <3>5
  <2>4. g = [t \in Upto(n + 1) |-> QualifiedBy(d, g, t)]
    <3>1. g = [t \in Upto(n + 1) |-> g[t]]
      OBVIOUS
    <3> HIDE DEF g, Upto
    <3>2. QED  BY <2>3, <3>1
  <2> HIDE DEF g, Upto
  <2>5. P(n + 1)
    BY <2>4
  <2>6. QED  BY <2>2, <2>5
<1>4. \E f : f = [t \in Ids(d) |-> QualifiedBy(d, f, t)]
  <2>1. Works = Nat
    <3>1. Works \in SUBSET Nat
      OBVIOUS
    <3> HIDE DEF Works
    <3>2. QED  BY <1>2, <1>3, <3>1, SetInduction
  <2>2. NextTag(d) \in Works
    BY <2>1, NextTagIsNew
  <2>3. Upto(NextTag(d)) = Ids(d)
    BY NextTagIsNew, TreeFacts
  <2>4. P(NextTag(d))
    BY <2>2
  <2>5. QED  BY <2>3, <2>4
<1>5. F = [t \in Ids(d) |-> QualifiedBy(d, F, t)]
  <2> HIDE DEF Works, P, Upto
  <2>1. QED  BY <1>4, Zenon DEF F
<1>6. F = Qualified(d)
  BY Zenon DEF Qualified, QualifiedBy
<1>7. QED  BY <1>5, <1>6

-----------------------------------------------------------------------------
(* The name under which a tag is shown finds it.                              *)

\* What the first words of a text find depends on what each of them finds, and
\* not on the others.
LEMMA PrefixFinds ==
  ASSUME NEW d, NEW ws, NEW vs, NEW L \in Nat, NEW M \in Nat, L <= M,
         DOMAIN ws = 1 .. L, DOMAIN vs = 1 .. M,
         \A n \in 1 .. L : FindAllOrAbbreviated(d, ws[n]) = FindAllOrAbbreviated(d, vs[n])
  PROVE  \A n \in 1 .. L : ChainFound(d, ws)[n] = ChainFound(d, vs)[n]
<1> DEFINE S == {n \in Nat : n + 1 <= L => ChainFound(d, ws)[n + 1] = ChainFound(d, vs)[n + 1]}
<1>1. \A n \in 1 .. L :
        ChainFound(d, ws)[n] = {t \in FindAllOrAbbreviated(d, ws[n]) :
                                  n = 1 \/ Parent(d, t) \in ChainFound(d, ws)[n - 1]}
  BY ChainFoundAt
<1>2. \A n \in 1 .. M :
        ChainFound(d, vs)[n] = {t \in FindAllOrAbbreviated(d, vs[n]) :
                                  n = 1 \/ Parent(d, t) \in ChainFound(d, vs)[n - 1]}
  BY ChainFoundAt
<1>3. 0 \in S
  <2>1. SUFFICES ASSUME 1 <= L
                 PROVE  ChainFound(d, ws)[1] = ChainFound(d, vs)[1]
    OBVIOUS
  <2>2. 1 \in 1 .. L /\ 1 \in 1 .. M
    BY <2>1
  <2>3. ChainFound(d, ws)[1] = FindAllOrAbbreviated(d, ws[1])
    BY <1>1, <2>2
  <2>4. ChainFound(d, vs)[1] = FindAllOrAbbreviated(d, vs[1])
    BY <1>2, <2>2
  <2>5. QED  BY <2>2, <2>3, <2>4
<1>4. ASSUME NEW n \in S
      PROVE  n + 1 \in S
  <2>1. n \in Nat
    OBVIOUS
  <2>2. SUFFICES ASSUME n + 2 <= L
                 PROVE  ChainFound(d, ws)[n + 2] = ChainFound(d, vs)[n + 2]
    BY <2>1
  <2>3. ChainFound(d, ws)[n + 1] = ChainFound(d, vs)[n + 1]
    BY <2>1, <2>2
  <2>4. n + 2 \in 1 .. L /\ n + 2 \in 1 .. M /\ n + 2 - 1 = n + 1 /\ n + 2 # 1
    BY <2>1, <2>2
  <2>5. FindAllOrAbbreviated(d, ws[n + 2]) = FindAllOrAbbreviated(d, vs[n + 2])
    BY <2>4
  <2>6. ChainFound(d, ws)[n + 2] = {t \in FindAllOrAbbreviated(d, ws[n + 2]) :
                                      Parent(d, t) \in ChainFound(d, ws)[n + 1]}
    BY <1>1, <2>4
  <2>7. ChainFound(d, vs)[n + 2] = {t \in FindAllOrAbbreviated(d, vs[n + 2]) :
                                      Parent(d, t) \in ChainFound(d, vs)[n + 1]}
    BY <1>2, <2>4
  <2>8. QED  BY <2>3, <2>5, <2>6, <2>7
<1>5. S = Nat
  <2>1. S \in SUBSET Nat
    OBVIOUS
  <2> HIDE DEF S
  <2>2. QED  BY <1>3, <1>4, <2>1, SetInduction
<1>6. TAKE n \in 1 .. L
<1>7. n - 1 \in Nat /\ n - 1 + 1 = n /\ n <= L
  OBVIOUS
<1>8. n - 1 \in S
  <2> HIDE DEF S
  <2>1. QED  BY <1>5, <1>7
<1>9. QED  BY <1>7, <1>8

\* A tag's own name is looked for as it is.
LEMMA OwnNameFinds ==
  ASSUME NEW d, NEW t \in Ids(d)
  PROVE  /\ FindAllOrAbbreviated(d, Word(Name(d, t))) = FindAll(d, Name(d, t))
         /\ t \in FindAll(d, Name(d, t))
<1>1. t \in FindAll(d, Name(d, t))
  BY DEF FindAll
<1>2. Word(Name(d, t)).name = Name(d, t)
  BY DEF Word
<1>3. QED  BY <1>1, <1>2 DEF FindAllOrAbbreviated

\* The text of a tag's name finds that tag alone, or begins with an empty word.
NameWords(d) == [name : {Name(d, u) : u \in Ids(d)} \cup {EmptyWord.name}, exact : BOOLEAN]
NamedWell(d, u, words) ==
  /\ words \in Seq(NameWords(d)) /\ Len(words) >= 1
  /\ \/ words[1].name = EmptyWord.name
     \/ Respelt(d, words)
     \/ ChainFound(d, words)[Len(words)] = {u}

\* A text of one word finds what the word finds.
LEMMA OneWordFinds ==
  ASSUME NEW d, NEW w
  PROVE  \A t : t \in ChainFound(d, <<w>>)[1] <=> t \in FindAllOrAbbreviated(d, w)
<1> DEFINE words == <<w>>
<1>1. DOMAIN words = 1 .. 1 /\ words[1] = w
  OBVIOUS
<1> HIDE DEF words
<1>2. 1 \in Nat /\ 1 \in 1 .. 1
  OBVIOUS
<1>3. \A t : t \in ChainFound(d, words)[1] <=> t \in FindAllOrAbbreviated(d, w)
  BY <1>1, <1>2, FoundByWords
<1>4. QED  BY <1>3 DEF words

\* One more word finds, of what it finds, the children of what was found.
LEMMA OneMoreWordFinds ==
  ASSUME NEW d, NEW W, NEW words \in Seq(W), NEW w \in W, Len(words) >= 1
  PROVE  \A t : t \in ChainFound(d, Append(words, w))[Len(words) + 1] <=>
                 /\ t \in FindAllOrAbbreviated(d, w)
                 /\ Parent(d, t) \in ChainFound(d, words)[Len(words)]
<1> DEFINE L == Len(words)
           more == Append(words, w)
<1>1. L \in Nat /\ L + 1 \in Nat /\ L <= L + 1 /\ L >= 1 /\ DOMAIN words = 1 .. L
  OBVIOUS
<1>2. DOMAIN more = 1 .. (L + 1) /\ more[L + 1] = w /\ \A m \in 1 .. L : words[m] = more[m]
  OBVIOUS
<1> HIDE DEF L, more
<1>3. ChainFound(d, words)[L] = ChainFound(d, more)[L]
  <2>1. \A m \in 1 .. L : ChainFound(d, words)[m] = ChainFound(d, more)[m]
    BY <1>1, <1>2, PrefixFinds
  <2>2. QED  BY <1>1, <2>1
<1>4. L + 1 \in 1 .. (L + 1) /\ L + 1 # 1 /\ L + 1 - 1 = L
  BY <1>1
<1>5. \A t : t \in ChainFound(d, more)[L + 1] <=>
              t \in FindAllOrAbbreviated(d, more[L + 1]) /\ Parent(d, t) \in ChainFound(d, more)[L]
  <2>1. PICK M \in Nat : M = L + 1
    BY <1>1
  <2>2. DOMAIN more = 1 .. M /\ M \in 1 .. M
    BY <1>2, <1>4, <2>1
  <2>3. \A t : t \in ChainFound(d, more)[M] <=>
                /\ t \in FindAllOrAbbreviated(d, more[M])
                /\ M = 1 \/ Parent(d, t) \in ChainFound(d, more)[M - 1]
    BY <2>2, FoundByWords
  <2>4. M - 1 = L /\ M # 1
    BY <1>1, <2>1
  <2>5. \A t : t \in ChainFound(d, more)[M] <=>
                t \in FindAllOrAbbreviated(d, more[M]) /\ Parent(d, t) \in ChainFound(d, more)[L]
    BY <2>3, <2>4, Zenon
  <2>6. QED  BY <2>1, <2>5, Zenon
<1>6. \A t : t \in ChainFound(d, more)[L + 1] <=>
              t \in FindAllOrAbbreviated(d, w) /\ Parent(d, t) \in ChainFound(d, more)[L]
  BY <1>2, <1>5
<1>7. QED  BY <1>3, <1>6 DEF L, more

\* A tag's name is a word, and so is the empty one.
LEMMA WordsOfNames ==
  ASSUME NEW d
  PROVE  EmptyWord \in NameWords(d) /\ \A u \in Ids(d) : Word(Name(d, u)) \in NameWords(d)
<1>1. EmptyWord = [name |-> EmptyWord.name, exact |-> FALSE]
  BY Zenon DEF Word, EmptyWord
<1>2. EmptyWord \in NameWords(d)
  <2> DEFINE e == EmptyWord.name
  <2>1. e \in {Name(d, v) : v \in Ids(d)} \cup {e}
    OBVIOUS
  <2> HIDE DEF e
  <2>2. [name |-> e, exact |-> FALSE] \in [name : {Name(d, v) : v \in Ids(d)} \cup {e}, exact : BOOLEAN]
    BY <2>1
  <2>3. QED  BY <1>1, <2>2 DEF e, NameWords
<1>3. ASSUME NEW u \in Ids(d)
      PROVE  Word(Name(d, u)) \in NameWords(d)
  <2>1. Name(d, u) \in {Name(d, v) : v \in Ids(d)}
    OBVIOUS
  <2>2. QED  BY <2>1 DEF Word, NameWords
<1>4. QED  BY <1>2, <1>3

\* A name that no other tag has finds its tag, if it has no other spelling.
LEMMA NamedAlone ==
  ASSUME NEW d, NEW p \in Ids(d), IsAlone(d, p)
  PROVE  NamedWell(d, p, <<Word(Name(d, p))>>)
<1> DEFINE w == Word(Name(d, p))
           words == <<w>>
<1>1. w \in NameWords(d) /\ w.name = Name(d, p)
  BY WordsOfNames DEF Word
<1>2. \A t : t \in ChainFound(d, words)[1] <=> t \in FindAll(d, Name(d, p))
  BY OneWordFinds, OwnNameFinds
<1> HIDE DEF w
<1>3. words \in Seq(NameWords(d)) /\ Len(words) = 1 /\ DOMAIN words = {1} /\ words[1] = w
  BY <1>1
<1> HIDE DEF words
<1>4. ASSUME ~Respelt(d, words)
      PROVE  ChainFound(d, words)[1] = {p}
  <2>1. \A t \in Ids(d) : Lower[Name(d, t)] = Lower[Name(d, p)] => Name(d, t) = Name(d, p)
    BY <1>1, <1>3, <1>4 DEF Respelt
  <2>2. \A t : t \in FindAll(d, Name(d, p)) <=> t = p
    BY <2>1 DEF FindAll, IsAlone
  <2>3. \A t : t \in ChainFound(d, words)[1] <=> t = p
    BY <1>2, <2>2
  <2>4. QED  BY <2>3
<1>5. QED  BY <1>3, <1>4 DEF NamedWell, words, w

\* If a name finds a parent, the name with one more word finds the child.
LEMMA NamedBelow ==
  ASSUME NEW d, IsTree(d), NEW u \in Ids(d), NEW words,
         Parent(d, u) \in Ids(d), NamedWell(d, Parent(d, u), words)
  PROVE  NamedWell(d, u, Append(words, Word(Name(d, u))))
<1> DEFINE w == Word(Name(d, u))
           p == Parent(d, u)
           more == Append(words, w)
           L == Len(words)
<1>1. w \in NameWords(d) /\ w.name = Name(d, u)
  BY WordsOfNames DEF Word
<1>2. words \in Seq(NameWords(d)) /\ L >= 1 /\ L \in Nat
  BY DEF NamedWell
<1>3. FindAllOrAbbreviated(d, w) = FindAll(d, Name(d, u)) /\ u \in FindAll(d, Name(d, u))
  BY OwnNameFinds
<1>4. \A v : v \in ChainFound(d, more)[L + 1] <=>
              /\ v \in FindAllOrAbbreviated(d, w)
              /\ Parent(d, v) \in ChainFound(d, words)[L]
  <2> HIDE DEF w
  <2>1. QED  BY <1>1, <1>2, OneMoreWordFinds
<1> HIDE DEF w, p
<1>5. /\ more \in Seq(NameWords(d)) /\ Len(more) = L + 1 /\ L + 1 >= 1 /\ DOMAIN more = 1 .. (L + 1)
      /\ more[L + 1] = w /\ DOMAIN words = 1 .. L /\ \A i \in 1 .. L : more[i] = words[i]
  BY <1>1, <1>2
<1> HIDE DEF more, L
<1>6. CASE words[1].name = EmptyWord.name
  <2>1. more[1] = words[1]
    BY <1>2, <1>5
  <2>2. QED  BY <1>5, <1>6, <2>1 DEF NamedWell, more, w
<1>7. CASE Respelt(d, words)
  <2>1. Respelt(d, more)
    <3>1. PICK i \in 1 .. L, t \in Ids(d) :
             Lower[Name(d, t)] = Lower[words[i].name] /\ Name(d, t) # words[i].name
      BY <1>5, <1>7 DEF Respelt
    <3>2. i \in 1 .. (L + 1) /\ more[i] = words[i]
      BY <1>2, <1>5
    <3>3. QED  BY <1>5, <3>1, <3>2 DEF Respelt
  <2>2. QED  BY <1>5, <2>1 DEF NamedWell, more, w
<1>8. CASE ChainFound(d, words)[L] = {p} /\ ~Respelt(d, more)
  <2>1. \A v \in Ids(d) : Lower[Name(d, v)] = Lower[Name(d, u)] => Name(d, v) = Name(d, u)
    <3>1. L + 1 \in 1 .. (L + 1)
      BY <1>2
    <3>2. QED  BY <1>1, <1>5, <1>8, <3>1 DEF Respelt
  <2>2. \A v \in FindAll(d, Name(d, u)) : Parent(d, v) = p => v = u
    BY <2>1 DEF FindAll, IsTree, p
  <2>3. \A v : v \in ChainFound(d, more)[L + 1] <=> v = u
    BY <1>3, <1>4, <1>8, <2>2 DEF p
  <2>4. ChainFound(d, more)[L + 1] = {u}
    BY <2>3
  <2>5. QED  BY <1>5, <2>4 DEF NamedWell, more, w
<1>9. CASE Respelt(d, more)
  BY <1>5, <1>9 DEF NamedWell, more, w
<1>10. QED  BY <1>6, <1>7, <1>8, <1>9 DEF NamedWell, L, p

\* If a parent's name finds it, so does that of its child.
LEMMA NameStep ==
  ASSUME NEW d, IsTree(d), NEW u \in Ids(d),
         Parent(d, u) # 0 => NamedWell(d, Parent(d, u), Qualified(d)[Parent(d, u)])
  PROVE  NamedWell(d, u, Qualified(d)[u])
<1> DEFINE Q == Qualified(d)
           w == Word(Name(d, u))
           p == Parent(d, u)
           above == <<Word(Name(d, p))>>
<1>1. Q[u] = QualifiedBy(d, Q, u)
  <2>1. Q = [v \in Ids(d) |-> QualifiedBy(d, Q, v)]
    BY QualifiedDef
  <2> HIDE DEF Q
  <2>2. QED  BY <2>1
<1>2. w \in NameWords(d) /\ EmptyWord \in NameWords(d)
  BY WordsOfNames
<1>3. p # 0 => p \in Ids(d)
  BY TreeFacts
<1> HIDE DEF Q
<1>4. CASE p = 0
  <2>1. Q[u] = <<EmptyWord, w>>
    BY <1>1, <1>4 DEF QualifiedBy
  <2> HIDE DEF w
  <2>2. /\ <<EmptyWord, w>> \in Seq(NameWords(d)) /\ Len(<<EmptyWord, w>>) >= 1
        /\ <<EmptyWord, w>>[1] = EmptyWord
    BY <1>2
  <2>3. QED  BY <1>2, <2>1, <2>2 DEF NamedWell, Q
<1>5. CASE p # 0 /\ IsAlone(d, p)
  <2>1. Q[u] = <<Word(Name(d, p)), w>>
    BY <1>1, <1>5 DEF QualifiedBy
  <2>2. <<Word(Name(d, p)), w>> = Append(above, w)
    OBVIOUS
  <2>3. NamedWell(d, p, above)
    BY <1>3, <1>5, NamedAlone
  <2> HIDE DEF above
  <2>4. NamedWell(d, u, Append(above, w))
    BY <1>3, <1>5, <2>3, NamedBelow
  <2>5. QED  BY <2>1, <2>2, <2>4 DEF Q
<1>6. CASE p # 0 /\ ~IsAlone(d, p)
  <2>1. Q[u] = Append(Q[p], w)
    BY <1>1, <1>6 DEF QualifiedBy
  <2>2. NamedWell(d, p, Q[p])
    BY <1>6 DEF Q
  <2>3. NamedWell(d, u, Append(Q[p], w))
    BY <1>3, <1>6, <2>2, NamedBelow
  <2>4. QED  BY <2>1, <2>3 DEF Q
<1>7. QED  BY <1>4, <1>5, <1>6

\* A name that is unique in any case finds its tag.
LEMMA UniqueNameFinds ==
  ASSUME NEW d, IsTree(d), NEW u \in Ids(d), IsUniqueName(d, Name(d, u))
  PROVE  NamedWell(d, u, <<Word(Name(d, u))>>)
<1> DEFINE w == Word(Name(d, u))
<1>1. FindAll(d, Name(d, u)) = {u}
  <2>1. FindAll(d, Name(d, u)) \in SUBSET Ids(d) /\ IsFiniteSet(Ids(d))
    BY DEF FindAll, IsTree
  <2>2. IsFiniteSet(FindAll(d, Name(d, u)))
    BY <2>1, FS_Subset
  <2>3. \E x : FindAll(d, Name(d, u)) = {x}
    BY <2>2, FS_Singleton DEF IsUniqueName
  <2>4. QED  BY <2>3, OwnNameFinds
<1>2. Len(<<w>>) = 1 /\ <<w>> \in Seq(NameWords(d))
  <2>1. w \in NameWords(d)
    BY WordsOfNames
  <2> HIDE DEF w
  <2>2. QED  BY <2>1
<1>3. ChainFound(d, <<w>>)[1] = {u}
  BY <1>1, OneWordFinds, OwnNameFinds
<1>4. QED  BY <1>2, <1>3 DEF NamedWell

\* The name of every tag is well made, by induction along the parents.
LEMMA NamesWell ==
  ASSUME NEW d, IsTree(d), NEW t \in Ids(d)
  PROVE  \E words : SmartName(d, t) = [deep |-> FALSE, words |-> words] /\ NamedWell(d, t, words)
<1> DEFINE Good(u) == NamedWell(d, u, Qualified(d)[u])
           S == {n \in Nat : \A u \in Ids(d) : u <= n => Good(u)}
<1>1. 0 \in S
  BY TreeFacts
<1>2. ASSUME NEW n \in S
      PROVE  n + 1 \in S
  <2>1. n \in Nat /\ \A u \in Ids(d) : u <= n => Good(u)
    OBVIOUS
  <2> HIDE DEF S
  <2>2. ASSUME NEW u \in Ids(d), u <= n + 1
        PROVE  Good(u)
    <3>1. Parent(d, u) # 0 => Parent(d, u) \in Ids(d) /\ Parent(d, u) <= n
      BY <2>1, <2>2, TreeFacts
    <3>2. Parent(d, u) # 0 => NamedWell(d, Parent(d, u), Qualified(d)[Parent(d, u)])
      BY <2>1, <3>1
    <3>3. QED  BY <3>2, NameStep
  <2> HIDE DEF Good
  <2>3. QED  BY <2>1, <2>2 DEF S
<1>3. S = Nat
  <2>1. S \in SUBSET Nat
    OBVIOUS
  <2> HIDE DEF S
  <2>2. QED  BY <1>1, <1>2, <2>1, SetInduction
<1>4. Good(t)
  <2> HIDE DEF Good
  <2>1. t \in S /\ t <= t
    BY <1>3, TreeFacts
  <2>2. QED  BY <2>1
<1> DEFINE words == IF IsUniqueName(d, Name(d, t)) THEN <<Word(Name(d, t))>> ELSE Qualified(d)[t]
<1>5. SmartName(d, t) = [deep |-> FALSE, words |-> words]
  BY DEF SmartName
<1>6. NamedWell(d, t, words)
  BY <1>4, UniqueNameFinds
<1>7. QED  BY <1>5, <1>6

\* It finds its tag unless its first word is empty or a word has other spellings,
LEMMA NamesFind ==
  ASSUME NEW d, IsTree(d), NEW t \in Ids(d)
  PROVE  LET words == SmartName(d, t).words
         IN words[1].name = EmptyWord.name \/ Respelt(d, words) \/ NameFinds(d, t)
<1>1. PICK words : SmartName(d, t) = [deep |-> FALSE, words |-> words] /\ NamedWell(d, t, words)
  BY NamesWell
<1>2. SmartFindAll(d, SmartName(d, t)) = ChainFound(d, words)[Len(words)]
  BY <1>1 DEF SmartFindAll, ChainFind
<1>3. SmartName(d, t).words = words
  BY <1>1
<1>4. QED  BY <1>1, <1>2, <1>3 DEF NameFinds, NamedWell

\* and is a text that could have been typed.
LEMMA SmartNamesAreTexts ==
  ASSUME NEW d, IsTree(d), NEW t \in Ids(d)
  PROVE  SmartName(d, t) \in TagTexts
<1>1. PICK words : SmartName(d, t) = [deep |-> FALSE, words |-> words] /\ NamedWell(d, t, words)
  BY NamesWell
<1>2. NameWords(d) \subseteq [name : Names, exact : BOOLEAN]
  <2>1. EmptyWord.name \in Names
    <3>1. EmptyWord.name = ""
      BY DEF EmptyWord, Word
    <3>2. QED  BY <3>1, NamesAssumption
  <2>2. \A u \in Ids(d) : Name(d, u) \in Names
    BY DEF IsTree
  <2>3. QED  BY <2>1, <2>2 DEF NameWords
<1>3. words \in Seq(NameWords(d)) /\ words # <<>>
  BY <1>1 DEF NamedWell
<1>4. words \in Seq([name : Names, exact : BOOLEAN]) \ {<<>>}
  <2> DEFINE W == [name : Names, exact : BOOLEAN]
  <2> HIDE DEF W
  <2>1. NameWords(d) \subseteq W
    BY <1>2 DEF W
  <2>2. /\ Len(words) \in Nat /\ words = [n \in 1 .. Len(words) |-> words[n]]
        /\ \A n \in 1 .. Len(words) : words[n] \in NameWords(d)
    BY <1>3
  <2>3. \A n \in 1 .. Len(words) : words[n] \in W
    BY <2>1, <2>2
  <2>4. words \in Seq(W)
    BY <2>2, <2>3
  <2>5. QED  BY <1>3, <2>4 DEF W
<1>5. QED  BY <1>1, <1>4 DEF TagTexts

-----------------------------------------------------------------------------
(* What defining a text makes of the tree.                                    *)

\* More(d, e): e has the tags of d as they are, and perhaps more.
More(d, e) ==
  /\ Ids(d) \subseteq Ids(e)
  /\ \A t \in Ids(d) : Name(e, t) = Name(d, t) /\ Parent(e, t) = Parent(d, t)

\* To grow is transitive,
LEMMA MoreOfMore ==
  ASSUME NEW d, NEW e, NEW f, More(d, e), More(e, f)
  PROVE  More(d, f)
BY DEF More

\* and reflexive.
LEMMA MoreOfItself ==
  ASSUME NEW d
  PROVE  More(d, d)
BY DEF More

\* There is no tag of this name below this one, as it is spelt,
Free(d, name, parent) ==
  \A t \in Ids(d) : ~(Name(d, t) = name /\ Parent(d, t) = parent)

\* or in any case.
Vacant(d, name, parent) ==
  \A t \in Ids(d) : ~(Lower[Name(d, t)] = Lower[name] /\ Parent(d, t) = parent)

\* A name with its capital is the same in lower case.
LEMMA NormalNames ==
  ASSUME NEW name \in Names
  PROVE  NormalCase(name) \in Names /\ Lower[NormalCase(name)] = Lower[name]
BY NamesAssumption DEF NormalCase

\* Where there is no tag of a name in any case, there is none with its capital.
LEMMA VacantIsFree ==
  ASSUME NEW d, NEW name \in Names, NEW parent, Vacant(d, name, parent)
  PROVE  Free(d, NormalCase(name), parent)
BY NormalNames DEF Vacant, Free

\* A tag that is inserted where there is none of its name keeps the tree a tree.
LEMMA InsertedTag ==
  ASSUME NEW d, NEW name \in Names, NEW parent, IsTree(d), parent \in Ids(d) \cup {0},
         Free(d, name, parent)
  PROVE  LET e == InsertTag(d, name, parent).tags
             tag == InsertTag(d, name, parent).tag
         IN  /\ More(d, e) /\ IsTree(e)
             /\ tag \notin Ids(d) /\ tag # 0 /\ Ids(e) = Ids(d) \cup {tag}
             /\ Name(e, tag) = name /\ Parent(e, tag) = parent
             /\ \A t \in Ids(e) : t <= tag
<1> DEFINE tag == NextTag(d)
           row == [name |-> name, parent |-> parent]
           e == [t \in Ids(d) \cup {tag} |-> IF t = tag THEN row ELSE d[t]]
<1>1. InsertTag(d, name, parent) = [tags |-> e, tag |-> tag]
  BY DEF InsertTag
<1>2. tag \in Nat \ {0} /\ tag \notin Ids(d) /\ \A t \in Ids(d) : t < tag
  BY NextTagIsNew
<1> HIDE DEF tag
<1>3. DOMAIN e = Ids(d) \cup {tag} /\ e[tag] = row /\ \A t \in Ids(d) : e[t] = d[t]
  BY <1>2
<1> HIDE DEF e
<1>6. Ids(e) = Ids(d) \cup {tag}
  BY <1>3 DEF Ids
<1>7. Name(e, tag) = name /\ Parent(e, tag) = parent
  BY <1>3 DEF Name, Parent
<1>8. \A t \in Ids(d) : Name(e, t) = Name(d, t) /\ Parent(e, t) = Parent(d, t)
  BY <1>3 DEF Name, Parent
<1>9. More(d, e)
  BY <1>6, <1>8 DEF More
<1>10. IsTree(e)
  <2>1. IsFiniteSet(Ids(e)) /\ Ids(e) \subseteq Nat \ {0}
    <3>1. IsFiniteSet(Ids(d) \cup {tag})
      BY FS_AddElement DEF IsTree
    <3>2. QED  BY <1>2, <1>6, <3>1 DEF IsTree
  <2>2. \A t \in Ids(e) : /\ Name(e, t) \in Names
                          /\ Parent(e, t) \in Ids(e) \cup {0} /\ Parent(e, t) < t
    <3>1. parent < tag
      BY <1>2
    <3>2. QED  BY <1>6, <1>7, <1>8, <3>1 DEF IsTree
  <2>3. \A t, u \in Ids(e) : Name(e, t) = Name(e, u) /\ Parent(e, t) = Parent(e, u) => t = u
    BY <1>6, <1>7, <1>8 DEF IsTree, Free
  <2>4. \E t \in Ids(e) : Name(e, t) = RootName /\ Parent(e, t) = 0
    BY <1>6, <1>8 DEF IsTree
  <2>5. QED  BY <2>1, <2>2, <2>3, <2>4 DEF IsTree
<1>11. \A t \in Ids(e) : t <= tag
  BY <1>2, <1>6, <1>9, TreeFacts
<1>12. InsertTag(d, name, parent).tags = e /\ InsertTag(d, name, parent).tag = tag
  BY <1>1
<1>13. QED  BY <1>2, <1>6, <1>7, <1>9, <1>10, <1>11, <1>12

\* What is made is well defined, word by word.
LEMMA MadeDef ==
  ASSUME NEW d, NEW words, NEW L \in Nat, NEW k \in Nat, Len(words) = L, Known(d, words) = k
  PROVE  Made(d, words) =
           [n \in k .. L |->
              IF n = k
              THEN [tags |-> d, tag |-> IF n = 0 THEN 0 ELSE CHOOSE t \in ChainFound(d, words)[n] : TRUE]
              ELSE DefineChild(Made(d, words)[n - 1].tags, words[n], Made(d, words)[n - 1].tag)]
<1> DEFINE Start(n) == [tags |-> d, tag |-> IF n = 0 THEN 0 ELSE CHOOSE t \in ChainFound(d, words)[n] : TRUE]
           Step(f, n) == IF n = k THEN Start(n)
                         ELSE DefineChild(f[n - 1].tags, words[n], f[n - 1].tag)
           P(n) == \E f : f = [i \in k .. (k + n) |-> Step(f, i)]
           Works == {n \in Nat : P(n)}
           F == CHOOSE f : f = [n \in k .. L |-> Step(f, n)]
<1> HIDE DEF Start
<1>1. 0 \in Works
  <2> DEFINE f == [i \in k .. (k + 0) |-> Start(k)]
  <2>1. \A i \in k .. (k + 0) : i = k
    OBVIOUS
  <2>2. f = [i \in k .. (k + 0) |-> Step(f, i)]
    <3>1. \A i \in k .. (k + 0) : Step(f, i) = Start(k)
      <4> HIDE DEF f
      <4>1. QED  BY <2>1
    <3> HIDE DEF Step
    <3>2. QED  BY <3>1
  <2> HIDE DEF f, Step
  <2>3. QED  BY <2>2
<1>2. ASSUME NEW n \in Works
      PROVE  n + 1 \in Works
  <2>1. n \in Nat /\ P(n)
    OBVIOUS
  <2>2. PICK f : f = [i \in k .. (k + n) |-> Step(f, i)]
    BY <2>1
  <2> DEFINE g == [i \in k .. (k + (n + 1)) |-> IF i = k + (n + 1) THEN Step(f, i) ELSE f[i]]
  <2>3. ASSUME NEW i \in k .. (k + (n + 1))
        PROVE  g[i] = Step(g, i)
    <3>1. i = k \/ g[i - 1] = f[i - 1]
      <4> HIDE DEF Step
      <4>1. QED  BY <2>1
    <3>2. Step(g, i) = Step(f, i)
      <4> HIDE DEF g
      <4>1. QED  BY <3>1
    <3> HIDE DEF Step
    <3>3. g[i] = Step(f, i)
      <4>1. CASE i = k + (n + 1)
        BY <4>1
      <4>2. CASE i # k + (n + 1)
        <5>1. i \in k .. (k + n)
          BY <2>1, <4>2
        <5>2. f[i] = Step(f, i)
          BY <2>2, <5>1
        <5>3. QED  BY <4>2, <5>2
      <4>3. QED  BY <4>1, <4>2
    <3>4. QED  BY <3>2, <3>3
  <2>4. g = [i \in k .. (k + (n + 1)) |-> Step(g, i)]
    <3>1. g = [i \in k .. (k + (n + 1)) |-> g[i]]
      <4> HIDE DEF Step
      <4>1. QED  OBVIOUS
    <3> HIDE DEF g, Step
    <3>2. QED  BY <2>3, <3>1
  <2> HIDE DEF g, Step
  <2>5. P(n + 1)
    BY <2>4
  <2>6. QED  BY <2>1, <2>5
<1> HIDE DEF Step
<1>3. Works = Nat
  <2>1. Works \in SUBSET Nat
    OBVIOUS
  <2> HIDE DEF Works
  <2>2. QED  BY <1>1, <1>2, <2>1, SetInduction
<1>4. \E f : f = [n \in k .. L |-> Step(f, n)]
  <2>1. CASE k <= L
    <3>1. L - k \in Works /\ k + (L - k) = L
      <4> HIDE DEF Works
      <4>1. QED  BY <1>3, <2>1
    <3>2. P(L - k)
      BY <3>1
    <3>3. QED  BY <3>1, <3>2
  <2>2. CASE ~(k <= L)
    <3>1. \A i \in k .. L : FALSE
      BY <2>2
    <3>2. [n \in k .. L |-> 0] = [n \in k .. L |-> Step([m \in k .. L |-> 0], n)]
      BY <3>1
    <3>3. QED  BY <3>2
  <2>3. QED  BY <2>1, <2>2
<1>5. F = [n \in k .. L |-> Step(F, n)]
  BY <1>4, Zenon DEF F
<1>6. F = Made(d, words)
  BY Zenon DEF Step, Start, Made
<1>7. QED  BY <1>5, <1>6, Zenon DEF Step, Start

\* Words are numbered from 1.
IsText(words) ==
  /\ Len(words) \in Nat \ {0} /\ DOMAIN words = 1 .. Len(words)
  /\ \A n \in 1 .. Len(words) : words[n].name \in Names

\* Of the words before the last those after the known ones find nothing.
LEMMA KnownFacts ==
  ASSUME NEW d, NEW words, IsText(words)
  PROVE  /\ Known(d, words) \in Nat /\ Known(d, words) < Len(words)
         /\ Known(d, words) # 0 => ChainFound(d, words)[Known(d, words)] # {}
         /\ \A n \in Known(d, words) + 1 .. Len(words) - 1 : ChainFound(d, words)[n] = {}
<1> DEFINE some == {n \in 1 .. Len(words) - 1 : ChainFound(d, words)[n] # {}}
           S == {0} \cup some
<1>1. Len(words) \in Nat \ {0}
  BY DEF IsText
<1>2. S \in SUBSET Nat /\ S # {}
  BY <1>1
<1>3. \A s \in S : s <= Len(words)
  BY <1>1
<1>4. Known(d, words) = Max(S)
  BY DEF Known
<1>5. IsFiniteSet(S)
  <2> HIDE DEF S
  <2>1. QED  BY <1>1, <1>2, <1>3, FS_BoundedSetOfNaturals
<1>6. Max(S) \in S /\ \A s \in S : s <= Max(S)
  <2> HIDE DEF S
  <2>1. QED  BY <1>2, <1>5, MaxIsGreatest
<1>7. Max(S) \in Nat /\ (Max(S) = 0 \/ Max(S) \in some)
  BY <1>2, <1>6
<1>8. Max(S) < Len(words) /\ (Max(S) # 0 => ChainFound(d, words)[Max(S)] # {})
  <2>1. CASE Max(S) = 0
    BY <1>1, <2>1
  <2>2. CASE Max(S) \in some
    <3> DEFINE m == Max(S)
    <3>1. m \in some
      BY <2>2
    <3> HIDE DEF m
    <3>2. m < Len(words) /\ ChainFound(d, words)[m] # {}
      BY <1>1, <3>1
    <3>3. QED  BY <3>2 DEF m
  <2>3. QED  BY <1>7, <2>1, <2>2
<1>9. ASSUME NEW n \in Max(S) + 1 .. Len(words) - 1
      PROVE  ChainFound(d, words)[n] = {}
  <2> DEFINE m == Max(S)
  <2>1. m \in Nat /\ n \in m + 1 .. Len(words) - 1
    BY <1>7
  <2>2. \A s \in some : s <= m
    BY <1>6
  <2> HIDE DEF m
  <2>3. n \in 1 .. Len(words) - 1 /\ ~(n <= m)
    BY <1>1, <2>1
  <2>4. n \notin some
    <3> HIDE DEF some
    <3>1. QED  BY <2>2, <2>3
  <2>5. QED  BY <2>3, <2>4
<1>10. QED  BY <1>4, <1>7, <1>8, <1>9

\* Defining starts from what is known,
LEMMA MadeFirst ==
  ASSUME NEW d, NEW words, IsText(words)
  PROVE  Made(d, words)[Known(d, words)] =
           [tags |-> d, tag |-> IF Known(d, words) = 0 THEN 0
                                ELSE CHOOSE t \in ChainFound(d, words)[Known(d, words)] : TRUE]
<1> DEFINE L == Len(words)
           k == Known(d, words)
<1>1. L \in Nat /\ k \in Nat /\ k < L
  BY KnownFacts DEF IsText
<1>2. k \in k .. L
  BY <1>1
<1>3. Made(d, words) =
        [n \in k .. L |->
           IF n = k
           THEN [tags |-> d, tag |-> IF n = 0 THEN 0 ELSE CHOOSE t \in ChainFound(d, words)[n] : TRUE]
           ELSE DefineChild(Made(d, words)[n - 1].tags, words[n], Made(d, words)[n - 1].tag)]
  <2> HIDE DEF L, k
  <2>1. Len(words) = L /\ Known(d, words) = k
    BY DEF L, k
  <2>2. QED  BY <1>1, <2>1, MadeDef
<1> HIDE DEF L, k
<1>4. Made(d, words)[k] =
        [tags |-> d, tag |-> IF k = 0 THEN 0 ELSE CHOOSE t \in ChainFound(d, words)[k] : TRUE]
  BY <1>2, <1>3
<1>5. QED  BY <1>4 DEF k

\* and goes on word by word.
LEMMA MadeNext ==
  ASSUME NEW d, NEW words, IsText(words), NEW n \in Nat, Known(d, words) <= n, n < Len(words)
  PROVE  Made(d, words)[n + 1] =
           DefineChild(Made(d, words)[n].tags, words[n + 1], Made(d, words)[n].tag)
<1> DEFINE L == Len(words)
           k == Known(d, words)
<1>1. L \in Nat /\ k \in Nat /\ k < L
  BY KnownFacts DEF IsText
<1>2. n + 1 \in k .. L /\ n + 1 # k /\ n + 1 - 1 = n
  BY <1>1
<1>3. Made(d, words) =
        [m \in k .. L |->
           IF m = k
           THEN [tags |-> d, tag |-> IF m = 0 THEN 0 ELSE CHOOSE t \in ChainFound(d, words)[m] : TRUE]
           ELSE DefineChild(Made(d, words)[m - 1].tags, words[m], Made(d, words)[m - 1].tag)]
  <2> HIDE DEF L, k
  <2>1. Len(words) = L /\ Known(d, words) = k
    BY DEF L, k
  <2>2. QED  BY <1>1, <2>1, MadeDef
<1> HIDE DEF L, k
<1>4. Made(d, words)[n + 1] = DefineChild(Made(d, words)[n + 1 - 1].tags, words[n + 1], Made(d, words)[n + 1 - 1].tag)
  <2>1. \A f : f = [m \in k .. L |->
           IF m = k
           THEN [tags |-> d, tag |-> IF m = 0 THEN 0 ELSE CHOOSE t \in ChainFound(d, words)[m] : TRUE]
           ELSE DefineChild(Made(d, words)[m - 1].tags, words[m], Made(d, words)[m - 1].tag)]
         => f[n + 1] = DefineChild(Made(d, words)[n + 1 - 1].tags, words[n + 1], Made(d, words)[n + 1 - 1].tag)
    BY <1>2
  <2>2. QED  BY <1>3, <2>1, Zenon
<1>5. QED  BY <1>2, <1>4

\* Branch(d, e, words, made, k, n): e is d with a branch of new tags, one for
\* each word after the first k, which ends in the tag made for word n.
Branch(d, words, made, k, n) ==
  LET e == made[n].tags IN
  /\ More(d, e) /\ IsTree(e)
  /\ \A j \in k + 1 .. n : /\ made[j].tag \in Ids(e) /\ made[j].tag \notin Ids(d)
                           /\ Name(e, made[j].tag) = NormalCase(words[j].name)
                           /\ Parent(e, made[j].tag) = made[j - 1].tag
  /\ \A t \in Ids(e) : t \in Ids(d) \/ \E j \in k + 1 .. n : t = made[j].tag
  /\ made[n].tag \in Ids(e) \cup {0}
  /\ n > k => made[n].tag # 0 /\ \A t \in Ids(e) : t <= made[n].tag

\* A word that is not found below a tag names none of its children.
LEMMA NotFoundIsVacant ==
  ASSUME NEW d, NEW words, NEW L \in Nat, DOMAIN words = 1 .. L, NEW n \in 1 .. L,
         ChainFound(d, words)[n] = {}, NEW parent,
         n # 1 => parent \in ChainFound(d, words)[n - 1]
  PROVE  Vacant(d, words[n].name, parent)
<1> SUFFICES ASSUME NEW t \in Ids(d), Lower[Name(d, t)] = Lower[words[n].name], Parent(d, t) = parent
             PROVE  FALSE
  BY DEF Vacant
<1>1. t \in FindAll(d, words[n].name)
  BY DEF FindAll
<1>2. t \in FindAllOrAbbreviated(d, words[n])
  BY <1>1 DEF FindAllOrAbbreviated
<1>3. QED  BY <1>2, FoundByWords

\* One more word makes the branch longer by one tag.
LEMMA BranchGrows ==
  ASSUME NEW d, NEW words, NEW made, NEW k \in Nat, NEW n \in Nat, k <= n,
         words[n + 1].name \in Names, Branch(d, words, made, k, n),
         Vacant(made[n].tags, words[n + 1].name, made[n].tag),
         made[n + 1] = DefineChild(made[n].tags, words[n + 1], made[n].tag)
  PROVE  Branch(d, words, made, k, n + 1)
<1> DEFINE e == made[n].tags
           tag == made[n].tag
           name == NormalCase(words[n + 1].name)
           f == made[n + 1].tags
           new == made[n + 1].tag
<1>0. Free(e, name, tag) /\ name \in Names
  BY NormalNames, VacantIsFree
<1>1. Find(e, name, tag) = {}
  BY <1>0 DEF Find, Free
<1>2. made[n + 1] = InsertTag(e, name, tag)
  BY <1>1 DEF DefineChild
<1>3. /\ More(d, e) /\ IsTree(e) /\ tag \in Ids(e) \cup {0}
      /\ \A j \in k + 1 .. n : /\ made[j].tag \in Ids(e) /\ made[j].tag \notin Ids(d)
                               /\ Name(e, made[j].tag) = NormalCase(words[j].name)
                               /\ Parent(e, made[j].tag) = made[j - 1].tag
      /\ \A t \in Ids(e) : t \in Ids(d) \/ \E j \in k + 1 .. n : t = made[j].tag
  BY DEF Branch
<1>4. f = InsertTag(e, name, tag).tags /\ new = InsertTag(e, name, tag).tag
  BY <1>2
<1> HIDE DEF e, tag, name, f, new
<1>5. Free(e, name, tag) /\ name \in Names
  BY <1>0 DEF e, name, tag
<1>6. /\ More(e, f) /\ IsTree(f)
      /\ new \notin Ids(e) /\ new # 0 /\ Ids(f) = Ids(e) \cup {new}
      /\ Name(f, new) = name /\ Parent(f, new) = tag
      /\ \A t \in Ids(f) : t <= new
  BY <1>3, <1>4, <1>5, InsertedTag
<1>7. More(d, f)
  BY <1>3, <1>6, MoreOfMore
<1>8. Ids(d) \subseteq Ids(e)
  BY <1>3 DEF More
<1>9. \A j \in k + 1 .. n + 1 : j \in k + 1 .. n \/ j = n + 1
  OBVIOUS
<1>10. n + 1 \in k + 1 .. n + 1 /\ k + 1 .. n \subseteq k + 1 .. n + 1 /\ n + 1 - 1 = n /\ n + 1 > k
  OBVIOUS
<1>11. ASSUME NEW j \in k + 1 .. n + 1
       PROVE  /\ made[j].tag \in Ids(f) /\ made[j].tag \notin Ids(d)
              /\ Name(f, made[j].tag) = NormalCase(words[j].name)
              /\ Parent(f, made[j].tag) = made[j - 1].tag
  <2>1. CASE j \in k + 1 .. n
    <3>1. /\ made[j].tag \in Ids(e) /\ made[j].tag \notin Ids(d)
          /\ Name(e, made[j].tag) = NormalCase(words[j].name)
          /\ Parent(e, made[j].tag) = made[j - 1].tag
      BY <1>3, <2>1
    <3>2. QED  BY <1>6, <3>1 DEF More
  <2>2. CASE j = n + 1
    <3>1. made[j].tag = new /\ NormalCase(words[j].name) = name /\ made[j - 1].tag = tag
      BY <1>10, <2>2 DEF new, name, tag
    <3>2. QED  BY <1>6, <1>8, <3>1
  <2>3. QED  BY <1>9, <2>1, <2>2
<1>12. ASSUME NEW t \in Ids(f), t \notin Ids(d)
       PROVE  \E j \in k + 1 .. n + 1 : t = made[j].tag
  <2>1. CASE t = new
    BY <1>10, <2>1 DEF new
  <2>2. CASE t \in Ids(e)
    BY <1>3, <1>10, <1>12, <2>2
  <2>3. QED  BY <1>6, <2>1, <2>2
<1>13. QED  BY <1>6, <1>7, <1>11, <1>12 DEF Branch, f, new

\* A text that may be new: what is known of it is one tag, or nothing.
Novel(d, words) ==
  /\ IsText(words)
  /\ ChainFound(d, words)[Len(words)] = {}
  /\ Known(d, words) = 0 \/ Cardinality(ChainFound(d, words)[Known(d, words)]) = 1

\* What words find are tags that are there.
LEMMA FoundAreTags ==
  ASSUME NEW d, NEW words, NEW L \in Nat, DOMAIN words = 1 .. L, NEW n \in 1 .. L
  PROVE  ChainFound(d, words)[n] \subseteq Ids(d)
BY FoundByWords, FindsTags

\* A text that may be new starts from nothing or from one tag.
LEMMA NovelFacts ==
  ASSUME NEW d, NEW words, IsTree(d), Novel(d, words)
  PROVE  LET k == Known(d, words)
             top == Made(d, words)[k].tag
         IN  /\ k \in Nat /\ k < Len(words)
             /\ Made(d, words)[k].tags = d
             /\ k = 0 => top = 0
             /\ k # 0 => top \in Ids(d) /\ ChainFound(d, words)[k] = {top}
             /\ \A n \in k + 1 .. Len(words) : ChainFound(d, words)[n] = {}
<1> DEFINE L == Len(words)
           k == Known(d, words)
           found == ChainFound(d, words)[k]
           top == Made(d, words)[k].tag
<1>1. L \in Nat \ {0} /\ DOMAIN words = 1 .. L /\ IsText(words)
  BY DEF Novel, IsText
<1>2. k \in Nat /\ k < L
  BY <1>1, KnownFacts
<1>3. Made(d, words)[k] = [tags |-> d, tag |-> IF k = 0 THEN 0 ELSE CHOOSE t \in found : TRUE]
  BY <1>1, MadeFirst
<1>4. Made(d, words)[k].tags = d /\ top = IF k = 0 THEN 0 ELSE CHOOSE t \in found : TRUE
  <2> HIDE DEF k, found
  <2>1. QED  BY <1>3 DEF top
<1>5. ASSUME k # 0
      PROVE  top \in Ids(d) /\ found = {top}
  <2>1. k \in 1 .. L
    BY <1>2, <1>5
  <2>2. found \subseteq Ids(d)
    <3> HIDE DEF L, k
    <3>1. QED  BY <1>1, <2>1, FoundAreTags
  <2>3. IsFiniteSet(found)
    <3> HIDE DEF found
    <3>1. QED  BY <2>2, FS_Subset DEF IsTree
  <2>4. PICK x : found = {x}
    <3>1. Cardinality(found) = 1
      BY <1>5 DEF Novel
    <3> HIDE DEF found
    <3>2. QED  BY <2>3, <3>1, FS_Singleton
  <2> HIDE DEF found, top
  <2>5. top = x
    <3>1. (CHOOSE t \in found : TRUE) = x
      BY <2>4
    <3>2. QED  BY <1>4, <1>5, <3>1
  <2>6. QED  BY <2>2, <2>4, <2>5
<1>6. ASSUME NEW n \in k + 1 .. L
      PROVE  ChainFound(d, words)[n] = {}
  <2>1. CASE n = L
    BY <2>1 DEF Novel
  <2>2. CASE n # L
    <3> HIDE DEF L, k
    <3>1. n \in k + 1 .. L - 1
      BY <1>1, <1>2, <1>6, <2>2
    <3>2. QED  BY <1>1, <3>1, KnownFacts DEF L, k
  <2>3. QED  BY <2>1, <2>2
<1>7. QED  BY <1>2, <1>4, <1>5, <1>6

\* Defining a text adds a branch, one tag for each word that is not known.
LEMMA DefinesBranch ==
  ASSUME NEW d, NEW words, IsTree(d), Novel(d, words)
  PROVE  Branch(d, words, Made(d, words), Known(d, words), Len(words))
<1> DEFINE L == Len(words)
           k == Known(d, words)
           made == Made(d, words)
           S == {n \in Nat : k + n <= L => Branch(d, words, made, k, k + n)}
<1>1. L \in Nat \ {0} /\ DOMAIN words = 1 .. L /\ IsText(words)
  BY DEF Novel, IsText
<1>2. /\ k \in Nat /\ k < L /\ made[k].tags = d
      /\ k = 0 => made[k].tag = 0
      /\ k # 0 => made[k].tag \in Ids(d) /\ ChainFound(d, words)[k] = {made[k].tag}
      /\ \A n \in k + 1 .. L : ChainFound(d, words)[n] = {}
  BY NovelFacts
<1>3. \A n \in Nat : k <= n /\ n < L => made[n + 1] = DefineChild(made[n].tags, words[n + 1], made[n].tag)
  BY <1>1, MadeNext
<1> HIDE DEF L, k, made
<1>4. Branch(d, words, made, k, k)
  <2>1. \A j \in k + 1 .. k : FALSE
    BY <1>2
  <2>2. More(d, d)
    BY MoreOfItself
  <2>3. made[k].tag \in Ids(d) \cup {0} /\ ~(k > k)
    BY <1>2
  <2>4. QED  BY <1>2, <2>1, <2>2, <2>3 DEF Branch
<1>5. 0 \in S
  <2>1. k + 0 = k
    BY <1>2
  <2>2. QED  BY <1>4, <2>1
<1>6. ASSUME NEW n \in Nat, k + n < L, Branch(d, words, made, k, k + n)
      PROVE  Branch(d, words, made, k, k + n + 1)
  <2> DEFINE m == k + n
             e == made[m].tags
             tag == made[m].tag
  <2>1. m \in Nat /\ k <= m /\ m < L /\ m + 1 \in 1 .. L /\ m + 1 \in k + 1 .. L
    BY <1>1, <1>2, <1>6
  <2>2. Branch(d, words, made, k, m)
    BY <1>6
  <2> HIDE DEF m
  <2>3. Vacant(e, words[m + 1].name, tag)
    <3>1. CASE m = k
      <4>1. e = d
        BY <1>2, <3>1
      <4>2. PICK i \in 1 .. L : i = m + 1
        BY <2>1
      <4>3. i \in k + 1 .. L /\ i - 1 = k /\ (i # 1 => k # 0)
        BY <1>2, <2>1, <3>1, <4>2
      <4>4. i # 1 => tag \in ChainFound(d, words)[i - 1]
        BY <1>2, <3>1, <4>3
      <4>5. ChainFound(d, words)[i] = {} /\ L \in Nat /\ DOMAIN words = 1 .. L
        BY <1>1, <1>2, <4>3
      <4> HIDE DEF e, tag
      <4>6. Vacant(d, words[i].name, tag)
        BY <4>4, <4>5, NotFoundIsVacant
      <4>7. QED  BY <4>1, <4>2, <4>6
    <3>2. CASE m # k
      <4>1. tag # 0 /\ \A t \in Ids(e) : t <= tag
        BY <1>2, <2>1, <2>2, <3>2 DEF Branch
      <4>2. IsTree(e) /\ tag \in Ids(e)
        BY <2>2, <4>1 DEF Branch
      <4>3. tag \in Nat
        BY <4>2, TreeFacts
      <4>4. \A t \in Ids(e) : Parent(e, t) # tag
        <5> HIDE DEF e, tag
        <5>1. QED  BY <4>1, <4>2, <4>3, TreeFacts
      <4>5. QED  BY <4>4 DEF Vacant
    <3>3. QED  BY <3>1, <3>2
  <2>4. made[m + 1] = DefineChild(e, words[m + 1], tag)
    BY <1>3, <2>1
  <2>5. Branch(d, words, made, k, m + 1)
    <3>1. words[m + 1].name \in Names
      BY <1>1, <2>1 DEF IsText, L
    <3>2. QED  BY <1>2, <2>1, <2>2, <2>3, <2>4, <3>1, BranchGrows
  <2>6. QED  BY <2>5 DEF m
<1>7. ASSUME NEW n \in S
      PROVE  n + 1 \in S
  <2>1. n \in Nat /\ (k + n <= L => Branch(d, words, made, k, k + n))
    OBVIOUS
  <2>2. ASSUME k + (n + 1) <= L
        PROVE  Branch(d, words, made, k, k + (n + 1))
    <3>1. n \in Nat /\ k + n < L /\ k + n <= L /\ k + (n + 1) = k + n + 1
      BY <1>1, <1>2, <2>1, <2>2
    <3>2. Branch(d, words, made, k, k + n)
      BY <2>1, <3>1
    <3> HIDE DEF S
    <3>3. Branch(d, words, made, k, k + n + 1)
      BY <1>6, <3>1, <3>2
    <3>4. QED  BY <3>1, <3>3
  <2>3. QED  BY <2>1, <2>2
<1>8. S = Nat
  <2>1. S \in SUBSET Nat
    OBVIOUS
  <2> HIDE DEF S
  <2>2. QED  BY <1>5, <1>7, <2>1, SetInduction
<1>9. L - k \in S
  <2> HIDE DEF S
  <2>1. L - k \in Nat
    BY <1>1, <1>2
  <2>2. QED  BY <1>8, <2>1
<1>10. k + (L - k) = L
  BY <1>1, <1>2
<1>11. Branch(d, words, made, k, L)
  BY <1>1, <1>2, <1>9, <1>10
<1>12. QED  BY <1>11 DEF L, k, made

\* A word finds no old tag that it did not find before.
LEMMA OldAreFoundAsBefore ==
  ASSUME NEW d, NEW e, More(d, e), NEW word, NEW t \in Ids(d),
         t \in FindAllOrAbbreviated(e, word)
  PROVE  t \in FindAllOrAbbreviated(d, word)
<1>1. FindAll(d, word.name) \subseteq FindAll(e, word.name)
  BY DEF FindAll, More
<1>2. t \in FindAll(e, word.name) => t \in FindAll(d, word.name)
  BY DEF FindAll, More
<1>3. t \in FindAbbreviated(e, word.name) => t \in FindAbbreviated(d, word.name)
  BY <1>2 DEF FindAbbreviated, More
<1>4. QED  BY <1>1, <1>2, <1>3 DEF FindAllOrAbbreviated

\* A word still finds what it found unless its name is new.
LEMMA StillFound ==
  ASSUME NEW d, NEW e, More(d, e), NEW word, NEW t \in FindAllOrAbbreviated(d, word),
         ~word.exact /\ FindAll(d, word.name) = {} => FindAll(e, word.name) = {}
  PROVE  t \in FindAllOrAbbreviated(e, word)
<1>1. FindAll(d, word.name) \subseteq FindAll(e, word.name)
  BY DEF FindAll, More
<1>2. FindAbbreviated(d, word.name) \subseteq FindAbbreviated(e, word.name)
  BY <1>1 DEF FindAbbreviated, More
<1>3. QED  BY <1>1, <1>2 DEF FindAllOrAbbreviated

\* Of the old tags the first words of a text find none that they did not find.
LEMMA FoundBefore ==
  ASSUME NEW d, NEW e, IsTree(d), IsTree(e), More(d, e),
         NEW words, NEW L \in Nat, DOMAIN words = 1 .. L
  PROVE  \A n \in 1 .. L : ChainFound(e, words)[n] \cap Ids(d) \subseteq ChainFound(d, words)[n]
<1> DEFINE Good(n) == ChainFound(e, words)[n] \cap Ids(d) \subseteq ChainFound(d, words)[n]
           S == {n \in Nat : n + 1 <= L => Good(n + 1)}
<1>1. ASSUME NEW n \in 1 .. L, n # 1 => Good(n - 1)
      PROVE  Good(n)
  <2>1. SUFFICES ASSUME NEW t \in Ids(d), t \in ChainFound(e, words)[n]
                 PROVE  t \in ChainFound(d, words)[n]
    OBVIOUS
  <2>2. t \in FindAllOrAbbreviated(d, words[n])
    <3>1. t \in FindAllOrAbbreviated(e, words[n])
      BY <2>1, FoundByWords
    <3>2. QED  BY <3>1, OldAreFoundAsBefore
  <2>3. n # 1 => Parent(d, t) \in ChainFound(d, words)[n - 1]
    <3>1. SUFFICES ASSUME n # 1
                   PROVE  Parent(d, t) \in ChainFound(d, words)[n - 1]
      OBVIOUS
    <3>2. Parent(e, t) \in ChainFound(e, words)[n - 1]
      BY <2>1, <3>1, FoundByWords
    <3>3. Parent(e, t) = Parent(d, t)
      BY DEF More
    <3>4. n - 1 \in 1 .. L
      BY <3>1
    <3>5. ChainFound(e, words)[n - 1] \subseteq Ids(e)
      BY <3>4, FoundAreTags
    <3>6. Parent(d, t) # 0
      BY <3>2, <3>3, <3>5 DEF IsTree
    <3>7. Parent(d, t) \in Ids(d)
      BY <3>6, TreeFacts
    <3>8. QED  BY <1>1, <3>1, <3>2, <3>3, <3>7
  <2>4. QED  BY <2>2, <2>3, FoundByWords
<1> HIDE DEF Good
<1>2. 0 \in S
  <2>1. 1 <= L => Good(1)
    BY <1>1
  <2>2. QED  BY <2>1
<1>3. ASSUME NEW n \in S
      PROVE  n + 1 \in S
  <2>1. n \in Nat /\ (n + 1 <= L => Good(n + 1))
    OBVIOUS
  <2>2. ASSUME n + 2 <= L
        PROVE  Good(n + 2)
    <3>1. n + 2 \in 1 .. L /\ n + 2 - 1 = n + 1 /\ n + 1 <= L
      BY <2>1, <2>2
    <3>2. QED  BY <1>1, <2>1, <3>1
  <2>3. n + 1 + 1 = n + 2
    BY <2>1
  <2>4. QED  BY <2>1, <2>2, <2>3
<1>4. S = Nat
  <2>1. S \in SUBSET Nat
    OBVIOUS
  <2> HIDE DEF S
  <2>2. QED  BY <1>2, <1>3, <2>1, SetInduction
<1>5. ASSUME NEW n \in 1 .. L
      PROVE  Good(n)
  <2>1. n - 1 \in Nat /\ n - 1 + 1 = n /\ n <= L
    OBVIOUS
  <2>2. n - 1 \in S
    <3> HIDE DEF S
    <3>1. QED  BY <1>4, <2>1
  <2>3. QED  BY <2>1, <2>2
<1>6. QED  BY <1>5 DEF Good

\* What the known words found they still find, unless the text takes it away.
LEMMA FoundStill ==
  ASSUME NEW d, NEW e, More(d, e), NEW words, NEW L \in Nat, DOMAIN words = 1 .. L,
         NEW k \in 0 .. L,
         \A i \in 1 .. k : ~words[i].exact /\ FindAll(d, words[i].name) = {}
                             => FindAll(e, words[i].name) = {}
  PROVE  \A n \in 1 .. k : ChainFound(d, words)[n] \subseteq ChainFound(e, words)[n]
<1> DEFINE Good(n) == ChainFound(d, words)[n] \subseteq ChainFound(e, words)[n]
           S == {n \in Nat : n + 1 <= k => Good(n + 1)}
<1>1. ASSUME NEW n \in 1 .. k, n # 1 => Good(n - 1)
      PROVE  Good(n)
  <2>1. SUFFICES ASSUME NEW t \in ChainFound(d, words)[n]
                 PROVE  t \in ChainFound(e, words)[n]
    OBVIOUS
  <2>2. n \in 1 .. L
    OBVIOUS
  <2>3. /\ t \in FindAllOrAbbreviated(d, words[n])
        /\ n = 1 \/ Parent(d, t) \in ChainFound(d, words)[n - 1]
    BY <2>1, <2>2, FoundByWords
  <2>4. t \in FindAllOrAbbreviated(e, words[n])
    BY <2>3, StillFound
  <2>5. Parent(e, t) = Parent(d, t)
    BY <2>3, FindsTags DEF More
  <2>6. n = 1 \/ Parent(e, t) \in ChainFound(e, words)[n - 1]
    BY <1>1, <2>3, <2>5
  <2>7. QED  BY <2>2, <2>4, <2>6, FoundByWords
<1> HIDE DEF Good
<1>2. 0 \in S
  <2>1. 1 <= k => Good(1)
    BY <1>1
  <2>2. QED  BY <2>1
<1>3. ASSUME NEW n \in S
      PROVE  n + 1 \in S
  <2>1. n \in Nat /\ (n + 1 <= k => Good(n + 1))
    OBVIOUS
  <2>2. ASSUME n + 2 <= k
        PROVE  Good(n + 2)
    <3>1. n + 2 \in 1 .. k /\ n + 2 - 1 = n + 1 /\ n + 1 <= k
      BY <2>1, <2>2
    <3>2. QED  BY <1>1, <2>1, <3>1
  <2>3. n + 1 + 1 = n + 2
    BY <2>1
  <2>4. QED  BY <2>1, <2>2, <2>3
<1>4. S = Nat
  <2>1. S \in SUBSET Nat
    OBVIOUS
  <2> HIDE DEF S
  <2>2. QED  BY <1>2, <1>3, <2>1, SetInduction
<1>5. ASSUME NEW n \in 1 .. k
      PROVE  Good(n)
  <2>1. n - 1 \in Nat /\ n - 1 + 1 = n /\ n <= k
    OBVIOUS
  <2>2. n - 1 \in S
    <3> HIDE DEF S
    <3>1. QED  BY <1>4, <2>1
  <2>3. QED  BY <2>1, <2>2
<1>6. QED  BY <1>5 DEF Good

\* A text that has been defined finds the tag made for it and no other, unless
\* it takes away its own abbreviation.
LEMMA DefinedIsFound ==
  ASSUME NEW d, NEW words, IsTree(d), Novel(d, words), ~TakesAway(d, words)
  PROVE  LET made == Made(d, words)[Len(words)]
         IN  ChainFound(made.tags, words)[Len(words)] = {made.tag}
<1> DEFINE L == Len(words)
           k == Known(d, words)
           made == Made(d, words)
           e == made[L].tags
           found(n) == ChainFound(e, words)[n]
<1>1. L \in Nat \ {0} /\ DOMAIN words = 1 .. L
  BY DEF Novel, IsText
<1>2. /\ k \in Nat /\ k < L
      /\ k = 0 => made[k].tag = 0
      /\ k # 0 => made[k].tag \in Ids(d) /\ ChainFound(d, words)[k] = {made[k].tag}
      /\ \A n \in k + 1 .. L : ChainFound(d, words)[n] = {}
  BY NovelFacts
<1>0. \A n \in 1 .. L : words[n].name \in Names
  BY DEF Novel, IsText
<1>3. Branch(d, words, made, k, L)
  BY DefinesBranch
<1>4. \A i \in 1 .. k, n \in k + 1 .. L :
         ~(~words[i].exact /\ Lower[words[i].name] = Lower[words[n].name] /\ FindAll(d, words[i].name) = {})
  BY DEF TakesAway
<1> HIDE DEF L, k, made
<1>5. /\ More(d, e) /\ IsTree(e)
      /\ \A j \in k + 1 .. L : /\ made[j].tag \in Ids(e) /\ made[j].tag \notin Ids(d)
                               /\ Lower[Name(e, made[j].tag)] = Lower[words[j].name]
                               /\ Parent(e, made[j].tag) = made[j - 1].tag
      /\ \A t \in Ids(e) : t \in Ids(d) \/ \E j \in k + 1 .. L : t = made[j].tag
  <2>1. \A j \in k + 1 .. L : Lower[NormalCase(words[j].name)] = Lower[words[j].name]
    BY <1>1, <1>2, <1>0, NormalNames
  <2>2. QED  BY <1>3, <2>1 DEF Branch
<1> HIDE DEF e
<1>6. \A n \in 1 .. L : \A t : t \in found(n) <=>
        t \in FindAllOrAbbreviated(e, words[n]) /\ (n = 1 \/ Parent(e, t) \in found(n - 1))
  BY <1>1, FoundByWords
<1>7. \A n \in 1 .. L : found(n) \subseteq Ids(e)
  BY <1>1, FoundAreTags
<1>8. \A n \in 1 .. L : found(n) \cap Ids(d) \subseteq ChainFound(d, words)[n]
  BY <1>1, <1>5, FoundBefore
<1>9. \A n \in 1 .. k : ChainFound(d, words)[n] \subseteq found(n)
  <2>1. ASSUME NEW i \in 1 .. k, ~words[i].exact, FindAll(d, words[i].name) = {},
               NEW t \in FindAll(e, words[i].name)
        PROVE  FALSE
    <3>1. t \in Ids(e) /\ Lower[Name(e, t)] = Lower[words[i].name]
      BY DEF FindAll
    <3>2. t \notin Ids(d)
      BY <2>1, <3>1, <1>5 DEF FindAll, More
    <3>3. PICK j \in k + 1 .. L : t = made[j].tag
      BY <1>5, <3>1, <3>2
    <3>4. Lower[Name(e, t)] = Lower[words[j].name]
      BY <1>5, <3>3
    <3>5. QED  BY <1>4, <2>1, <3>1, <3>4
  <2>2. \A i \in 1 .. k : ~words[i].exact /\ FindAll(d, words[i].name) = {}
                            => FindAll(e, words[i].name) = {}
    BY <2>1
  <2>3. k \in 0 .. L /\ L \in Nat
    BY <1>1, <1>2
  <2>4. QED  BY <1>1, <1>5, <2>2, <2>3, FoundStill
<1> HIDE DEF found
\* Each tag of the branch is found by the words up to its own.
<1>10. made[L].tag \in found(L)
  <2> DEFINE S == {n \in Nat : k + n + 1 <= L => made[k + n + 1].tag \in found(k + n + 1)}
  <2>1. ASSUME NEW j \in k + 1 .. L, j # 1 => made[j - 1].tag \in found(j - 1)
        PROVE  made[j].tag \in found(j)
    <3>1. made[j].tag \in Ids(e) /\ Lower[Name(e, made[j].tag)] = Lower[words[j].name]
          /\ Parent(e, made[j].tag) = made[j - 1].tag
      BY <1>5
    <3>2. made[j].tag \in FindAllOrAbbreviated(e, words[j])
      BY <3>1 DEF FindAllOrAbbreviated, FindAll
    <3>3. j \in 1 .. L
      BY <1>1, <1>2
    <3>4. QED  BY <1>6, <2>1, <3>1, <3>2, <3>3
  <2>2. 0 \in S
    <3>1. k + 0 + 1 = k + 1 /\ k + 1 \in k + 1 .. L /\ k + 1 - 1 = k
      BY <1>1, <1>2
    <3>2. k + 1 # 1 => made[k].tag \in found(k)
      <4>1. SUFFICES ASSUME k # 0
                     PROVE  made[k].tag \in found(k)
        BY <1>2
      <4>2. k \in 1 .. k
        BY <1>2, <4>1
      <4>3. made[k].tag \in ChainFound(d, words)[k]
        BY <1>2, <4>1
      <4>4. QED  BY <1>9, <4>2, <4>3
    <3>3. made[k + 1].tag \in found(k + 1)
      <4> DEFINE j == k + 1
      <4>1. j \in k + 1 .. L /\ j - 1 = k
        <5>1. k \in Nat /\ L \in Nat /\ k < L
          BY <1>1, <1>2
        <5>2. QED  BY <5>1
      <4>2. j # 1 => made[j - 1].tag \in found(j - 1)
        BY <3>2, <4>1
      <4> HIDE DEF j
      <4>3. made[j].tag \in found(j)
        BY <2>1, <4>1, <4>2
      <4>4. QED  BY <4>3 DEF j
    <3>4. QED  BY <3>1, <3>3
  <2>3. ASSUME NEW n \in S
        PROVE  n + 1 \in S
    <3>1. n \in Nat /\ (k + n + 1 <= L => made[k + n + 1].tag \in found(k + n + 1))
      OBVIOUS
    <3>2. ASSUME k + (n + 1) + 1 <= L
          PROVE  made[k + (n + 1) + 1].tag \in found(k + (n + 1) + 1)
      <4> DEFINE j == k + (n + 1) + 1
      <4>1. j \in k + 1 .. L /\ j - 1 = k + n + 1 /\ k + n + 1 <= L
        BY <1>1, <1>2, <3>1, <3>2
      <4>2. made[j - 1].tag \in found(j - 1)
        BY <3>1, <4>1
      <4> HIDE DEF j
      <4>3. made[j].tag \in found(j)
        BY <2>1, <4>1, <4>2
      <4>4. QED  BY <4>3 DEF j
    <3>3. QED  BY <3>1, <3>2
  <2>4. S = Nat
    <3>1. S \in SUBSET Nat
      OBVIOUS
    <3> HIDE DEF S
    <3>2. QED  BY <2>2, <2>3, <3>1, SetInduction
  <2>5. L - k - 1 \in Nat /\ k + (L - k - 1) + 1 = L
    BY <1>1, <1>2
  <2>6. L - k - 1 \in S
    <3> HIDE DEF S
    <3>1. QED  BY <2>4, <2>5
  <2>7. QED  BY <1>1, <2>5, <2>6
\* No tag of the branch is found by more words than up to its own.
<1>11. ASSUME NEW j \in k .. L, NEW n \in 1 .. L, n > j
       PROVE  made[j].tag \notin found(n)
  <2> DEFINE Later(i) == \A m \in 1 .. L : m > i => made[i].tag \notin found(m)
             S == {i \in Nat : k + i <= L => Later(k + i)}
  <2>1. Later(k)
    <3>1. CASE k = 0
      BY <1>2, <1>5, <1>7, <3>1 DEF IsTree
    <3>2. CASE k # 0
      <4>1. made[k].tag \in Ids(d)
        BY <1>2, <3>2
      <4>2. ASSUME NEW m \in 1 .. L, m > k, made[k].tag \in found(m)
            PROVE  FALSE
        <5>1. m \in k + 1 .. L
          BY <1>1, <1>2, <4>2
        <5>2. QED  BY <1>2, <1>8, <4>1, <4>2, <5>1
      <4>3. QED  BY <4>2
    <3>3. QED  BY <3>1, <3>2
  <2>2. ASSUME NEW i \in Nat, k <= i, i < L, Later(i)
        PROVE  Later(i + 1)
    <3>1. ASSUME NEW m \in 1 .. L, m > i + 1, made[i + 1].tag \in found(m)
          PROVE  FALSE
      <4>1. m # 1 /\ m - 1 \in 1 .. L /\ m - 1 > i
        <5>1. L \in Nat /\ m \in 1 .. L /\ m > i + 1 /\ i \in Nat
          BY <1>1, <3>1
        <5>2. QED  BY <5>1
      <4>2. Parent(e, made[i + 1].tag) \in found(m - 1)
        BY <1>6, <3>1, <4>1
      <4>3. i + 1 \in k + 1 .. L /\ i + 1 - 1 = i
        BY <1>1, <1>2, <2>2
      <4>4. Parent(e, made[i + 1].tag) = made[i].tag
        BY <1>5, <4>3
      <4>5. QED  BY <2>2, <4>1, <4>2, <4>4
    <3>2. QED  BY <3>1
  <2>3. 0 \in S
    <3>1. k + 0 = k
      BY <1>2
    <3>2. QED  BY <2>1, <3>1
  <2> HIDE DEF Later
  <2>4. ASSUME NEW i \in S
        PROVE  i + 1 \in S
    <3>1. i \in Nat /\ (k + i <= L => Later(k + i))
      OBVIOUS
    <3>2. ASSUME k + (i + 1) <= L
          PROVE  Later(k + (i + 1))
      <4>1. k + i \in Nat /\ k <= k + i /\ k + i < L /\ k + (i + 1) = k + i + 1
        BY <1>1, <1>2, <3>1, <3>2
      <4>2. Later(k + i)
        BY <1>1, <3>1, <4>1
      <4>3. QED  BY <2>2, <4>1, <4>2
    <3>3. QED  BY <3>1, <3>2
  <2>5. S = Nat
    <3>1. S \in SUBSET Nat
      OBVIOUS
    <3> HIDE DEF S
    <3>2. QED  BY <2>3, <2>4, <3>1, SetInduction
  <2>6. j - k \in Nat /\ k + (j - k) = j /\ j <= L
    BY <1>1, <1>2
  <2>7. j - k \in S
    <3> HIDE DEF S
    <3>1. QED  BY <2>5, <2>6
  <2>8. Later(j)
    BY <2>6, <2>7
  <2>9. QED  BY <1>11, <2>8 DEF Later
<1>12. ASSUME NEW t \in found(L), t # made[L].tag
       PROVE  FALSE
  <2>1. L \in 1 .. L /\ L \in k + 1 .. L
    BY <1>1, <1>2
  <2>2. t \in Ids(e)
    BY <1>7, <2>1
  <2>3. CASE t \in Ids(d)
    BY <1>2, <1>8, <2>1, <2>3, <1>12
  <2>4. CASE t \notin Ids(d)
    <3>1. PICK j \in k + 1 .. L : t = made[j].tag
      BY <1>5, <2>2, <2>4
    <3>2. j # L
      BY <1>12, <3>1
    <3>3. j \in k .. L /\ L > j
      BY <1>1, <1>2, <3>2
    <3>4. QED  BY <1>11, <1>12, <2>1, <3>1, <3>3
  <2>5. QED  BY <2>3, <2>4
<1>13. found(L) = {made[L].tag}
  BY <1>10, <1>12
<1>14. QED  BY <1>13 DEF found, e, L, made

-----------------------------------------------------------------------------
(* What the editor makes of a text.                                           *)

\* Texts have words,
LEMMA TextsHaveWords ==
  ASSUME NEW text \in TagTexts
  PROVE  IsText(text.words)
<1> DEFINE words == text.words
<1>1. words \in Seq([name : Names, exact : BOOLEAN]) /\ words # <<>>
  BY DEF TagTexts
<1> HIDE DEF words
<1>2. Len(words) \in Nat \ {0} /\ DOMAIN words = 1 .. Len(words)
  BY <1>1
<1>3. \A n \in 1 .. Len(words) : words[n] \in [name : Names, exact : BOOLEAN]
  <2> DEFINE W == [name : Names, exact : BOOLEAN]
  <2> HIDE DEF W
  <2>1. words \in Seq(W)
    BY <1>1 DEF W
  <2>2. \A n \in 1 .. Len(words) : words[n] \in W
    BY <2>1
  <2>3. QED  BY <2>2, Zenon DEF W
<1>4. \A n \in 1 .. Len(words) : words[n].name \in Names
  BY <1>3
<1>5. QED  BY <1>2, <1>4 DEF IsText, words

\* and so have those the user types.
LEMMA TypedTexts ==
  ASSUME NEW text \in Texts
  PROVE  text \in TagTexts /\ IsText(text.words)
BY TextsAssumption, TextsHaveWords

\* Words that differ in case only find the same.
LEMMA WordsAlike ==
  ASSUME NEW d, NEW v, NEW w, Lower[v.name] = Lower[w.name], v.exact = w.exact
  PROVE  FindAllOrAbbreviated(d, v) = FindAllOrAbbreviated(d, w)
<1>1. FindAll(d, v.name) = FindAll(d, w.name)
  BY DEF FindAll
<1>2. FindAbbreviated(d, v.name) = FindAbbreviated(d, w.name)
  BY <1>1 DEF FindAbbreviated
<1>3. QED  BY <1>1, <1>2, Zenon DEF FindAllOrAbbreviated

\* A text with a capital is a text that finds the same.
LEMMA NormalTextFinds ==
  ASSUME NEW text \in TagTexts
  PROVE  /\ NormalText(text) \in TagTexts
         /\ \A d : SmartFindAll(d, NormalText(text)) = SmartFindAll(d, text)
<1> DEFINE W == [name : Names, exact : BOOLEAN]
           words == text.words
           new == [words EXCEPT ![1].name = Capital[@]]
           L == Len(words)
<1>1. CASE NormalText(text) = text
  BY <1>1
<1>2. CASE NormalText(text) = [text EXCEPT !.words[1].name = Capital[@]]
  <2>1. words \in Seq(W) /\ text.deep \in BOOLEAN /\ words # <<>> /\ IsText(words)
    BY TextsHaveWords DEF TagTexts
  <2>2. NormalText(text) = [deep |-> text.deep, words |-> new]
    BY <1>2 DEF TagTexts
  <2> HIDE DEF words
  <2>3. L \in Nat /\ 1 \in 1 .. L /\ L \in 1 .. L /\ DOMAIN words = 1 .. L
        /\ \A n \in 1 .. L : words[n] \in W
    <3>1. L \in Nat /\ 1 \in 1 .. L /\ L \in 1 .. L /\ DOMAIN words = 1 .. L
      BY <2>1 DEF IsText
    <3> HIDE DEF W
    <3>2. \A n \in 1 .. L : words[n] \in W
      BY <2>1, <3>1
    <3>3. QED  BY <3>1, <3>2
  <2>4. Lower[Capital[words[1].name]] = Lower[words[1].name] /\ Capital[words[1].name] \in Names
    BY <2>3, NamesAssumption
  <2>5. new \in Seq(W) /\ Len(new) = L /\ DOMAIN new = 1 .. L
    BY <2>1, <2>3, <2>4
  <2>6. \A n \in 1 .. L : Lower[new[n].name] = Lower[words[n].name] /\ new[n].exact = words[n].exact
    <3>1. new[1] = [words[1] EXCEPT !.name = Capital[@]] /\ \A n \in 1 .. L : n # 1 => new[n] = words[n]
      BY <2>3
    <3>2. words[1] \in W
      BY <2>3
    <3>3. new[1].name = Capital[words[1].name] /\ new[1].exact = words[1].exact
      BY <3>1, <3>2
    <3> HIDE DEF new
    <3>4. QED  BY <2>4, <3>1, <3>3
  <2>7. new # <<>>
    BY <2>3, <2>5
  <2>8. [deep |-> text.deep, words |-> new] \in TagTexts
    BY <2>1, <2>5, <2>7 DEF TagTexts
  <2> HIDE DEF new, L
  <2>9. ASSUME NEW d
        PROVE  SmartFindAll(d, [deep |-> text.deep, words |-> new]) = SmartFindAll(d, text)
    <3>1. \A n \in 1 .. L : FindAllOrAbbreviated(d, new[n]) = FindAllOrAbbreviated(d, words[n])
      BY <2>6, WordsAlike
    <3>2. ChainFound(d, new)[L] = ChainFound(d, words)[L]
      <4>1. \A n \in 1 .. L : ChainFound(d, new)[n] = ChainFound(d, words)[n]
        BY <2>3, <2>5, <3>1, PrefixFinds
      <4>2. QED  BY <2>3, <4>1
    <3>3. ChainFind(d, new) = ChainFind(d, words)
      BY <2>5, <3>2 DEF ChainFind, L
    <3>4. L = 2 => AncestorFind(d, new[1], new[2]) = AncestorFind(d, words[1], words[2])
      <4>1. L = 2 => 1 \in 1 .. L /\ 2 \in 1 .. L
        BY <2>3
      <4>2. QED  BY <3>1, <4>1 DEF AncestorFind
    <3>5. ASSUME NEW b, NEW ws, NEW t, t = [deep |-> b, words |-> ws]
          PROVE  t.deep = b /\ t.words = ws
      BY <3>5
    <3>6. PICK t : t = [deep |-> text.deep, words |-> new]
      OBVIOUS
    <3>7. t.deep = text.deep /\ t.words = new
      BY <3>5, <3>6
    <3>8. SmartFindAll(d, t) = SmartFindAll(d, text)
      <4>1. Len(t.words) = L /\ Len(text.words) = L /\ text.words = words
        BY <2>5, <3>7 DEF L, words
      <4>2. CASE ~text.deep
        BY <3>3, <3>7, <4>1, <4>2 DEF SmartFindAll
      <4>3. CASE text.deep /\ L = 2
        BY <3>4, <3>7, <4>1, <4>3 DEF SmartFindAll
      <4>4. CASE text.deep /\ L # 2
        BY <3>7, <4>1, <4>4 DEF SmartFindAll
      <4>5. QED  BY <4>2, <4>3, <4>4
    <3>9. QED  BY <3>6, <3>8
  <2>10. QED  BY <2>2, <2>8, <2>9
<1>3. QED  BY <1>1, <1>2 DEF NormalText

\* What a text finds are tags that are there.
LEMMA TextsFindTags ==
  ASSUME NEW d, NEW text, IsText(text.words)
  PROVE  SmartFindAll(d, text) \subseteq Ids(d)
<1> DEFINE words == text.words
           L == Len(words)
<1>1. L \in Nat /\ DOMAIN words = 1 .. L /\ L \in 1 .. L
  BY DEF IsText
<1>2. ChainFind(d, words) \subseteq Ids(d)
  <2> HIDE DEF L, words
  <2>1. ChainFound(d, words)[L] \subseteq Ids(d)
    BY <1>1, FoundAreTags
  <2>2. QED  BY <2>1 DEF L, ChainFind
<1>3. \A v, w : AncestorFind(d, v, w) \subseteq Ids(d)
  BY DEF AncestorFind, Descendants
<1>4. QED  BY <1>2, <1>3 DEF SmartFindAll

\* A unique text finds its tag.
LEMMA UniqueFinds ==
  ASSUME NEW d, NEW text, IsTree(d), IsText(text.words), IsUnique(d, text)
  PROVE  SmartFind(d, text) \in Ids(d) /\ SmartFindAll(d, text) = {SmartFind(d, text)}
<1> DEFINE found == SmartFindAll(d, text)
<1>1. found \subseteq Ids(d)
  BY TextsFindTags
<1>2. IsFiniteSet(Ids(d))
  BY DEF IsTree
<1>3. Cardinality(found) = 1
  BY DEF IsUnique
<1>4. SmartFind(d, text) = CASE found = {} -> 0
         [] Cardinality(found) = 1 -> CHOOSE t \in found : TRUE
         [] OTHER -> -1
  BY DEF SmartFind
<1> HIDE DEF found
<1>5. IsFiniteSet(found)
  BY <1>1, <1>2, FS_Subset
<1>6. PICK t : found = {t}
  BY <1>3, <1>5, FS_Singleton
<1>7. (CHOOSE u \in found : TRUE) = t
  BY <1>6
<1>8. SmartFind(d, text) = t
  BY <1>3, <1>4, <1>6, <1>7
<1>9. QED  BY <1>1, <1>6, <1>8 DEF found

\* A text that is shown as new may be new, and is defined word by word.
LEMMA NewIsNovel ==
  ASSUME NEW d, NEW text, IsText(text.words), IsNew(d, text)
  PROVE  /\ Novel(d, text.words) /\ ~text.deep
         /\ Define(d, text) = Made(d, text.words)[Len(text.words)]
<1>1. SmartFindAll(d, text) = {} /\ CouldBeNew(d, text)
  BY DEF IsNew
<1>2. ~text.deep
  BY <1>1 DEF CouldBeNew
<1>3. ChainFound(d, text.words)[Len(text.words)] = {}
  BY <1>1, <1>2 DEF SmartFindAll, ChainFind
<1>4. QED  BY <1>1, <1>2, <1>3 DEF Novel, CouldBeNew, Define

\* A text is unique, is new, or gives no tag.
LEMMA TagForCases ==
  ASSUME NEW d, NEW text, TagFor(d, text).tag # 0
  PROVE  \/ IsUnique(d, text) /\ TagFor(d, text) = [tags |-> d, tag |-> SmartFind(d, text)]
         \/ IsNew(d, text) /\ ~IsUnique(d, text) /\ TagFor(d, text) = Define(d, text)
<1>1. CASE SmartFindAll(d, text) = {}
  <2>1. ~IsUnique(d, text)
    <3>1. Cardinality({}) = 0
      BY FS_EmptySet
    <3>2. QED  BY <1>1, <3>1 DEF IsUnique
  <2>2. TagFor(d, text) = Define(d, text)
    BY <1>1, <2>1 DEF TagFor
  <2>3. CouldBeNew(d, text)
    BY <2>2 DEF Define
  <2>4. QED  BY <1>1, <2>1, <2>2, <2>3 DEF IsNew
<1>2. CASE SmartFindAll(d, text) # {} /\ IsUnique(d, text)
  BY <1>2 DEF TagFor
<1>3. CASE SmartFindAll(d, text) # {} /\ ~IsUnique(d, text)
  <2>1. TagFor(d, text) = [tags |-> d, tag |-> 0]
    BY <1>3 DEF TagFor
  <2>2. QED  BY <2>1
<1>4. QED  BY <1>1, <1>2, <1>3

\* What the editor makes: tags are added and none is lost, and the tag is there.
LEMMA TagForGrows ==
  ASSUME NEW d, NEW text, IsTree(d), IsText(text.words), TagFor(d, text).tag # 0
  PROVE  LET made == TagFor(d, text)
         IN  IsTree(made.tags) /\ More(d, made.tags) /\ made.tag \in Ids(made.tags)
<1>1. CASE IsUnique(d, text) /\ TagFor(d, text) = [tags |-> d, tag |-> SmartFind(d, text)]
  BY <1>1, UniqueFinds, MoreOfItself
<1>2. CASE IsNew(d, text) /\ TagFor(d, text) = Define(d, text)
  <2> DEFINE made == Made(d, text.words)
             L == Len(text.words)
  <2>1. Novel(d, text.words) /\ TagFor(d, text) = made[L]
    BY <1>2, NewIsNovel
  <2>2. Branch(d, text.words, made, Known(d, text.words), L)
    BY <2>1, DefinesBranch
  <2>3. Known(d, text.words) < L
    BY <2>1, NovelFacts
  <2> HIDE DEF made, L
  <2>4. QED  BY <2>1, <2>2, <2>3 DEF Branch
<1>3. QED  BY <1>1, <1>2, TagForCases

\* The text then finds what is made of it.
LEMMA TagForIsFound ==
  ASSUME NEW d, NEW text, IsTree(d), IsText(text.words), TagFor(d, text).tag # 0,
         IsUnique(d, text) \/ ~TakesAway(d, text.words)
  PROVE  LET made == TagFor(d, text)
         IN  SmartFindAll(made.tags, text) = {made.tag}
<1>1. CASE IsUnique(d, text) /\ TagFor(d, text) = [tags |-> d, tag |-> SmartFind(d, text)]
  BY <1>1, UniqueFinds
<1>2. CASE IsNew(d, text) /\ ~IsUnique(d, text) /\ TagFor(d, text) = Define(d, text)
  <2> DEFINE made == Made(d, text.words)[Len(text.words)]
  <2>1. Novel(d, text.words) /\ ~text.deep /\ TagFor(d, text) = made
    BY <1>2, NewIsNovel
  <2>2. ChainFound(made.tags, text.words)[Len(text.words)] = {made.tag}
    BY <1>2, <2>1, DefinedIsFound
  <2> HIDE DEF made
  <2>3. SmartFindAll(made.tags, text) = {made.tag}
    BY <2>1, <2>2 DEF SmartFindAll, ChainFind
  <2>4. QED  BY <2>1, <2>3
<1>3. QED  BY <1>1, <1>2, TagForCases

-----------------------------------------------------------------------------
(* The tag manager shows tags that are there.                                 *)

ListsOf(d) == [items : SUBSET Ids(d), chosen : Ids(d) \cup {0}]
IsManager(d, b) ==
  /\ b = [level |-> b.level, lists |-> b.lists]
  /\ b.lists \in Seq(ListsOf(d)) /\ b.level \in Nat /\ b.level < Len(b.lists)

\* It still does when there are more tags.
LEMMA ManagerGrows ==
  ASSUME NEW d, NEW e, More(d, e), NEW b, IsManager(d, b)
  PROVE  IsManager(e, b)
<1>1. Ids(d) \subseteq Ids(e)
  BY DEF More
<1>2. ListsOf(d) \subseteq ListsOf(e)
  BY <1>1 DEF ListsOf
<1>3. b.lists \in Seq(ListsOf(e))
  <2> DEFINE lists == b.lists
             D == ListsOf(d)
             F == ListsOf(e)
  <2>1. lists \in Seq(D) /\ D \subseteq F
    BY <1>2 DEF IsManager
  <2> HIDE DEF lists, D, F
  <2>2. lists \in Seq(F)
    BY <2>1
  <2>3. QED  BY <2>2 DEF lists, F
<1>4. QED  BY <1>3 DEF IsManager

\* The level is that of a list in which a tag is chosen, or 0.
LEMMA LevelFacts ==
  ASSUME NEW b, NEW lvl \in Nat
  PROVE  LET level == Max({0} \cup {l \in 1 .. lvl : Chosen(b, l) # 0})
         IN  level \in Nat /\ level <= lvl
<1> DEFINE S == {0} \cup {l \in 1 .. lvl : Chosen(b, l) # 0}
<1>1. S \in SUBSET Nat /\ S # {} /\ \A s \in S : s <= lvl
  OBVIOUS
<1> HIDE DEF S
<1>2. IsFiniteSet(S)
  BY <1>1, FS_BoundedSetOfNaturals
<1>3. Max(S) \in S
  BY <1>1, <1>2, MaxIsGreatest
<1>4. Max(S) \in Nat /\ Max(S) <= lvl
  BY <1>1, <1>3
<1>5. QED  BY <1>4 DEF S

\* Rebuilding the lists from one of them on shows tags that are there.
LEMMA RebuiltManager ==
  ASSUME NEW d, NEW b, b.lists \in Seq(ListsOf(d)), NEW lvl \in Nat, lvl <= Len(b.lists)
  PROVE  IsManager(d, Rebuild(d, b, lvl))
<1> DEFINE level == Max({0} \cup {l \in 1 .. lvl : Chosen(b, l) # 0})
           list == LoadList(d, IF level = 0 THEN 0 ELSE Chosen(b, level))
           lists == IF level + 1 \in DOMAIN b.lists THEN [b.lists EXCEPT ![level + 1] = list]
                    ELSE Append(b.lists, list)
<1>1. Rebuild(d, b, lvl) = [level |-> level, lists |-> lists]
  BY DEF Rebuild
<1>2. level \in Nat /\ level <= lvl
  BY LevelFacts
<1>3. list \in ListsOf(d)
  BY DEF LoadList, Children, ListsOf
<1> HIDE DEF level, list
<1>4. lists \in Seq(ListsOf(d)) /\ level < Len(lists)
  <2> DEFINE L == ListsOf(d)
             old == b.lists
  <2>1. old \in Seq(L) /\ level <= Len(old) /\ list \in L /\ level \in Nat
    BY <1>2, <1>3
  <2>2. lists = IF level + 1 \in DOMAIN old THEN [old EXCEPT ![level + 1] = list] ELSE Append(old, list)
    OBVIOUS
  <2> HIDE DEF L, old, lists
  <2>3. CASE level + 1 \in DOMAIN old
    <3>1. lists = [old EXCEPT ![level + 1] = list]
      BY <2>2, <2>3
    <3>2. lists \in Seq(L) /\ Len(lists) = Len(old)
      BY <2>1, <2>3, <3>1
    <3>3. level + 1 <= Len(old) /\ Len(old) \in Nat
      BY <2>1, <2>3
    <3>4. QED  BY <2>1, <3>2, <3>3 DEF L
  <2>4. CASE level + 1 \notin DOMAIN old
    BY <2>1, <2>2, <2>4 DEF L
  <2>5. QED  BY <2>3, <2>4
<1> HIDE DEF lists
<1>5. Rebuild(d, b, lvl).level = level /\ Rebuild(d, b, lvl).lists = lists
  BY <1>1
<1>6. QED  BY <1>1, <1>2, <1>4, <1>5 DEF IsManager

\* A manager that opens shows tags that are there,
LEMMA NewManagerShowsTags ==
  ASSUME NEW d
  PROVE  IsManager(d, NewManager(d))
<1> DEFINE b == [level |-> 0, lists |-> <<>>]
<1>1. b.lists \in Seq(ListsOf(d)) /\ Len(b.lists) = 0
  OBVIOUS
<1> HIDE DEF b
<1>2. IsManager(d, Rebuild(d, b, 0))
  BY <1>1, RebuiltManager
<1>3. QED  BY <1>2 DEF b, NewManager

\* and so does one where a tag is chosen.
LEMMA UpdatedManagerShowsTags ==
  ASSUME NEW d, NEW b, IsManager(d, b), NEW c \in Items(b)
  PROVE  IsManager(d, UpdateSelection(d, b, c[1], c[2]))
<1>1. PICK i \in 1 .. b.level + 1 : \E t \in b.lists[i].items : c = <<i, t>>
  BY DEF Items
<1>2. PICK t \in b.lists[i].items : c = <<i, t>>
  BY <1>1
<1> DEFINE L == ListsOf(d)
           old == b.lists
           e == [b EXCEPT !.lists[i].chosen = t]
           new == [old EXCEPT ![i].chosen = t]
<1>3. old \in Seq(L) /\ i \in 1 .. Len(old) /\ i \in Nat /\ i <= Len(old)
  BY DEF IsManager
<1>4. old[i] \in L
  <2> HIDE DEF L, old
  <2>1. QED  BY <1>3
<1>5. [old[i] EXCEPT !.chosen = t] \in L
  BY <1>2, <1>4 DEF ListsOf
<1>6. e.lists = new
  BY DEF IsManager
<1>7. new = [old EXCEPT ![i] = [old[i] EXCEPT !.chosen = t]]
  OBVIOUS
<1>8. new \in Seq(L) /\ Len(new) = Len(old)
  <2> DEFINE row == [old[i] EXCEPT !.chosen = t]
  <2>1. row \in L /\ new = [old EXCEPT ![i] = row]
    BY <1>5, <1>7
  <2> HIDE DEF L, old, row, new
  <2>2. QED  BY <1>3, <2>1
<1>9. IsManager(d, Rebuild(d, e, i))
  <2> HIDE DEF e, new, old
  <2>1. e.lists \in Seq(ListsOf(d)) /\ i \in Nat /\ i <= Len(e.lists)
    BY <1>3, <1>6, <1>8
  <2>2. QED  BY <2>1, RebuiltManager
<1>10. c[1] = i /\ c[2] = t
  BY <1>2
<1>11. QED  BY <1>9, <1>10 DEF UpdateSelection

\* The tag it offers is there.
LEMMA TerminalTags ==
  ASSUME NEW d, NEW b, IsManager(d, b), TerminalTag(b) # 0
  PROVE  TerminalTag(b) \in Ids(d)
<1>1. TerminalTag(b) = Chosen(b, b.level)
  BY DEF TerminalTag
<1>2. b.level \in DOMAIN b.lists /\ TerminalTag(b) = b.lists[b.level].chosen
  BY <1>1 DEF Chosen
<1>3. b.lists[b.level] \in ListsOf(d)
  <2> DEFINE lists == b.lists
             L == ListsOf(d)
  <2>1. lists \in Seq(L) /\ b.level \in DOMAIN lists
    BY <1>2 DEF IsManager
  <2> HIDE DEF lists, L
  <2>2. lists[b.level] \in L
    BY <2>1
  <2>3. QED  BY <2>2 DEF lists, L
<1>4. QED  BY <1>2, <1>3 DEF ListsOf

-----------------------------------------------------------------------------
(* Collections.                                                               *)

\* The least of one number is that number.
LEMMA LeastOfOne ==
  ASSUME NEW t \in Nat
  PROVE  Min({t}) = t
<1>1. t <= t
  OBVIOUS
<1>2. Min({t}) = CHOOSE x \in {t} : \A y \in {t} : x <= y
  BY Zenon DEF Min
<1>3. \A x \in {t} : x = t
  OBVIOUS
<1>4. QED  BY <1>1, <1>2, <1>3

\* There is a root of the collections.
LEMMA CollectionRootIsThere ==
  ASSUME NEW d, IsTree(d)
  PROVE  CollectionRoot(d) \in Ids(d)
<1> DEFINE S == Find(d, RootName, 0)
<1>1. PICK r \in Ids(d) : Name(d, r) = RootName /\ Parent(d, r) = 0
  BY DEF IsTree
<1>2. S = {r}
  BY <1>1 DEF Find, IsTree
<1>3. r \in Nat
  BY TreeFacts
<1>4. CollectionRoot(d) = Min(S)
  BY DEF CollectionRoot
<1>5. QED  BY <1>1, <1>2, <1>3, <1>4, LeastOfOne

\* The collection of a new photo is found or made, and the tree stays a tree.
LEMMA CollectionEnsured ==
  ASSUME NEW d, IsTree(d), NEW name \in Names
  PROVE  LET made == EnsureCollection(d, name)
         IN  IsTree(made.tags) /\ More(d, made.tags) /\ made.tag \in Ids(made.tags)
<1> DEFINE root == CollectionRoot(d)
           found == FindCollection(d, name)
<1>1. root \in Ids(d)
  BY CollectionRootIsThere
<1>2. found = {t \in Ids(d) : Name(d, t) = name /\ Parent(d, t) = root}
  BY DEF FindCollection, Find
<1>3. EnsureCollection(d, name) = IF found # {} THEN [tags |-> d, tag |-> Min(found)]
                                  ELSE InsertTag(d, name, root)
  BY DEF EnsureCollection
<1> HIDE DEF root, found
<1>4. CASE found # {}
  <2>1. PICK t \in Ids(d) : t \in found
    BY <1>2, <1>4
  <2>2. found = {t}
    BY <1>2, <2>1 DEF IsTree
  <2>3. Min(found) = t
    BY <2>1, <2>2, TreeFacts, LeastOfOne
  <2>4. QED  BY <1>3, <1>4, <2>1, <2>3, MoreOfItself
<1>5. CASE found = {}
  <2>1. Free(d, name, root)
    BY <1>2, <1>5 DEF Free
  <2>2. EnsureCollection(d, name) = InsertTag(d, name, root)
    BY <1>3, <1>5
  <2>3. QED  BY <1>1, <2>1, <2>2, InsertedTag
<1>6. QED  BY <1>4, <1>5

-----------------------------------------------------------------------------
(* The tables stay sound.                                                     *)

\* Applying a tag that is there,
LEMMA ApplyTagKeeps ==
  ASSUME NEW d, IsSound(d), NEW vs, NEW t \in Ids(d.tags)
  PROVE  /\ IsSound(ApplyTag(d, vs, t))
         /\ ApplyTag(d, vs, t).tags = d.tags
         /\ ApplyTag(d, vs, t).applied = d.applied \cup (vs \X {t})
<1> DEFINE e == ApplyTag(d, vs, t)
<1>0. IsDesk(d)
  BY DEF IsSound
<1>1. e = [tags |-> d.tags, applied |-> d.applied \cup (vs \X {t}), versions |-> d.versions,
           selection |-> d.selection, current |-> d.current, rows |-> d.rows, filter |-> d.filter]
  BY <1>0 DEF ApplyTag, IsDesk
<1> HIDE DEF e
<1>2. IsDesk(e) /\ e.tags = d.tags /\ e.rows = d.rows /\ e.applied = d.applied \cup (vs \X {t})
  BY <1>1 DEF IsDesk
<1>3. \A a \in vs \X {t} : a[2] \in Ids(d.tags)
  OBVIOUS
<1>4. QED  BY <1>2, <1>3 DEF IsSound, e

\* or removing one.
LEMMA RemoveTagKeeps ==
  ASSUME NEW d, IsSound(d), NEW vs, NEW t
  PROVE  IsSound(RemoveTag(d, vs, t)) /\ RemoveTag(d, vs, t).tags = d.tags
<1> DEFINE e == RemoveTag(d, vs, t)
<1>0. IsDesk(d)
  BY DEF IsSound
<1>1. e = [tags |-> d.tags, applied |-> d.applied \ (vs \X {t}), versions |-> d.versions,
           selection |-> d.selection, current |-> d.current, rows |-> d.rows, filter |-> d.filter]
  BY <1>0 DEF RemoveTag, IsDesk
<1> HIDE DEF e
<1>2. IsDesk(e) /\ e.tags = d.tags /\ e.rows = d.rows /\ e.applied \subseteq d.applied
  BY <1>1 DEF IsDesk
<1>3. QED  BY <1>2 DEF IsSound, e

\* Tables with more tags.
LEMMA GrownDeskIsSound ==
  ASSUME NEW d, IsSound(d), NEW tags, IsTree(tags), More(d.tags, tags),
         NEW e, e = [d EXCEPT !.tags = tags]
  PROVE  IsSound(e) /\ e.tags = tags /\ e.applied = d.applied
<1>1. IsDesk(d)
  BY DEF IsSound
<1>2. e = [tags |-> tags, applied |-> d.applied, versions |-> d.versions,
           selection |-> d.selection, current |-> d.current, rows |-> d.rows, filter |-> d.filter]
  BY <1>1 DEF IsDesk
<1>3. IsDesk(e) /\ e.tags = tags /\ e.applied = d.applied /\ e.rows = d.rows
  BY <1>2 DEF IsDesk
<1>4. QED  BY <1>3 DEF IsSound, More

\* Tables of which no tag changes.
LEMMA KeptTagsAreSound ==
  ASSUME NEW d, IsSound(d), NEW e, IsDesk(e), e.tags = d.tags, e.applied \subseteq d.applied,
         \/ e.rows = d.rows
         \/ (\A row \in e.rows.single : row[1] \in SingleKeys) /\ e.rows.tags \in Seq(TagTexts)
  PROVE  IsSound(e)
<1>1. IsTree(e.tags) /\ \A a \in e.applied : a[2] \in Ids(e.tags)
  BY DEF IsSound
<1>2. (\A row \in e.rows.single : row[1] \in SingleKeys) /\ e.rows.tags \in Seq(TagTexts)
  <2>1. (\A row \in d.rows.single : row[1] \in SingleKeys) /\ d.rows.tags \in Seq(TagTexts)
    BY Zenon DEF IsSound
  <2>2. QED  BY <2>1, Zenon
<1>3. QED  BY <1>1, <1>2 DEF IsSound

\* The rows stored of a filter are under the keys it has.
LEMMA StoredRows ==
  ASSUME NEW f
  PROVE  /\ \A row \in SaveToDb(f).single : row[1] \in SingleKeys
         /\ SaveToDb(f).tags = f.tags
BY DEF SaveToDb

\* What is selected,
LEMMA SelectedDesk ==
  ASSUME NEW d, IsDesk(d), NEW vs, NEW e, e = [d EXCEPT !.selection = vs]
  PROVE  /\ IsDesk(e) /\ e.tags = d.tags /\ e.applied = d.applied /\ e.versions = d.versions
         /\ e.rows = d.rows /\ e.filter = d.filter
<1>1. e = [tags |-> d.tags, applied |-> d.applied, versions |-> d.versions,
           selection |-> vs, current |-> d.current, rows |-> d.rows, filter |-> d.filter]
  BY DEF IsDesk
<1>2. QED  BY <1>1 DEF IsDesk

\* which versions there are,
LEMMA VersionedDesk ==
  ASSUME NEW d, IsDesk(d), NEW versions, NEW e, e = [d EXCEPT !.versions = versions]
  PROVE  IsDesk(e) /\ e.tags = d.tags /\ e.applied = d.applied /\ e.rows = d.rows
<1>1. e = [tags |-> d.tags, applied |-> d.applied, versions |-> versions,
           selection |-> d.selection, current |-> d.current, rows |-> d.rows, filter |-> d.filter]
  BY DEF IsDesk
<1>2. QED  BY <1>1 DEF IsDesk

\* or which is current, is no matter of tags.
LEMMA CurrentDesk ==
  ASSUME NEW d, IsDesk(d), NEW cur, NEW e, e = [d EXCEPT !.current = cur]
  PROVE  /\ IsDesk(e) /\ e.tags = d.tags /\ e.applied = d.applied /\ e.versions = d.versions
         /\ e.rows = d.rows /\ e.filter = d.filter
<1>1. e = [tags |-> d.tags, applied |-> d.applied, versions |-> d.versions,
           selection |-> d.selection, current |-> cur, rows |-> d.rows, filter |-> d.filter]
  BY DEF IsDesk
<1>2. QED  BY <1>1 DEF IsDesk

\* What a filter lets pass, or what is chosen near it, is no matter of tags.
LEMMA FilterAppliedKeeps ==
  ASSUME NEW d, IsDesk(d)
  PROVE  LET e == ApplyFilterSettings(d)
         IN  /\ IsDesk(e) /\ e.tags = d.tags /\ e.applied = d.applied /\ e.versions = d.versions
             /\ e.rows = d.rows /\ e.filter = Passing(d, LoadFromDb(d.rows))
<1> DEFINE vs == Passing(d, LoadFromDb(d.rows))
           e == ApplyFilterSettings(d)
<1>1. e = [d EXCEPT !.filter = vs, !.selection = @ \cap vs]
  BY DEF ApplyFilterSettings
<1> HIDE DEF vs, e
<1>2. e = [tags |-> d.tags, applied |-> d.applied, versions |-> d.versions,
           selection |-> d.selection \cap vs, current |-> d.current, rows |-> d.rows, filter |-> vs]
  BY <1>1 DEF IsDesk
<1>3. IsDesk(e)
  BY <1>2 DEF IsDesk
<1>4. QED  BY <1>2, <1>3 DEF vs, e

\* Neither is what is chosen near a version that is lost.
LEMMA NearestKeeps ==
  ASSUME NEW d, IsDesk(d), NEW e \in SelectNearest(d)
  PROVE  /\ IsDesk(e) /\ e.tags = d.tags /\ e.applied = d.applied /\ e.versions = d.versions
         /\ e.rows = d.rows /\ e.filter = d.filter
<1>1. PICK v : e = [d EXCEPT !.current = v, !.selection = IF v \in @ \cup {0} THEN @ ELSE {v}]
  BY Zenon DEF SelectNearest
<1>2. PICK sel : e = [d EXCEPT !.current = v, !.selection = sel]
  BY <1>1, Zenon
<1>3. e = [tags |-> d.tags, applied |-> d.applied, versions |-> d.versions,
           selection |-> sel, current |-> v, rows |-> d.rows, filter |-> d.filter]
  BY <1>2 DEF IsDesk
<1>4. QED  BY <1>3 DEF IsDesk

-----------------------------------------------------------------------------
(* The filter and its dialogue.                                               *)

IsFilter(f) ==
  /\ f = [k \in DOMAIN Default |-> f[k]]
  /\ f.st \subseteq Statuses /\ f.tags \in Seq(TagTexts)

\* The statuses and the tags are members of the filter.
LEMMA HasStatuses ==
  {"st", "tags"} \subseteq DOMAIN Default
BY DEF Default

\* The row stored under a key has the value of that member.
LEMMA RowOfKey ==
  ASSUME NEW f, NEW k \in SingleKeys
  PROVE  RowOf(SaveToDb(f), k) = f[k]
<1> DEFINE single == {<<i, f[i]>> : i \in SingleKeys}
<1>1. SaveToDb(f).single = single
  BY DEF SaveToDb
<1>2. (CHOOSE row \in single : row[1] = k) = <<k, f[k]>>
  <2>1. <<k, f[k]>> \in single
    OBVIOUS
  <2>2. \A row \in single : row[1] = k => row = <<k, f[k]>>
    OBVIOUS
  <2> HIDE DEF single
  <2>3. QED  BY <2>1, <2>2
<1>3. QED  BY <1>1, <1>2 DEF RowOf

\* What is stored of a filter is read back.
LEMMA StoredIsRead ==
  ASSUME NEW f, IsFilter(f)
  PROVE  LoadFromDb(SaveToDb(f)) = f
<1> DEFINE rows == SaveToDb(f)
           keys == {row[1] : row \in rows.single}
           Value(k) == CASE k \in keys -> RowOf(rows, k)
                         [] k = "cl" -> rows.labels
                         [] k = "st" -> StatusesOf(rows)
                         [] k = "tags" -> rows.tags
                         [] OTHER -> Default[k]
<1>1. keys = SingleKeys
  <2>1. rows.single = {<<k, f[k]>> : k \in SingleKeys}
    BY DEF SaveToDb
  <2>2. ASSUME NEW k \in SingleKeys
        PROVE  \E row \in rows.single : k = row[1]
    <3>1. <<k, f[k]>> \in rows.single /\ <<k, f[k]>>[1] = k
      BY <2>1
    <3> HIDE DEF rows
    <3>2. QED  BY <3>1
  <2> HIDE DEF rows
  <2>3. \A row \in rows.single : row[1] \in SingleKeys
    BY <2>1
  <2>4. QED  BY <2>2, <2>3
<1>2. rows.labels = f.cl /\ rows.tags = f.tags /\ rows.statuses = [s \in Statuses |-> s \in f.st]
  BY DEF SaveToDb
<1>3. \A k \in SingleKeys : RowOf(rows, k) = f[k]
  BY RowOfKey
<1> HIDE DEF rows
<1>4. StatusesOf(rows) = f.st
  <2>1. StatusesOf(rows) = {s \in Statuses : IF rows.statuses = <<>> THEN s \in Default.st ELSE rows.statuses[s]}
    BY DEF StatusesOf
  <2>2. ASSUME NEW s \in Statuses
        PROVE  rows.statuses # <<>> /\ (rows.statuses[s] <=> s \in f.st)
    <3>1. DOMAIN rows.statuses = Statuses
      BY <1>2
    <3>2. rows.statuses # <<>>
      BY <3>1, <2>2
    <3>3. rows.statuses[s] = (s \in f.st)
      BY <1>2, Zenon
    <3>4. QED  BY <3>2, <3>3
  <2>3. QED  BY <2>1, <2>2 DEF IsFilter
<1>5. LoadFromDb(rows) = [k \in DOMAIN Default |-> Value(k)]
  BY Zenon DEF LoadFromDb
<1> HIDE DEF keys
<1>6. ASSUME NEW k \in DOMAIN Default
      PROVE  Value(k) = f[k]
  <2>1. CASE k \in SingleKeys
    <3>1. k \in keys /\ k # "cl" /\ k # "st" /\ k # "tags"
      BY <1>1, <2>1 DEF SingleKeys
    <3>2. Value(k) = RowOf(rows, k)
      BY <3>1
    <3> HIDE DEF Value
    <3>3. QED  BY <1>3, <2>1, <3>2
  <2>2. CASE k \notin SingleKeys
    <3>1. k \in {"cl", "st", "tags"}
      BY <2>2 DEF SingleKeys
    <3>2. k \notin keys
      BY <1>1, <2>2
    <3>3. f.cl = f["cl"] /\ f.st = f["st"] /\ f.tags = f["tags"]
      OBVIOUS
    <3>4. CASE k = "cl"
      BY <1>2, <3>2, <3>3, <3>4
    <3>5. CASE k = "st"
      BY <1>4, <3>2, <3>3, <3>5
    <3>6. CASE k = "tags"
      BY <1>2, <3>2, <3>3, <3>6
    <3>7. QED  BY <3>1, <3>4, <3>5, <3>6
  <2>3. QED  BY <2>1, <2>2
<1> HIDE DEF Value
<1>7. LoadFromDb(rows) = [k \in DOMAIN Default |-> f[k]]
  BY <1>5, <1>6
<1>8. QED  BY <1>7 DEF IsFilter, rows

\* What is read is a filter.
LEMMA ReadIsFilter ==
  ASSUME NEW rows, \A row \in rows.single : row[1] \in SingleKeys, rows.tags \in Seq(TagTexts)
  PROVE  IsFilter(LoadFromDb(rows))
<1> DEFINE Value(k) == CASE k \in {row[1] : row \in rows.single} -> RowOf(rows, k)
                         [] k = "cl" -> rows.labels
                         [] k = "st" -> StatusesOf(rows)
                         [] k = "tags" -> rows.tags
                         [] OTHER -> Default[k]
           f == LoadFromDb(rows)
<1>1. f = [k \in DOMAIN Default |-> Value(k)]
  BY Zenon DEF LoadFromDb
<1>2. {"st", "tags"} \cap {row[1] : row \in rows.single} = {}
  BY DEF SingleKeys
<1>3. Value("st") = StatusesOf(rows) /\ Value("tags") = rows.tags
  BY <1>2
<1> HIDE DEF Value, f
<1>4. f.st = StatusesOf(rows) /\ f.tags = rows.tags
  BY <1>1, <1>3, HasStatuses
<1>5. StatusesOf(rows) \subseteq Statuses
  BY DEF StatusesOf
<1>6. f = [k \in DOMAIN Default |-> f[k]]
  BY <1>1
<1>7. QED  BY <1>4, <1>5, <1>6 DEF IsFilter, f

\* The default is a filter.
LEMMA DefaultIsFilter ==
  IsFilter(Default)
<1>1. Default.st \subseteq Statuses /\ Default.tags \in Seq(TagTexts)
  BY DEF Default
<1>2. Default = [k \in DOMAIN Default |-> Default[k]]
  BY DEF Default
<1>3. QED  BY <1>1, <1>2 DEF IsFilter

\* No box but those of the statuses and the tags changes what is chosen of them,
LEMMA ChangedFilter ==
  ASSUME NEW f, IsFilter(f), NEW k, k # "st", k # "tags", NEW value
  PROVE  IsFilter([f EXCEPT ![k] = value])
<1> DEFINE g == [f EXCEPT ![k] = value]
<1>1. f = [i \in DOMAIN Default |-> f[i]] /\ f.st \subseteq Statuses /\ f.tags \in Seq(TagTexts)
  BY DEF IsFilter
<1>2. g = [i \in DOMAIN Default |-> g[i]]
  BY <1>1
<1>3. g.st = f.st /\ g.tags = f.tags
  BY <1>1, HasStatuses
<1> HIDE DEF g
<1>4. IsFilter(g)
  BY <1>1, <1>2, <1>3 DEF IsFilter
<1>5. QED  BY <1>4 DEF g

\* and any texts may be typed as tags.
LEMMA TaggedFilter ==
  ASSUME NEW f, IsFilter(f), NEW texts \in Seq(TagTexts)
  PROVE  IsFilter([f EXCEPT !.tags = texts]) /\ f.tags \in Seq(TagTexts)
BY HasStatuses DEF IsFilter

\* The members that boxes with a list show.
LEMMA HasFields ==
  {"hasfl", "col", "cammake", "cammodel", "camlens", "fl", "st"} \subseteq DOMAIN Default
BY DEF Default

\* What the boxes show of a filter is a filter,
LEMMA PopulatedFilter ==
  ASSUME NEW d, NEW f, IsFilter(f)
  PROVE  IsFilter(Populate(d, f))
<1>1. PICK col, cammake, cammodel, camlens, fl :
        Populate(d, f) = [f EXCEPT !.col = col, !.cammake = cammake, !.cammodel = cammodel,
                                   !.camlens = camlens, !.fl = fl]
  BY Zenon DEF Populate
<1>2. Populate(d, f) = [[[[[f EXCEPT !.col = col] EXCEPT !.cammake = cammake] EXCEPT !.cammodel = cammodel]
                          EXCEPT !.camlens = camlens] EXCEPT !.fl = fl]
  BY <1>1
<1>3. IsFilter([f EXCEPT !.col = col])
  BY ChangedFilter
<1>4. IsFilter([[f EXCEPT !.col = col] EXCEPT !.cammake = cammake])
  BY <1>3, ChangedFilter
<1> DEFINE g == [[f EXCEPT !.col = col] EXCEPT !.cammake = cammake]
<1>5. IsFilter(g) /\ Populate(d, f) = [[[g EXCEPT !.cammodel = cammodel] EXCEPT !.camlens = camlens] EXCEPT !.fl = fl]
  BY <1>2, <1>4
<1> HIDE DEF g
<1>6. IsFilter([g EXCEPT !.cammodel = cammodel])
  BY <1>5, ChangedFilter
<1>7. IsFilter([[g EXCEPT !.cammodel = cammodel] EXCEPT !.camlens = camlens])
  BY <1>6, ChangedFilter
<1>8. IsFilter([[[g EXCEPT !.cammodel = cammodel] EXCEPT !.camlens = camlens] EXCEPT !.fl = fl])
  BY <1>7, ChangedFilter
<1>9. QED  BY <1>5, <1>8

\* Texts with capitals are texts, one for one.
LEMMA NormalTextsFind ==
  ASSUME NEW texts \in Seq(TagTexts)
  PROVE  /\ NormalTexts(texts) \in Seq(TagTexts)
         /\ DOMAIN NormalTexts(texts) = DOMAIN texts
         /\ \A n \in DOMAIN texts : \A d : SmartFindAll(d, NormalTexts(texts)[n]) = SmartFindAll(d, texts[n])
<1> DEFINE new == NormalTexts(texts)
<1>1. Len(texts) \in Nat /\ DOMAIN texts = 1 .. Len(texts) /\ \A n \in DOMAIN texts : texts[n] \in TagTexts
  OBVIOUS
<1>2. new = [n \in 1 .. Len(texts) |-> NormalText(texts[n])]
  BY <1>1 DEF NormalTexts
<1>3. \A n \in 1 .. Len(texts) : NormalText(texts[n]) \in TagTexts
  BY <1>1, NormalTextFinds
<1> HIDE DEF new
<1>4. DOMAIN new = 1 .. Len(texts) /\ \A n \in 1 .. Len(texts) : new[n] = NormalText(texts[n])
  BY <1>2
<1>5. new \in Seq(TagTexts)
  BY <1>1, <1>2, <1>3
<1>6. \A n \in DOMAIN texts : \A d : SmartFindAll(d, new[n]) = SmartFindAll(d, texts[n])
  BY <1>1, <1>4, NormalTextFinds
<1>7. QED  BY <1>1, <1>4, <1>5, <1>6 DEF new

\* and so is what is read back from them, which differs in two members at most.
LEMMA ExtractedFilter ==
  ASSUME NEW f, IsFilter(f)
  PROVE  \E located : LET g == [f EXCEPT !.hasfl = located] IN
            /\ IsFilter(g) /\ Located(f) = g /\ g.tags = f.tags
            /\ Extract(f) = [g EXCEPT !.tags = NormalTexts(f.tags)] /\ IsFilter(Extract(f))
<1>1. PICK located : Located(f) = [f EXCEPT !.hasfl = located]
  BY Zenon DEF Located, Composed
<1> DEFINE g == [f EXCEPT !.hasfl = located]
<1>2. IsFilter(g) /\ g.tags = f.tags
  <2>1. f = [k \in DOMAIN Default |-> f[k]]
    BY DEF IsFilter
  <2>2. g.tags = f.tags
    BY <2>1, HasStatuses
  <2>3. QED  BY <2>2, ChangedFilter
<1> HIDE DEF g
<1>3. Extract(f) = [g EXCEPT !.tags = NormalTexts(f.tags)]
  BY <1>1, <1>2 DEF Extract, g
<1>4. IsFilter(Extract(f))
  <2>1. PICK texts : texts = NormalTexts(f.tags)
    OBVIOUS
  <2>2. texts \in Seq(TagTexts)
    BY <2>1, NormalTextsFind DEF IsFilter
  <2>3. QED  BY <1>2, <1>3, <2>1, <2>2, TaggedFilter
<1>5. QED  BY <1>1, <1>2, <1>3, <1>4 DEF g

\* All labels on, or off,
LEMMA LabelledFilter ==
  ASSUME NEW f, IsFilter(f)
  PROVE  IsFilter(SelectAllLabels(f))
<1>1. PICK labels : SelectAllLabels(f) = [f EXCEPT !.cl = labels]
  BY Zenon DEF SelectAllLabels
<1>2. QED  BY <1>1, ChangedFilter

\* and a maker or a camera chosen, leave a filter.
LEMMA CameraFilter ==
  ASSUME NEW d, NEW f, IsFilter(f)
  PROVE  IsFilter(SetCamera(d, f)) /\ IsFilter(SetMaker(d, f))
<1>1. ASSUME NEW g, IsFilter(g)
      PROVE  IsFilter(SetCamera(d, g))
  <2>1. PICK lens : SetCamera(d, g) = [g EXCEPT !.camlens = lens]
    BY Zenon DEF SetCamera
  <2>2. IsFilter([g EXCEPT !.camlens = lens])
    BY <1>1, ChangedFilter
  <2>3. QED  BY <2>1, <2>2
<1>2. PICK model : SetMaker(d, f) = SetCamera(d, [f EXCEPT !.cammodel = model])
  BY Zenon DEF SetMaker
<1>3. IsFilter([f EXCEPT !.cammodel = model])
  BY ChangedFilter
<1>4. QED  BY <1>1, <1>2, <1>3

\* A box that is turned leaves the others; statuses are those there are.
LEMMA OneTurned ==
  ASSUME NEW f, IsFilter(f), NEW turn \in Turns
  PROVE  IsFilter([k \in DOMAIN f |-> IF k \in DOMAIN turn THEN turn[k] ELSE f[k]])
<1> DEFINE g == [k \in DOMAIN f |-> IF k \in DOMAIN turn THEN turn[k] ELSE f[k]]
<1>1. ("st" \in DOMAIN turn => turn.st \subseteq Statuses) /\ "tags" \notin DOMAIN turn
  BY TurnsAssumption
<1>2. DOMAIN f = DOMAIN Default /\ f.st \subseteq Statuses /\ f.tags \in Seq(TagTexts)
  BY DEF IsFilter
<1>3. {"st", "tags"} \subseteq DOMAIN f
  BY <1>2, HasStatuses
<1>4. g.st \subseteq Statuses
  <2>1. CASE "st" \in DOMAIN turn
    BY <1>1, <1>3, <2>1
  <2>2. CASE "st" \notin DOMAIN turn
    BY <1>2, <1>3, <2>2
  <2>3. QED  BY <2>1, <2>2
<1>5. DOMAIN g = DOMAIN Default
  BY <1>2
<1>6. g.tags = f.tags
  BY <1>1, <1>3
<1> HIDE DEF g
<1>7. QED
  <2>1. g = [k \in DOMAIN Default |-> g[k]]
    BY <1>5 DEF g
  <2>2. QED  BY <1>2, <1>4, <1>6, <2>1 DEF IsFilter, g

\* Boxes that show what is offered are shown so again.
LEMMA ShownAsLeft ==
  ASSUME NEW d, NEW e, e.tags = d.tags, e.versions = d.versions,
         NEW boxes, IsFilter(boxes), Offers(d, boxes)
  PROVE  Populate(e, Extract(boxes)) = [Extract(boxes) EXCEPT !.fl = Offered(@, Roots)]
<1> DEFINE f == Extract(boxes)
           col(g) == Offered(g.col, Collections(d.tags))
           cammake(g) == Offered(g.cammake, Makes)
           cammodel(g) == Offered(g.cammodel, Models(g.cammake))
           camlens(g) == Offered(g.camlens, LensesOf(d, g.cammake, g.cammodel))
<1>1. ASSUME NEW x, NEW y
      PROVE  LensesOf(e, x, y) = LensesOf(d, x, y)
  <2> DEFINE taken(g) == {g.versions[v].lens : v \in {u \in DOMAIN g.versions :
                            /\ x = EmptyWord.name \/ g.versions[u].camera.make = x
                            /\ y = EmptyWord.name \/ g.versions[u].camera.model = y}} \ {EmptyWord.name}
             lenses(s) == (IF x = EmptyWord.name /\ y = EmptyWord.name THEN Lenses ELSE s) \ Numbers
  <2>1. taken(e) = taken(d)
    OBVIOUS
  <2>2. ASSUME NEW g
        PROVE  LensesOf(g, x, y) = IF y = EmptyWord.name /\ Cardinality(lenses(taken(g))) > MaxListed
                                   THEN {} ELSE lenses(taken(g))
    <3>1. EmptyWord.name = ""
      BY DEF EmptyWord, Word
    <3>2. QED  BY <3>1, Zenon DEF LensesOf
  <2> HIDE DEF taken
  <2>3. QED  BY <2>1, <2>2, Zenon
<1>2. ASSUME NEW g
      PROVE  Populate(e, g) =
               [g EXCEPT !.col = col(g), !.cammake = cammake(g), !.cammodel = cammodel(g),
                         !.camlens = camlens(g), !.fl = Offered(g.fl, Roots)]
  BY <1>1, Zenon DEF Populate
<1>3. Populate(d, boxes) =
        [boxes EXCEPT !.col = col(boxes), !.cammake = cammake(boxes), !.cammodel = cammodel(boxes),
                      !.camlens = camlens(boxes), !.fl = Offered(boxes.fl, Roots)]
  BY Zenon DEF Populate
<1>4. [Populate(d, boxes) EXCEPT !.fl = boxes.fl] = boxes
  BY DEF Offers
<1>5. DOMAIN boxes = DOMAIN Default
  BY DEF IsFilter
<1> HIDE DEF col, cammake, cammodel, camlens
<1>6. /\ boxes.col = col(boxes) /\ boxes.cammake = cammake(boxes)
      /\ boxes.cammodel = cammodel(boxes) /\ boxes.camlens = camlens(boxes)
  BY <1>3, <1>4, <1>5, HasFields
<1>7. PICK located : /\ f = [[boxes EXCEPT !.hasfl = located] EXCEPT !.tags = NormalTexts(boxes.tags)]
                     /\ IsFilter(f)
  BY ExtractedFilter
<1> HIDE DEF f
<1>8. /\ f.col = boxes.col /\ f.cammake = boxes.cammake
      /\ f.cammodel = boxes.cammodel /\ f.camlens = boxes.camlens
  BY <1>7
<1>9. /\ col(f) = f.col /\ cammake(f) = f.cammake
      /\ cammodel(f) = f.cammodel /\ camlens(f) = f.camlens
  BY <1>6, <1>8 DEF col, cammake, cammodel, camlens
<1>10. Populate(e, f) =
         [f EXCEPT !.col = f.col, !.cammake = f.cammake, !.cammodel = f.cammodel,
                   !.camlens = f.camlens, !.fl = Offered(f.fl, Roots)]
  BY <1>2, <1>9
<1>11. f = [k \in DOMAIN Default |-> f[k]]
  BY <1>7 DEF IsFilter
<1>12. Populate(e, f) = [f EXCEPT !.fl = Offered(f.fl, Roots)]
  BY <1>10, <1>11
<1>13. QED  BY <1>12, Zenon DEF f

\* What passes depends on tags, versions and what is applied.
LEMMA PassesAlike ==
  ASSUME NEW d, NEW e, e.tags = d.tags, e.versions = d.versions, e.applied = d.applied, NEW f
  PROVE  Passing(e, f) = Passing(d, f)
<1>1. \A v : Applied(e, v) = Applied(d, v)
  BY DEF Applied
<1>2. ASSUME NEW v
      PROVE  Passes(e, f, v) <=> Passes(d, f, v)
  <2> DEFINE applied == Applied(d, v)
             tags == d.tags
  <2>0. Applied(e, v) = applied /\ Applied(d, v) = applied /\ e.tags = tags /\ d.tags = tags
    BY <1>1
  <2> HIDE DEF applied, tags
  <2>1. CollectionClause(e, f, v) <=> CollectionClause(d, f, v)
    <3>1. ASSUME NEW g, Applied(g, v) = applied, g.tags = tags
          PROVE  CollectionClause(g, f, v) <=>
                   IF f.col = EmptyWord.name
                   THEN applied \cap Children(tags, CollectionRoot(tags)) = {}
                   ELSE applied \cap FindCollection(tags, f.col) # {}
      <4>1. EmptyWord.name = ""
        BY DEF EmptyWord, Word
      <4>2. QED  BY <3>1, <4>1, Zenon DEF CollectionClause
    <3>2. QED  BY <2>0, <3>1, Zenon
  <2>2. ColorLabelClause(e, f, v) <=> ColorLabelClause(d, f, v)
    BY Zenon DEF ColorLabelClause
  <2>3. StarRatingClause(e, f, v) <=> StarRatingClause(d, f, v)
    BY Zenon DEF StarRatingClause
  <2>4. StatusClause(e, f, v) <=> StatusClause(d, f, v)
    BY Zenon DEF StatusClause
  <2>5. CameraClause(e, f, v) <=> CameraClause(d, f, v)
    BY Zenon DEF CameraClause
  <2>6. DateRangeClause(e, f, v) <=> DateRangeClause(d, f, v)
    BY Zenon DEF DateRangeClause
  <2>7. FileLocationClause(e, f, v) <=> FileLocationClause(d, f, v)
    BY DEF FileLocationClause
  <2>8. TagsClause(e, f, v) <=> TagsClause(d, f, v)
    <3>1. ASSUME NEW g, Applied(g, v) = applied, g.tags = tags
          PROVE  TagsClause(g, f, v) <=>
                   \A i \in DOMAIN f.tags : applied \cap SmartFindAll(tags, f.tags[i]) # {}
      BY <3>1 DEF TagsClause
    <3>2. QED  BY <2>0, <3>1, Zenon
  <2>9. QED  BY <2>1, <2>2, <2>3, <2>4, <2>5, <2>6, <2>7, <2>8, Zenon DEF Passes
<1>3. QED  BY <1>2 DEF Passing

\* A tag typed without a capital asks for what it asks for with one.
LEMMA CapitalsPassAlike ==
  ASSUME NEW d, NEW f, IsFilter(f), NEW g, g = [f EXCEPT !.tags = NormalTexts(f.tags)]
  PROVE  Passing(d, g) = Passing(d, f)
<1>1. f = [k \in DOMAIN Default |-> f[k]] /\ f.tags \in Seq(TagTexts)
  BY DEF IsFilter
<1>2. g.tags = NormalTexts(f.tags)
  BY <1>1, HasStatuses
<1>3. ASSUME NEW v
      PROVE  TagsClause(d, g, v) <=> TagsClause(d, f, v)
  <2>1. DOMAIN g.tags = DOMAIN f.tags
    BY <1>1, <1>2, NormalTextsFind
  <2>2. \A n \in DOMAIN f.tags : SmartFindAll(d.tags, g.tags[n]) = SmartFindAll(d.tags, f.tags[n])
    BY <1>1, <1>2, NormalTextsFind
  <2>3. QED  BY <2>1, <2>2 DEF TagsClause
<1>4. /\ g.hascol = f.hascol /\ g.col = f.col /\ g.hascl = f.hascl /\ g.cl = f.cl
      /\ g.hassr = f.hassr /\ g.minsr = f.minsr /\ g.maxsr = f.maxsr
      /\ g.hasst = f.hasst /\ g.st = f.st
      /\ g.hascam = f.hascam /\ g.cammake = f.cammake /\ g.cammodel = f.cammodel /\ g.camlens = f.camlens
      /\ g.hasdr = f.hasdr /\ g.startdate = f.startdate /\ g.enddate = f.enddate
      /\ g.hasfl = f.hasfl /\ g.fl = f.fl /\ g.hastags = f.hastags
  OBVIOUS
<1>5. ASSUME NEW v
      PROVE  Passes(d, g, v) <=> Passes(d, f, v)
  <2>1. CollectionClause(d, g, v) <=> CollectionClause(d, f, v)
    BY <1>4, Zenon DEF CollectionClause
  <2>2. ColorLabelClause(d, g, v) <=> ColorLabelClause(d, f, v)
    BY <1>4, Zenon DEF ColorLabelClause
  <2>3. StarRatingClause(d, g, v) <=> StarRatingClause(d, f, v)
    BY <1>4, Zenon DEF StarRatingClause
  <2>4. StatusClause(d, g, v) <=> StatusClause(d, f, v)
    BY <1>4, Zenon DEF StatusClause
  <2>5. CameraClause(d, g, v) <=> CameraClause(d, f, v)
    BY <1>4, Zenon DEF CameraClause
  <2>6. DateRangeClause(d, g, v) <=> DateRangeClause(d, f, v)
    BY <1>4, Zenon DEF DateRangeClause
  <2>7. FileLocationClause(d, g, v) <=> FileLocationClause(d, f, v)
    BY <1>4, Zenon DEF FileLocationClause
  <2>8. QED
    BY <1>3, <1>4, <2>1, <2>2, <2>3, <2>4, <2>5, <2>6, <2>7, Zenon DEF Passes
<1>6. QED  BY <1>5 DEF Passing

-----------------------------------------------------------------------------
(* The inductive invariant: the tables are sound, and panel, tag managers and *)
(* dialogue show only tags that are there, texts that were typed and filters. *)

PanelIsSound(tags, p) ==
  /\ p = [tags |-> p.tags, all |-> p.all, text |-> p.text]
  /\ p.tags \subseteq Ids(tags)
  /\ p.text = <<>> \/ \E text \in Texts : p.text = <<text>>
IsWindow(tags, w) == w = <<>> \/ \E b : w = <<b>> /\ IsManager(tags, b)
IsDialog(tags, g) ==
  g = <<>> \/ \E boxes, w : /\ g = <<[boxes |-> boxes, browser |-> w]>>
                            /\ IsFilter(boxes) /\ IsWindow(tags, w)

Inv ==
  /\ IsSound(desk)
  /\ PanelIsSound(desk.tags, panel)
  /\ IsWindow(desk.tags, manager)
  /\ IsDialog(desk.tags, dialog)

\* More tags do no harm to the panel,
LEMMA PanelGrows ==
  ASSUME NEW d, NEW e, More(d, e), NEW p, PanelIsSound(d, p)
  PROVE  PanelIsSound(e, p)
BY DEF PanelIsSound, More

\* to a tag manager,
LEMMA WindowGrows ==
  ASSUME NEW d, NEW e, More(d, e), NEW w, IsWindow(d, w)
  PROVE  IsWindow(e, w)
BY ManagerGrows DEF IsWindow

\* or to the dialogue.
LEMMA DialogGrows ==
  ASSUME NEW d, NEW e, More(d, e), NEW g, IsDialog(d, g)
  PROVE  IsDialog(e, g)
BY WindowGrows DEF IsDialog

\* A panel listed anew shows tags that are there, and no text.
LEMMA RelistedPanel ==
  ASSUME NEW d
  PROVE  PanelIsSound(d.tags, Relist(d))
<1>1. AppliedToAny(d) \subseteq Ids(d.tags)
  BY DEF AppliedToAny
<1>2. Relist(d) = [tags |-> AppliedToAny(d), all |-> AppliedToAll(d), text |-> <<>>]
  BY DEF Relist
<1>3. /\ Relist(d).tags = AppliedToAny(d) /\ Relist(d).all = AppliedToAll(d)
      /\ Relist(d).text = <<>>
  BY <1>2
<1>4. QED  BY <1>1, <1>2, <1>3 DEF PanelIsSound

\* Typing a text, or dropping it, leaves a panel sound.
LEMMA PanelWithText ==
  ASSUME NEW tags, NEW p, PanelIsSound(tags, p)
  PROVE  /\ PanelIsSound(tags, [p EXCEPT !.text = <<>>])
         /\ \A text \in Texts : PanelIsSound(tags, [p EXCEPT !.text = <<text>>])
<1>1. ASSUME NEW s, s = <<>> \/ \E text \in Texts : s = <<text>>
      PROVE  PanelIsSound(tags, [p EXCEPT !.text = s])
  <2> DEFINE q == [p EXCEPT !.text = s]
  <2>1. q = [tags |-> p.tags, all |-> p.all, text |-> s]
    BY DEF PanelIsSound
  <2> HIDE DEF q
  <2>2. q.tags = p.tags /\ q.all = p.all /\ q.text = s
    BY <2>1
  <2>3. p.tags \subseteq Ids(tags)
    BY DEF PanelIsSound
  <2>4. PanelIsSound(tags, q)
    BY <1>1, <2>1, <2>2, <2>3 DEF PanelIsSound
  <2>5. QED  BY <2>4 DEF q
<1>2. PanelIsSound(tags, [p EXCEPT !.text = <<>>])
  BY <1>1
<1>3. ASSUME NEW text \in Texts
      PROVE  PanelIsSound(tags, [p EXCEPT !.text = <<text>>])
  BY <1>1
<1>4. QED  BY <1>2, <1>3

\* A window with a sound manager,
LEMMA OpenedManager ==
  ASSUME NEW tags, NEW b, IsManager(tags, b)
  PROVE  IsWindow(tags, <<b>>)
BY DEF IsWindow

\* the manager of a window,
LEMMA ShownManager ==
  ASSUME NEW tags, NEW w, IsWindow(tags, w), w # <<>>
  PROVE  IsManager(tags, w[1])
BY DEF IsWindow

\* and a dialogue with a filter and a window.
LEMMA ShownDialog ==
  ASSUME NEW tags, NEW boxes, IsFilter(boxes), NEW w, IsWindow(tags, w)
  PROVE  IsDialog(tags, <<[boxes |-> boxes, browser |-> w]>>)
BY DEF IsDialog

\* Changes of the dialogue.
LEMMA ChangedDialog ==
  ASSUME NEW tags, NEW g, IsDialog(tags, g), g # <<>>
  PROVE  /\ IsFilter(g[1].boxes) /\ IsWindow(tags, g[1].browser)
         /\ \A boxes : IsFilter(boxes) => IsDialog(tags, <<[g[1] EXCEPT !.boxes = boxes]>>)
         /\ \A w : IsWindow(tags, w) => IsDialog(tags, <<[g[1] EXCEPT !.browser = w]>>)
<1>1. PICK old, u : g = <<[boxes |-> old, browser |-> u]>> /\ IsFilter(old) /\ IsWindow(tags, u)
  BY DEF IsDialog
<1>2. g[1] = [boxes |-> old, browser |-> u]
  BY <1>1
<1>3. ASSUME NEW boxes, IsFilter(boxes)
      PROVE  IsDialog(tags, <<[g[1] EXCEPT !.boxes = boxes]>>)
  <2>1. [g[1] EXCEPT !.boxes = boxes] = [boxes |-> boxes, browser |-> u]
    BY <1>2
  <2>2. QED  BY <1>1, <1>3, <2>1, ShownDialog
<1>4. ASSUME NEW w, IsWindow(tags, w)
      PROVE  IsDialog(tags, <<[g[1] EXCEPT !.browser = w]>>)
  <2>1. [g[1] EXCEPT !.browser = w] = [boxes |-> old, browser |-> w]
    BY <1>2
  <2>2. QED  BY <1>1, <1>4, <2>1, ShownDialog
<1>5. IsFilter(g[1].boxes) /\ IsWindow(tags, g[1].browser)
  BY <1>1, <1>2
<1>6. QED  BY <1>3, <1>4, <1>5

\* It is enough that the tables stay sound and lose no tag, and that each of
\* the others stays as it is or is right again.
LEMMA InvStep ==
  ASSUME Inv, IsSound(desk'), More(desk.tags, desk'.tags),
         panel' = panel \/ PanelIsSound(desk'.tags, panel'),
         manager' = manager \/ IsWindow(desk'.tags, manager'),
         dialog' = dialog \/ IsDialog(desk'.tags, dialog')
  PROVE  Inv'
<1>1. PICK e : e = desk'
  OBVIOUS
<1>2. More(desk.tags, e.tags)
  BY <1>1
<1>3. PanelIsSound(e.tags, panel) /\ IsWindow(e.tags, manager) /\ IsDialog(e.tags, dialog)
  BY <1>2, PanelGrows, WindowGrows, DialogGrows DEF Inv
<1>4. PanelIsSound(desk'.tags, panel') /\ IsWindow(desk'.tags, manager') /\ IsDialog(desk'.tags, dialog')
  BY <1>1, <1>3
<1>5. QED  BY <1>4 DEF Inv

\* What is applied, to the selection or to some of it.
LEMMA ApplyToSelectionKeeps ==
  ASSUME Inv, NEW t \in Ids(desk.tags), ApplyToSelection(t)
  PROVE  /\ IsSound(desk') /\ More(desk.tags, desk'.tags)
         /\ panel' = panel \/ PanelIsSound(desk'.tags, panel')
<1>1. IsSound(desk)
  BY DEF Inv
<1>2. CASE Commit(ApplyTag(desk, desk.selection, t))
  <2>1. PICK e : e = ApplyTag(desk, desk.selection, t)
    OBVIOUS
  <2>2. IsSound(e) /\ e.tags = desk.tags
    BY <1>1, <2>1, ApplyTagKeeps
  <2>3. PanelIsSound(e.tags, Relist(e)) /\ More(desk.tags, e.tags)
    BY <2>2, RelistedPanel, MoreOfItself
  <2>4. desk' = e /\ panel' = Relist(e)
    BY <1>2, <2>1 DEF Commit
  <2>5. QED  BY <2>2, <2>3, <2>4
<1>3. CASE Abort(desk)
  BY <1>1, <1>3, MoreOfItself DEF Abort
<1>4. QED  BY <1>2, <1>3 DEF ApplyToSelection

\* What Enter applies or makes.
LEMMA EditorActionKeeps ==
  ASSUME Inv, EditorAction
  PROVE  Inv'
<1>1. PICK text \in Texts : panel.text = <<text>>
  BY DEF Inv, PanelIsSound, EditorAction
<1>2. PICK made : made = TagFor(desk.tags, text)
  OBVIOUS
<1>3. PICK grown : grown = [desk EXCEPT !.tags = made.tags]
  OBVIOUS
<1>4. /\ made.tag # 0 /\ manager' = manager /\ dialog' = dialog
      /\ \/ Gone(desk) = {} /\ Commit(ApplyTag(grown, desk.selection, made.tag))
         \/ \E some \in SUBSET (desk.selection \ Gone(desk)) : Abort(ApplyTag(grown, some, made.tag))
  <2>1. panel.text[1] = text
    BY <1>1
  <2>2. QED  BY <1>2, <1>3, <2>1 DEF EditorAction
<1>5. IsTree(made.tags) /\ More(desk.tags, made.tags) /\ made.tag \in Ids(made.tags)
  BY <1>2, <1>4, TypedTexts, TagForGrows DEF Inv, IsSound
<1>6. IsSound(grown) /\ grown.tags = made.tags
  BY <1>3, <1>5, GrownDeskIsSound DEF Inv
<1>7. ASSUME NEW vs
      PROVE  IsSound(ApplyTag(grown, vs, made.tag)) /\ ApplyTag(grown, vs, made.tag).tags = made.tags
  BY <1>5, <1>6, ApplyTagKeeps
<1>8. CASE Commit(ApplyTag(grown, desk.selection, made.tag))
  <2>1. PICK e : e = ApplyTag(grown, desk.selection, made.tag)
    OBVIOUS
  <2>2. IsSound(e) /\ e.tags = made.tags
    BY <1>7, <2>1
  <2>3. PanelIsSound(e.tags, Relist(e))
    BY RelistedPanel
  <2>4. desk' = e /\ panel' = Relist(e)
    BY <1>8, <2>1 DEF Commit
  <2>5. IsSound(desk') /\ More(desk.tags, desk'.tags) /\ PanelIsSound(desk'.tags, panel')
    BY <1>5, <2>2, <2>3, <2>4
  <2>6. QED  BY <1>4, <2>5, InvStep
<1>9. CASE \E some \in SUBSET (desk.selection \ Gone(desk)) : Abort(ApplyTag(grown, some, made.tag))
  <2>1. PICK some : Abort(ApplyTag(grown, some, made.tag))
    BY <1>9
  <2>2. PICK e : e = ApplyTag(grown, some, made.tag)
    OBVIOUS
  <2>3. IsSound(e) /\ e.tags = made.tags
    BY <1>7, <2>2
  <2>4. desk' = e /\ panel' = panel
    BY <2>1, <2>2 DEF Abort
  <2>5. IsSound(desk') /\ More(desk.tags, desk'.tags)
    BY <1>5, <2>3, <2>4
  <2>6. QED  BY <1>4, <2>4, <2>5, InvStep
<1>10. QED  BY <1>4, <1>8, <1>9

\* The panel, its tag manager and what they apply and remove.
LEMMA PanelKeeps ==
  ASSUME Inv, Type \/ Escape \/ PressAdd \/ PressRemove
              \/ ClickBrowse \/ Choose \/ ClickApply \/ ClickClose
  PROVE  Inv'
<1>1. /\ IsSound(desk) /\ PanelIsSound(desk.tags, panel) /\ IsWindow(desk.tags, manager)
      /\ More(desk.tags, desk.tags)
  BY MoreOfItself DEF Inv
<1>2. ASSUME desk' = desk,
             panel' = panel \/ PanelIsSound(desk.tags, panel'),
             manager' = manager \/ IsWindow(desk.tags, manager'),
             dialog' = dialog
      PROVE  Inv'
  BY <1>1, <1>2, InvStep
<1>3. CASE Type
  <2>1. PICK text \in Texts : panel' = [panel EXCEPT !.text = <<text>>]
    BY <1>3 DEF Type
  <2>2. PanelIsSound(desk.tags, [panel EXCEPT !.text = <<text>>])
    BY <1>1, PanelWithText
  <2>3. QED  BY <1>2, <1>3, <2>1, <2>2 DEF Type
<1>4. CASE Escape
  <2>1. PanelIsSound(desk.tags, [panel EXCEPT !.text = <<>>])
    BY <1>1, PanelWithText
  <2>2. QED  BY <1>2, <1>4, <2>1 DEF Escape
<1>5. CASE PressAdd
  <2>1. PICK t \in panel.tags : ApplyToSelection(t)
    BY <1>5 DEF PressAdd
  <2>2. t \in Ids(desk.tags)
    BY <1>1 DEF PanelIsSound
  <2>3. /\ IsSound(desk') /\ More(desk.tags, desk'.tags)
        /\ panel' = panel \/ PanelIsSound(desk'.tags, panel')
    BY <2>1, <2>2, ApplyToSelectionKeeps
  <2>4. manager' = manager /\ dialog' = dialog
    BY <1>5 DEF PressAdd
  <2>5. QED  BY <2>3, <2>4, InvStep
<1>6. CASE PressRemove
  <2>1. PICK t : Commit(RemoveTag(desk, desk.selection, t))
    BY <1>6 DEF PressRemove
  <2>2. PICK e : e = RemoveTag(desk, desk.selection, t)
    OBVIOUS
  <2>3. IsSound(e) /\ e.tags = desk.tags
    BY <1>1, <2>2, RemoveTagKeeps
  <2>4. PanelIsSound(e.tags, Relist(e))
    BY RelistedPanel
  <2>5. desk' = e /\ panel' = Relist(e)
    BY <2>1, <2>2 DEF Commit
  <2>6. IsSound(desk') /\ More(desk.tags, desk'.tags) /\ PanelIsSound(desk'.tags, panel')
    BY <1>1, <2>3, <2>4, <2>5
  <2>7. manager' = manager /\ dialog' = dialog
    BY <1>6 DEF PressRemove
  <2>8. QED  BY <2>6, <2>7, InvStep
<1>7. CASE ClickBrowse
  <2>1. IsWindow(desk.tags, <<NewManager(desk.tags)>>)
    BY NewManagerShowsTags, OpenedManager
  <2>2. QED  BY <1>2, <1>7, <2>1 DEF ClickBrowse
<1>8. CASE Choose
  <2>1. IsManager(desk.tags, manager[1])
    BY <1>1, <1>8, ShownManager DEF Choose
  <2>2. PICK c \in Items(manager[1]) : manager' = <<UpdateSelection(desk.tags, manager[1], c[1], c[2])>>
    BY <1>8 DEF Choose
  <2>3. IsWindow(desk.tags, <<UpdateSelection(desk.tags, manager[1], c[1], c[2])>>)
    BY <2>1, UpdatedManagerShowsTags, OpenedManager
  <2>4. QED  BY <1>2, <1>8, <2>2, <2>3 DEF Choose
<1>9. CASE ClickApply
  <2>1. IsManager(desk.tags, manager[1])
    BY <1>1, <1>9, ShownManager DEF ClickApply
  <2>2. TerminalTag(manager[1]) \in Ids(desk.tags) /\ ApplyToSelection(TerminalTag(manager[1]))
    BY <1>9, <2>1, TerminalTags DEF ClickApply
  <2>3. /\ IsSound(desk') /\ More(desk.tags, desk'.tags)
        /\ panel' = panel \/ PanelIsSound(desk'.tags, panel')
    BY <2>2, ApplyToSelectionKeeps
  <2>4. IsWindow(desk'.tags, manager') /\ dialog' = dialog
    BY <1>9 DEF ClickApply, IsWindow
  <2>5. QED  BY <2>3, <2>4, InvStep
<1>10. CASE ClickClose
  <2>1. IsWindow(desk.tags, <<>>)
    BY DEF IsWindow
  <2>2. QED  BY <1>2, <1>10, <2>1 DEF ClickClose
<1>11. QED  BY <1>3, <1>4, <1>5, <1>6, <1>7, <1>8, <1>9, <1>10

\* The selection, and the filter as it is applied anew.
LEMMA SelectionKeeps ==
  ASSUME Inv, SelectSlides \/ SelectAll \/ UpdatedBatch
  PROVE  Inv'
<1>1. IsSound(desk) /\ IsDesk(desk)
  BY DEF Inv, IsSound
<1>2. ASSUME NEW e, IsDesk(e), e.tags = desk.tags, e.applied = desk.applied, e.rows = desk.rows
      PROVE  IsSound(e) /\ More(desk.tags, e.tags)
  BY <1>1, <1>2, KeptTagsAreSound, MoreOfItself
<1>3. CASE SelectSlides
  <2>1. PICK vs, cur : /\ desk' = [desk EXCEPT !.selection = vs, !.current = cur]
                       /\ panel' = Relist(desk')
    BY <1>3 DEF SelectSlides
  <2>2. PICK d : d = [desk EXCEPT !.selection = vs]
    OBVIOUS
  <2>3. PICK e : e = [d EXCEPT !.current = cur]
    OBVIOUS
  <2>4. desk' = e
    BY <2>1, <2>2, <2>3
  <2>5. IsDesk(e) /\ e.tags = desk.tags /\ e.applied = desk.applied /\ e.rows = desk.rows
    <3>1. IsDesk(d) /\ d.tags = desk.tags /\ d.applied = desk.applied /\ d.rows = desk.rows
      BY <1>1, <2>2, SelectedDesk
    <3>2. QED  BY <2>3, <3>1, CurrentDesk
  <2>6. IsSound(e) /\ More(desk.tags, e.tags) /\ PanelIsSound(e.tags, Relist(e))
    BY <1>2, <2>5, RelistedPanel
  <2>7. IsSound(desk') /\ More(desk.tags, desk'.tags) /\ PanelIsSound(desk'.tags, panel')
    BY <2>1, <2>4, <2>6
  <2>8. manager' = manager /\ dialog' = dialog
    BY <1>3 DEF SelectSlides
  <2>9. QED  BY <2>7, <2>8, InvStep
<1>4. CASE SelectAll
  <2>1. PICK e : e = [desk EXCEPT !.selection = desk.selection \cup desk.filter]
    OBVIOUS
  <2>2. desk' = e
    BY <1>4, <2>1 DEF SelectAll
  <2>3. IsDesk(e) /\ e.tags = desk.tags /\ e.applied = desk.applied /\ e.rows = desk.rows
    BY <1>1, <2>1, SelectedDesk
  <2>4. IsSound(desk') /\ More(desk.tags, desk'.tags)
    BY <1>2, <2>2, <2>3
  <2>5. panel' = panel /\ manager' = manager /\ dialog' = dialog
    BY <1>4 DEF SelectAll
  <2>6. QED  BY <2>4, <2>5, InvStep
<1>5. CASE UpdatedBatch
  <2>1. PICK e : e = ApplyFilterSettings(desk)
    OBVIOUS
  <2>2. IsSound(e) /\ More(desk.tags, e.tags)
    BY <1>1, <1>2, <2>1, FilterAppliedKeeps
  <2>3. IsSound(desk') /\ More(desk.tags, desk'.tags)
    BY <1>5, <2>1, <2>2 DEF UpdatedBatch
  <2>4. panel' = panel /\ manager' = manager /\ dialog' = dialog
    BY <1>5 DEF UpdatedBatch
  <2>5. QED  BY <2>3, <2>4, InvStep
<1>6. QED  BY <1>3, <1>4, <1>5

\* What the dialogue shows.
LEMMA DialogKeeps ==
  ASSUME Inv, ShowDialog \/ Turn \/ BrowseTags \/ ChooseInDialog \/ Accept \/ ClickCancel
  PROVE  Inv'
<1>1. IsSound(desk) /\ IsDialog(desk.tags, dialog) /\ More(desk.tags, desk.tags)
  BY MoreOfItself DEF Inv
<1>2. ASSUME desk' = desk, panel' = panel, manager' = manager, IsDialog(desk.tags, dialog')
      PROVE  Inv'
  BY <1>1, <1>2, InvStep
<1>3. IsWindow(desk.tags, <<>>)
  BY DEF IsWindow
<1>4. CASE ShowDialog
  <2>1. IsFilter(LoadFromDb(desk.rows))
    BY <1>1, ReadIsFilter DEF IsSound
  <2>2. IsFilter(Populate(desk, LoadFromDb(desk.rows)))
    BY <2>1, PopulatedFilter
  <2>3. IsDialog(desk.tags, <<[boxes |-> Populate(desk, LoadFromDb(desk.rows)), browser |-> <<>>]>>)
    BY <1>3, <2>2, ShownDialog
  <2>4. QED  BY <1>2, <1>4, <2>3 DEF ShowDialog
<1>5. CASE Turn
  <2>1. IsFilter(dialog[1].boxes) /\ \A boxes : IsFilter(boxes) => IsDialog(desk.tags, <<[dialog[1] EXCEPT !.boxes = boxes]>>)
    BY <1>1, <1>5, ChangedDialog DEF Turn, InDialog
  <2>2. PICK old : old = dialog[1].boxes
    OBVIOUS
  <2>3. ASSUME NEW turn \in Turns
        PROVE  IsFilter(Turned(old, turn))
    <3> DEFINE turned == [k \in DOMAIN old |-> IF k \in DOMAIN turn THEN turn[k] ELSE old[k]]
    <3>1. IsFilter(turned)
      BY <2>1, <2>2, OneTurned
    <3>2. \/ Turned(old, turn) = SetMaker(desk, turned) \/ Turned(old, turn) = SetCamera(desk, turned)
          \/ Turned(old, turn) = turned
      BY DEF Turned
    <3> HIDE DEF turned
    <3>3. IsFilter(SetMaker(desk, turned)) /\ IsFilter(SetCamera(desk, turned))
      BY <3>1, CameraFilter
    <3>4. QED  BY <3>1, <3>2, <3>3
  <2>4. ASSUME NEW boxes, IsFilter(boxes), SetBoxes(boxes)
        PROVE  Inv'
    <3>1. IsDialog(desk.tags, dialog')
      BY <2>1, <2>4 DEF SetBoxes
    <3>2. QED  BY <1>2, <1>5, <3>1 DEF Turn
  <2>5. CASE \E turn \in Turns : SetBoxes(Turned(old, turn))
    BY <2>3, <2>4, <2>5
  <2>6. CASE SetBoxes(SelectAllLabels(old))
    BY <2>1, <2>2, <2>4, <2>6, LabelledFilter
  <2>7. CASE \E text \in Texts : SetBoxes([old EXCEPT !.hastags = TRUE, !.tags = Append(@, text)])
    <3>1. PICK text \in Texts : SetBoxes([old EXCEPT !.hastags = TRUE, !.tags = Append(@, text)])
      BY <2>7
    <3>2. IsFilter([old EXCEPT !.hastags = TRUE])
      BY <2>1, <2>2, ChangedFilter
    <3>3. PICK texts \in Seq(TagTexts) : [old EXCEPT !.hastags = TRUE, !.tags = Append(@, text)]
                         = [[old EXCEPT !.hastags = TRUE] EXCEPT !.tags = texts]
      <4>1. Append(old.tags, text) \in Seq(TagTexts)
        BY <2>1, <2>2, TypedTexts DEF IsFilter
      <4>2. QED  BY <4>1
    <3>4. IsFilter([[old EXCEPT !.hastags = TRUE] EXCEPT !.tags = texts])
      BY <3>2, TaggedFilter
    <3>5. QED  BY <2>4, <3>1, <3>3, <3>4
  <2>8. \/ \E turn \in Turns : SetBoxes(Turned(old, turn))
        \/ SetBoxes(SelectAllLabels(old))
        \/ \E text \in Texts : SetBoxes([old EXCEPT !.hastags = TRUE, !.tags = Append(@, text)])
    BY <1>5, <2>2 DEF Turn
  <2>9. QED  BY <2>5, <2>6, <2>7, <2>8
<1>6. CASE BrowseTags
  <2>1. IsWindow(desk.tags, <<NewManager(desk.tags)>>)
    BY NewManagerShowsTags, OpenedManager
  <2>2. IsDialog(desk.tags, <<[dialog[1] EXCEPT !.browser = <<NewManager(desk.tags)>>]>>)
    BY <1>1, <1>6, <2>1, ChangedDialog DEF BrowseTags, InDialog
  <2>3. QED  BY <1>2, <1>6, <2>2 DEF BrowseTags
<1>7. CASE ChooseInDialog
  <2>1. dialog # <<>> /\ dialog[1].browser # <<>>
    BY <1>7 DEF ChooseInDialog, Browsing
  <2>2. IsWindow(desk.tags, dialog[1].browser)
    BY <1>1, <2>1, ChangedDialog
  <2>3. PICK b : b = dialog[1].browser[1]
    OBVIOUS
  <2>4. IsManager(desk.tags, b)
    BY <2>1, <2>2, <2>3, ShownManager
  <2>5. PICK c \in Items(b) :
          dialog' = <<[dialog[1] EXCEPT !.browser = <<UpdateSelection(desk.tags, b, c[1], c[2])>>]>>
    BY <1>7, <2>3 DEF ChooseInDialog
  <2>6. PICK w : w = <<UpdateSelection(desk.tags, b, c[1], c[2])>>
    OBVIOUS
  <2>7. IsWindow(desk.tags, w)
    BY <2>4, <2>6, UpdatedManagerShowsTags, OpenedManager
  <2>8. IsDialog(desk.tags, dialog')
    BY <1>1, <2>1, <2>5, <2>6, <2>7, ChangedDialog
  <2>9. QED  BY <1>2, <1>7, <2>8 DEF ChooseInDialog
<1>8. CASE Accept
  <2>2. IsFilter(dialog[1].boxes)
    BY <1>1, <1>8, ChangedDialog DEF Accept, Browsing
  <2>1. PICK texts \in Seq(TagTexts) :
           dialog' = <<[boxes |-> [dialog[1].boxes EXCEPT !.tags = texts], browser |-> <<>>]>>
    <3>1. PICK b, t : /\ b = dialog[1].browser[1] /\ t = TerminalTag(b) /\ t # 0
                      /\ dialog' = <<[boxes |-> [dialog[1].boxes EXCEPT !.tags = Append(@, SmartName(desk.tags, t))],
                                       browser |-> <<>>]>>
      BY <1>8 DEF Accept
    <3>2. IsManager(desk.tags, b)
      BY <1>1, <1>8, <3>1, ChangedDialog, ShownManager DEF Accept, Browsing
    <3>3. SmartName(desk.tags, t) \in TagTexts
      BY <1>1, <3>1, <3>2, TerminalTags, SmartNamesAreTexts DEF IsSound
    <3>4. Append(dialog[1].boxes.tags, SmartName(desk.tags, t)) \in Seq(TagTexts)
      BY <2>2, <3>3 DEF IsFilter
    <3>5. QED  BY <3>1, <3>4
  <2>3. IsFilter([dialog[1].boxes EXCEPT !.tags = texts])
    BY <2>2, TaggedFilter
  <2>4. IsDialog(desk.tags, dialog')
    BY <1>3, <2>1, <2>3, ShownDialog
  <2>5. QED  BY <1>2, <1>8, <2>4 DEF Accept
<1>9. CASE ClickCancel
  <2>1. dialog # <<>>
    BY <1>9 DEF ClickCancel
  <2>2. IsDialog(desk.tags, <<[dialog[1] EXCEPT !.browser = <<>>]>>)
    BY <1>1, <1>3, <2>1, ChangedDialog
  <2>3. IsDialog(desk.tags, <<>>)
    BY DEF IsDialog
  <2>4. QED  BY <1>2, <1>9, <2>2, <2>3 DEF ClickCancel
<1>10. QED  BY <1>4, <1>5, <1>6, <1>7, <1>8, <1>9

\* What OK stores: the rows are those of the boxes, and tags, versions and what
\* is applied are as they were.
LEMMA ClickedOK ==
  ASSUME NEW d, IsDesk(d), NEW f, NEW e \in SelectNearest(ApplyFilterSettings([d EXCEPT !.rows = SaveToDb(f)]))
  PROVE  /\ IsDesk(e) /\ e.tags = d.tags /\ e.applied = d.applied /\ e.versions = d.versions
         /\ e.rows = SaveToDb(f)
         /\ e.filter = Passing([d EXCEPT !.rows = SaveToDb(f)], LoadFromDb(SaveToDb(f)))
<1>1. PICK rows : rows = SaveToDb(f)
  OBVIOUS
<1>2. PICK stored : stored = [d EXCEPT !.rows = rows]
  OBVIOUS
<1>3. stored = [tags |-> d.tags, applied |-> d.applied, versions |-> d.versions,
                selection |-> d.selection, current |-> d.current, rows |-> rows, filter |-> d.filter]
  BY <1>2 DEF IsDesk
<1>4. /\ IsDesk(stored) /\ stored.tags = d.tags /\ stored.applied = d.applied
      /\ stored.versions = d.versions /\ stored.rows = rows
  BY <1>3 DEF IsDesk
<1>5. PICK filtered : filtered = ApplyFilterSettings(stored)
  OBVIOUS
<1>6. /\ IsDesk(filtered) /\ filtered.tags = d.tags /\ filtered.applied = d.applied
      /\ filtered.versions = d.versions /\ filtered.rows = rows
      /\ filtered.filter = Passing(stored, LoadFromDb(rows))
  BY <1>4, <1>5, FilterAppliedKeeps
<1>7. e \in SelectNearest(filtered)
  BY <1>1, <1>2, <1>5
<1>8. /\ IsDesk(e) /\ e.tags = d.tags /\ e.applied = d.applied /\ e.versions = d.versions
      /\ e.rows = rows /\ e.filter = Passing(stored, LoadFromDb(rows))
  BY <1>6, <1>7, NearestKeeps
<1>9. QED  BY <1>1, <1>2, <1>8

\* What OK and Reset store.
LEMMA ClosedDialogKeeps ==
  ASSUME Inv, ClickOK \/ ClickReset
  PROVE  Inv'
<1>1. IsSound(desk) /\ IsDesk(desk) /\ IsDialog(desk.tags, dialog)
  BY DEF Inv, IsSound
<1>2. CASE ClickOK
  <2>1. PICK e \in SelectNearest(ApplyFilterSettings([desk EXCEPT !.rows = SaveToDb(Extract(dialog[1].boxes))])) :
           desk' = e /\ panel' = Relist(e)
    BY <1>2 DEF ClickOK
  <2>2. PICK f : f = Extract(dialog[1].boxes)
    OBVIOUS
  <2>3. /\ IsDesk(e) /\ e.tags = desk.tags /\ e.applied = desk.applied
        /\ e.rows = SaveToDb(f)
    BY <1>1, <2>1, <2>2, ClickedOK
  <2>4. IsSound(e)
    <3>1. f.tags \in Seq(TagTexts)
      <4>1. IsFilter(dialog[1].boxes)
        BY <1>1, <1>2, ChangedDialog DEF ClickOK, InDialog
      <4>2. QED  BY <2>2, <4>1, ExtractedFilter DEF IsFilter
    <3>2. (\A row \in SaveToDb(f).single : row[1] \in SingleKeys) /\ SaveToDb(f).tags \in Seq(TagTexts)
      BY <3>1, StoredRows
    <3>3. QED  BY <1>1, <2>3, <3>2, KeptTagsAreSound
  <2>5. PanelIsSound(e.tags, Relist(e)) /\ More(desk.tags, e.tags)
    BY <2>3, RelistedPanel, MoreOfItself
  <2>6. IsDialog(e.tags, <<>>)
    BY DEF IsDialog
  <2>7. /\ IsSound(desk') /\ More(desk.tags, desk'.tags) /\ PanelIsSound(desk'.tags, panel')
        /\ IsDialog(desk'.tags, <<>>)
    BY <2>1, <2>4, <2>5, <2>6
  <2>8. manager' = manager /\ dialog' = <<>>
    BY <1>2 DEF ClickOK
  <2>9. QED  BY <2>7, <2>8, InvStep
<1>3. CASE ClickReset
  <2>1. PICK e : e = [desk EXCEPT !.rows = SaveToDb(Default)]
    OBVIOUS
  <2>2. PICK rows : rows = SaveToDb(Default)
    OBVIOUS
  <2>3. e = [tags |-> desk.tags, applied |-> desk.applied, versions |-> desk.versions,
             selection |-> desk.selection, current |-> desk.current, rows |-> rows, filter |-> desk.filter]
    BY <1>1, <2>1, <2>2 DEF IsDesk
  <2>4. IsDesk(e) /\ e.tags = desk.tags /\ e.applied = desk.applied /\ e.rows = rows
    BY <2>3 DEF IsDesk
  <2>5. (\A row \in rows.single : row[1] \in SingleKeys) /\ rows.tags \in Seq(TagTexts)
    BY <2>2, StoredRows, DefaultIsFilter DEF IsFilter
  <2>6. IsSound(e) /\ More(desk.tags, e.tags)
    BY <1>1, <2>4, <2>5, KeptTagsAreSound, MoreOfItself
  <2>7. desk' = e /\ SetBoxes(Populate(desk, LoadFromDb(desk'.rows))) /\ dialog # <<>>
    BY <1>3, <2>1 DEF ClickReset, InDialog
  <2>8. IsFilter(Populate(desk, LoadFromDb(rows)))
    BY <2>5, ReadIsFilter, PopulatedFilter
  <2>9. PICK boxes : boxes = Populate(desk, LoadFromDb(rows))
    OBVIOUS
  <2>10. dialog' = <<[dialog[1] EXCEPT !.boxes = boxes]>>
    <3>1. desk'.rows = rows
      BY <2>4, <2>7
    <3>2. SetBoxes(boxes)
      BY <2>7, <2>9, <3>1
    <3>3. QED  BY <3>2 DEF SetBoxes
  <2>11. IsDialog(desk.tags, dialog')
    BY <1>1, <2>7, <2>8, <2>9, <2>10, ChangedDialog
  <2>12. /\ IsSound(desk') /\ More(desk.tags, desk'.tags) /\ IsDialog(desk'.tags, dialog')
    BY <2>4, <2>6, <2>7, <2>11
  <2>13. manager' = manager /\ panel' = panel
    BY <1>3 DEF ClickReset
  <2>14. QED  BY <2>12, <2>13, InvStep
<1>4. QED  BY <1>2, <1>3

\* The scanner adds a version, with a tag, or removes one.
LEMMA ScanKeeps ==
  ASSUME Inv, Scan
  PROVE  Inv'
<1>1. IsSound(desk) /\ IsDesk(desk) /\ IsTree(desk.tags)
  BY DEF Inv, IsSound
<1>2. panel' = panel /\ manager' = manager /\ dialog' = dialog
  BY DEF Scan
<1>3. CASE \E v \in DOMAIN desk.versions :
             desk' = [desk EXCEPT !.versions = Restrict(@, DOMAIN @ \ {v}),
                                  !.applied = {a \in @ : a[1] # v},
                                  !.current = IF @ = v THEN 0 ELSE @]
  <2>1. PICK v : desk' = [desk EXCEPT !.versions = Restrict(@, DOMAIN @ \ {v}),
                                      !.applied = {a \in @ : a[1] # v},
                                      !.current = IF @ = v THEN 0 ELSE @]
    BY <1>3
  <2>2. PICK versions, applied, cur :
           /\ applied = {a \in desk.applied : a[1] # v}
           /\ desk' = [desk EXCEPT !.versions = versions, !.applied = applied, !.current = cur]
    BY <2>1
  <2>3. PICK d : d = [desk EXCEPT !.versions = versions]
    OBVIOUS
  <2>4. PICK c : c = [d EXCEPT !.applied = applied]
    OBVIOUS
  <2>5. PICK e : e = [c EXCEPT !.current = cur]
    OBVIOUS
  <2>6. desk' = e
    BY <2>2, <2>3, <2>4, <2>5
  <2>7. IsDesk(d) /\ d.tags = desk.tags /\ d.rows = desk.rows
    BY <1>1, <2>3, VersionedDesk
  <2>8. IsDesk(c) /\ c.tags = desk.tags /\ c.applied = applied /\ c.rows = desk.rows
    <3>1. c = [tags |-> d.tags, applied |-> applied, versions |-> d.versions,
               selection |-> d.selection, current |-> d.current, rows |-> d.rows, filter |-> d.filter]
      BY <2>4, <2>7 DEF IsDesk
    <3>2. QED  BY <2>7, <3>1 DEF IsDesk
  <2>9. IsDesk(e) /\ e.tags = desk.tags /\ e.applied \subseteq desk.applied /\ e.rows = desk.rows
    BY <2>2, <2>5, <2>8, CurrentDesk
  <2>10. IsSound(e) /\ More(desk.tags, e.tags)
    BY <1>1, <2>9, KeptTagsAreSound, MoreOfItself
  <2>11. IsSound(desk') /\ More(desk.tags, desk'.tags)
    BY <2>6, <2>10
  <2>12. QED  BY <1>2, <2>11, InvStep
<1>4. CASE \E photo \in Found : \E versions, v :
             LET made == EnsureCollection(desk.tags, photo.collection)
             IN  desk' = ApplyTag([desk EXCEPT !.tags = made.tags, !.versions = versions], {v}, made.tag)
  <2>0. PICK photo \in Found : \E versions, v :
             LET made == EnsureCollection(desk.tags, photo.collection)
             IN  desk' = ApplyTag([desk EXCEPT !.tags = made.tags, !.versions = versions], {v}, made.tag)
    BY <1>4
  <2>1. PICK versions, v, made :
             /\ made = EnsureCollection(desk.tags, photo.collection)
             /\ desk' = ApplyTag([desk EXCEPT !.tags = made.tags, !.versions = versions], {v}, made.tag)
    BY <2>0
  <2>2. IsTree(made.tags) /\ More(desk.tags, made.tags) /\ made.tag \in Ids(made.tags)
    BY <1>1, <2>1, CollectionEnsured, FoundAssumption
  <2>3. PICK c : c = [desk EXCEPT !.tags = made.tags]
    OBVIOUS
  <2>4. IsSound(c) /\ c.tags = made.tags
    BY <1>1, <2>2, <2>3, GrownDeskIsSound
  <2>5. PICK d : d = [c EXCEPT !.versions = versions]
    OBVIOUS
  <2>6. IsDesk(d) /\ d.tags = c.tags /\ d.applied = c.applied /\ d.rows = c.rows
    BY <2>4, <2>5, VersionedDesk DEF IsSound
  <2>7. IsSound(d) /\ d.tags = made.tags
    BY <2>4, <2>6, KeptTagsAreSound
  <2>8. PICK e : e = ApplyTag(d, {v}, made.tag)
    OBVIOUS
  <2>9. IsSound(e) /\ e.tags = made.tags
    BY <2>2, <2>7, <2>8, ApplyTagKeeps
  <2>10. desk' = e
    <3>1. d = [desk EXCEPT !.tags = made.tags, !.versions = versions]
      BY <2>3, <2>5
    <3>2. QED  BY <2>1, <2>8, <3>1
  <2>11. IsSound(desk') /\ More(desk.tags, desk'.tags)
    BY <2>2, <2>9, <2>10
  <2>12. QED  BY <1>2, <2>11, InvStep
<1>5. QED
  <2>1. \/ \E photo \in Found : \E versions, v :
             LET made == EnsureCollection(desk.tags, photo.collection)
             IN  desk' = ApplyTag([desk EXCEPT !.tags = made.tags, !.versions = versions], {v}, made.tag)
        \/ \E v \in DOMAIN desk.versions :
             desk' = [desk EXCEPT !.versions = Restrict(@, DOMAIN @ \ {v}),
                                  !.applied = {a \in @ : a[1] # v},
                                  !.current = IF @ = v THEN 0 ELSE @]
    BY Zenon DEF Scan
  <2>2. QED  BY <1>3, <1>4, <2>1

\* The program starts from sound tables.
LEMMA InitInv == Init => Inv
<1> SUFFICES ASSUME Init
             PROVE  Inv
  OBVIOUS
<1>1. IsSound(desk)
  BY CataloguesAssumption DEF Init
<1>2. PanelIsSound(desk.tags, panel)
  BY RelistedPanel DEF Init
<1>3. IsWindow(desk.tags, manager) /\ IsDialog(desk.tags, dialog)
  BY DEF Init, IsWindow, IsDialog
<1>4. QED  BY <1>1, <1>2, <1>3 DEF Inv

\* Every action keeps the invariant.
LEMMA NextInv == Inv /\ [Next]_vars => Inv'
<1> SUFFICES ASSUME Inv, [Next]_vars
             PROVE  Inv'
  OBVIOUS
<1>1. CASE EditorAction
  BY <1>1, EditorActionKeeps
<1>2. CASE Type \/ Escape \/ PressAdd \/ PressRemove \/ ClickBrowse \/ Choose \/ ClickApply \/ ClickClose
  BY <1>2, PanelKeeps
<1>3. CASE SelectSlides \/ SelectAll \/ UpdatedBatch
  BY <1>3, SelectionKeeps
<1>4. CASE ShowDialog \/ Turn \/ BrowseTags \/ ChooseInDialog \/ Accept \/ ClickCancel
  BY <1>4, DialogKeeps
<1>5. CASE ClickOK \/ ClickReset
  BY <1>5, ClosedDialogKeeps
<1>6. CASE Scan
  BY <1>6, ScanKeeps
<1>7. CASE UNCHANGED vars
  BY <1>7 DEF vars, Inv
<1>8. QED  BY <1>1, <1>2, <1>3, <1>4, <1>5, <1>6, <1>7 DEF Next

\* However tags are typed, chosen, applied and removed, and whatever the scanner
\* adds, the tags stay a tree in which no two of a parent have one name and the
\* collections have their root; what is applied is there; and panel, managers
\* and dialogue show only tags that are there.
THEOREM TaggingInvariant == Spec => []Inv
<1>1. Init => Inv
  BY InitInv
<1>2. Inv /\ [Next]_vars => Inv'
  BY NextInv
<1>3. QED  BY <1>1, <1>2, PTL DEF Spec

\* NamesFindTags, for every tree: a tag is found by the name it is shown under, so
\* a filter that was told a tag of the tag manager asks for that tag and no other.
\* Siblings may differ in case only; a name with such a word is left out.
THEOREM EveryNameFindsItsTag == Spec => []NamesFindTags
<1>1. Inv => NamesFindTags
  <2>1. SUFFICES ASSUME Inv
                 PROVE  NamesFindTags
    OBVIOUS
  <2>2. IsTree(desk.tags)
    BY <2>1 DEF Inv, IsSound
  <2>3. QED  BY <2>2, NamesFind DEF NamesFindTags
<1>2. QED  BY <1>1, TaggingInvariant, PTL

\* What Enter does in one step, in a state where the invariant holds.
LEMMA EnterStep ==
  ASSUME Inv, EditorAction, up'
  PROVE  LET text == panel.text[1]
             found == SmartFindAll(desk'.tags, text)
         IN  /\ IsUnique(desk.tags, text) \/ IsNew(desk.tags, text)
             /\ IsUnique(desk.tags, text) =>
                  desk'.tags = desk.tags /\ found = SmartFindAll(desk.tags, text)
             /\ IsUnique(desk.tags, text) \/ ~TakesAway(desk.tags, text.words) =>
                  /\ Cardinality(found) = 1
                  /\ \A v \in desk.selection : found \subseteq Applied(desk', v)
                  /\ \A v \in DOMAIN desk.versions :
                        Applied(desk', v) \ Applied(desk, v) \subseteq found
<1>1. PICK text \in Texts : panel.text = <<text>>
  BY DEF Inv, PanelIsSound, EditorAction
<1>2. panel.text[1] = text
  BY <1>1
<1>3. PICK tags, applied : tags = desk.tags /\ applied = desk.applied
  OBVIOUS
<1>4. PICK made : made = TagFor(tags, text)
  OBVIOUS
<1>5. PICK grown : grown = [desk EXCEPT !.tags = made.tags]
  OBVIOUS
<1>6. PICK e : e = ApplyTag(grown, desk.selection, made.tag)
  OBVIOUS
<1>7. made.tag # 0 /\ desk' = e
  <2>1. /\ made.tag # 0
        /\ \/ Commit(ApplyTag(grown, desk.selection, made.tag))
           \/ \E some : Abort(ApplyTag(grown, some, made.tag))
    BY <1>2, <1>3, <1>4, <1>5 DEF EditorAction
  <2>2. QED  BY <1>6, <2>1 DEF Commit, Abort
<1>8. IsSound(desk) /\ IsTree(tags) /\ IsText(text.words)
  BY <1>3, TypedTexts DEF Inv, IsSound
<1>9. IsTree(made.tags) /\ More(tags, made.tags) /\ made.tag \in Ids(made.tags)
  BY <1>4, <1>7, <1>8, TagForGrows
<1>10. IsSound(grown) /\ grown.tags = made.tags /\ grown.applied = applied
  BY <1>3, <1>5, <1>8, <1>9, GrownDeskIsSound
<1>11. e.tags = made.tags /\ e.applied = applied \cup (desk.selection \X {made.tag})
  BY <1>6, <1>9, <1>10, ApplyTagKeeps
<1>12. IsUnique(tags, text) \/ IsNew(tags, text)
  BY <1>4, <1>7, TagForCases
<1>13. IsUnique(tags, text) => made.tags = tags
  <2>1. IsNew(tags, text) => ~IsUnique(tags, text)
    <3>1. Cardinality({}) = 0
      BY FS_EmptySet
    <3>2. QED  BY <3>1 DEF IsNew, IsUnique
  <2>2. QED  BY <1>4, <1>7, <2>1, TagForCases
<1>14. ASSUME IsUnique(tags, text) \/ ~TakesAway(tags, text.words)
       PROVE  /\ SmartFindAll(e.tags, text) = {made.tag}
              /\ Cardinality(SmartFindAll(e.tags, text)) = 1
              /\ \A v \in desk.selection : SmartFindAll(e.tags, text) \subseteq Applied(e, v)
              /\ \A v \in DOMAIN desk.versions :
                    Applied(e, v) \ Applied(desk, v) \subseteq SmartFindAll(e.tags, text)
  <2>1. SmartFindAll(e.tags, text) = {made.tag}
    <3>1. SmartFindAll(made.tags, text) = {made.tag}
      BY <1>4, <1>7, <1>8, <1>14, TagForIsFound
    <3>2. QED  BY <1>11, <3>1
  <2>2. Cardinality({made.tag}) = 1
    BY FS_Singleton
  <2>3. ASSUME NEW v \in desk.selection
        PROVE  made.tag \in Applied(e, v)
    BY <1>9, <1>11 DEF Applied
  <2>4. ASSUME NEW v, NEW t \in Applied(e, v), t # made.tag
        PROVE  t \in Applied(desk, v)
    <3>1. <<v, t>> \in desk.applied
      BY <1>3, <1>11, <2>4 DEF Applied
    <3>2. t \in Ids(desk.tags)
      BY <1>8, <3>1 DEF IsSound
    <3>3. QED  BY <3>1, <3>2 DEF Applied
  <2>5. QED  BY <2>1, <2>2, <2>3, <2>4
<1>15. QED  BY <1>2, <1>3, <1>7, <1>11, <1>12, <1>13, <1>14

\* EnterApplies, for every tree of tags and every text: Enter does what the
\* colour of the text says, and what it applies is what the text then finds.
THEOREM EnterAppliesWhatIsFound == Spec => EnterApplies
<1>1. Inv /\ [Next]_vars =>
        [EditorAction /\ up' =>
          LET text == panel.text[1]
              found == SmartFindAll(desk'.tags, text)
          IN /\ IsUnique(desk.tags, text) \/ IsNew(desk.tags, text)
             /\ IsUnique(desk.tags, text) => desk'.tags = desk.tags /\ found = SmartFindAll(desk.tags, text)
             /\ IsUnique(desk.tags, text) \/ ~TakesAway(desk.tags, text.words) =>
                   /\ Cardinality(found) = 1
                   /\ \A v \in desk.selection : found \subseteq Applied(desk', v)
                   /\ \A v \in DOMAIN desk.versions :
                         Applied(desk', v) \ Applied(desk, v) \subseteq found]_vars
  BY EnterStep, Zenon
<1>2. QED  BY <1>1, TaggingInvariant, PTL DEF Spec, EnterApplies

\* What OK does in one step, in a state where the invariant holds.
LEMMA ReopenStep ==
  ASSUME Inv, ClickOK, Offers(desk, dialog[1].boxes)
  PROVE  LET boxes == dialog[1].boxes
             again == Populate(desk', LoadFromDb(desk'.rows))
         IN  /\ again = [Extract(boxes) EXCEPT !.fl = Offered(@, Roots)]
             /\ desk'.filter = Passing(desk', Located(boxes))
<1>1. PICK boxes : boxes = dialog[1].boxes
  OBVIOUS
<1>2. PICK d, e, f : d = desk /\ e = desk' /\ f = Extract(boxes)
  OBVIOUS
<1>3. IsDesk(d) /\ IsFilter(boxes) /\ Offers(d, boxes)
  <2>1. dialog # <<>> /\ IsDialog(desk.tags, dialog)
    BY DEF ClickOK, InDialog, Inv
  <2>2. QED  BY <1>1, <1>2, <2>1, ChangedDialog DEF Inv, IsSound
<1>4. e \in SelectNearest(ApplyFilterSettings([d EXCEPT !.rows = SaveToDb(f)]))
  BY <1>1, <1>2 DEF ClickOK
<1>5. IsFilter(f)
  BY <1>2, <1>3, ExtractedFilter
<1>6. /\ e.tags = d.tags /\ e.applied = d.applied /\ e.versions = d.versions
      /\ e.rows = SaveToDb(f) /\ LoadFromDb(SaveToDb(f)) = f
      /\ e.filter = Passing([d EXCEPT !.rows = SaveToDb(f)], LoadFromDb(SaveToDb(f)))
  BY <1>3, <1>4, <1>5, ClickedOK, StoredIsRead
<1>7. Populate(e, f) = [f EXCEPT !.fl = Offered(@, Roots)]
  BY <1>2, <1>3, <1>6, ShownAsLeft
<1>8. e.filter = Passing(e, Located(boxes))
  <2>1. PICK stored : stored = [d EXCEPT !.rows = SaveToDb(f)]
    OBVIOUS
  <2>2. stored.tags = d.tags /\ stored.applied = d.applied /\ stored.versions = d.versions
    BY <2>1
  <2>3. Passing(e, f) = Passing(stored, f)
    BY <1>6, <2>2, PassesAlike
  <2>4. Passing(e, f) = Passing(e, Located(boxes))
    <3>1. PICK g : IsFilter(g) /\ Located(boxes) = g /\ g.tags = boxes.tags
                   /\ f = [g EXCEPT !.tags = NormalTexts(boxes.tags)]
      BY <1>2, <1>3, ExtractedFilter
    <3>2. f = [g EXCEPT !.tags = NormalTexts(g.tags)]
      BY <3>1
    <3>3. QED  BY <3>1, <3>2, CapitalsPassAlike
  <2>5. QED  BY <1>6, <2>1, <2>3, <2>4
<1>9. QED  BY <1>1, <1>2, <1>6, <1>7, <1>8

\* ReopensAsLeft, for every catalogue and all boxes: what OK stores is read back
\* as it was, and what passes is what the boxes say, tags as they were typed.
THEOREM FilterReopensAsLeft == Spec => ReopensAsLeft
<1>1. Inv /\ [Next]_vars =>
        [ClickOK /\ Offers(desk, dialog[1].boxes) =>
          LET boxes == dialog[1].boxes
              again == Populate(desk', LoadFromDb(desk'.rows))
          IN /\ again = [Extract(boxes) EXCEPT !.fl = Offered(@, Roots)]
             /\ desk'.filter = Passing(desk', Located(boxes))]_vars
  BY ReopenStep, Zenon
<1>2. QED  BY <1>1, TaggingInvariant, PTL DEF Spec, ReopensAsLeft
=============================================================================
